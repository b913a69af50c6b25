-------------------------- MODULE MCAdministration --------------------------
(* A small instance of Administration for TLC. *)
EXTENDS Administration, TLC

CONSTANTS admin, editor, viewer, legacy

\* Administrators outrank editors, who may administer too; viewers may
\* not, and nobody declares legacy.
Administrators == {admin, editor}
DeclaredRoles == {admin, editor, viewer}
Guarded == {Administrators}
Ranks == (admin :> {"accounts", "texts"}) @@ (editor :> {"texts"})
         @@ (viewer :> {}) @@ (legacy :> {}) @@ (NoRole :> {})

AdminSymmetry == Permutations(Account) \cup Permutations(Request)
=============================================================================
