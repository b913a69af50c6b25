----------------------------- MODULE MCPgGuard ------------------------------
(* Small instances of PgGuard for TLC. *)
EXTENDS PgGuard, TLC

CONSTANTS admin, member

OneGuard == {{admin}}

\* A write handed the one privileged list: of a role or of the disabled flag.
RoleWrite(id, from, role) ==
    [op |-> "role", id |-> id, from |-> from, role |-> role, disabled |-> FALSE,
     privileged |-> {admin}]

DisableWrite(id, from, disabled) ==
    [op |-> "disable", id |-> id, from |-> from, role |-> NoRole, disabled |-> disabled,
     privileged |-> {admin}]

\* Demotions, disables and enables of any account, checked and not.
Removals ==
    {RoleWrite(id, from, member) : id \in Account, from \in {RoleName, {admin}}}
        \cup {DisableWrite(id, from, disabled) :
                id \in Account, from \in {RoleName, {admin}}, disabled \in BOOLEAN}

\* The unchecked demotions, and the promotion of any account.
Demotions == {RoleWrite(id, RoleName, member) : id \in Account}

Promotions == {RoleWrite(id, RoleName, admin) : id \in Account}

DemotionsAndPromotions == Demotions \cup Promotions

\* A store that is set up: an enabled account holds a privileged role.
CoveredSpec == Init /\ Covered({admin}) /\ [][Next]_vars

\* postgres/role.go says of the guarded writes that they refuse "to leave no enabled account
\* under a privileged one": from a covered store, cover stays.
StaysCovered == Covered({admin})

Symmetric == Permutations(Tx)
=============================================================================
