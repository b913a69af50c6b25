------------------------------ MODULE MCLogins ------------------------------
(* A small instance of Logins for TLC. *)
EXTENDS Logins, TLC

Unguarded == {{}}

LoginSymmetry ==
    Permutations(Account) \cup Permutations(Password) \cup Permutations(Hash)
        \cup Permutations(Call)
=============================================================================
