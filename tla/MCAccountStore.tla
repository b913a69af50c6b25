--------------------------- MODULE MCAccountStore ---------------------------
(* Small instances of AccountStore for TLC. *)
EXTENDS AccountStore, TLC

CONSTANTS admin

\* Every write handed the one privileged list: no caller passes an empty one.
AlwaysGuarded == {{admin}}

Symmetric == Permutations(Account) \cup Permutations(Password) \cup Permutations(Hash)
=============================================================================
