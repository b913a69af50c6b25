--------------------------- MODULE MCPgFirstUser ----------------------------
(* A small instance of PgFirstUser for TLC. *)
EXTENDS PgFirstUser, TLC

Symmetric == Permutations(First) \cup Permutations(Tx \ First)
=============================================================================
