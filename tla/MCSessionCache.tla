--------------------------- MODULE MCSessionCache ---------------------------
(* A small instance of SessionCache for TLC. *)
EXTENDS SessionCache, TLC

Symmetric == Permutations(Login) \cup Permutations(Call)
=============================================================================
