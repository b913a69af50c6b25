----------------------------- MODULE MCLimiter ------------------------------
(* A small instance of Limiter for TLC. *)
EXTENDS Limiter, TLC

CONSTANTS c1, c2, p1

\* Two clients on networks of their own, behind one proxy.
Own == (c1 :> 1) @@ (c2 :> 2) @@ (p1 :> 3)

LimiterSymmetry == Permutations(Attempt)
=============================================================================
