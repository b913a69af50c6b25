------------------------------ MODULE MCSetup -------------------------------
(* Small instances of Setup for TLC. *)
EXTENDS Setup, TLC

CONSTANTS s1, s2, c1, c2

\* Two processes, one call each.
OneEach == (c1 :> s1) @@ (c2 :> s2)

\* One process with two requests under way.
BothOne == (c1 :> s1) @@ (c2 :> s1)
=============================================================================
