---------------------------- MODULE MCEmailTokens ----------------------------
(* EmailTokens on a small instance for TLC. *)
EXTENDS EmailTokens, TLC

CONSTANTS u1, h1, h2, t1, t2, t3

Symmetry == Permutations({h1, h2}) \cup Permutations({t1, t2, t3})
=============================================================================
