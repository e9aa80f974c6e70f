----------------------------- MODULE MCKeyStore -----------------------------
(* Instances of KeyStore for TLC. *)
EXTENDS KeyStore, TLC

Symmetry == Permutations(Handlers) \cup Permutations(Kids)
=============================================================================
