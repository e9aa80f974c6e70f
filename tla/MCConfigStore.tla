---------------------------- MODULE MCConfigStore ---------------------------
(* Instances of ConfigStore for TLC. *)
EXTENDS ConfigStore, TLC

CONSTANT n1    \* the scope that others name
MCItems == {{}, {n1}}

Symmetry == Permutations(Handlers) \cup Permutations(Clients)
            \cup Permutations(Claims)
=============================================================================
