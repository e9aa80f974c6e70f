--------------------------- MODULE MCTenantAccess ---------------------------
(* Instances of TenantAccess for TLC. *)
EXTENDS TenantAccess, TLC

Symmetry == Permutations(Handlers) \cup Permutations(DSNs)
            \cup Permutations(Conns) \cup Permutations(IDs)
            \cup Permutations(Slugs) \cup Permutations(Rest)
=============================================================================
