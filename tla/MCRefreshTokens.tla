--------------------------- MODULE MCRefreshTokens ---------------------------
(* Instances of RefreshTokens for TLC. *)
EXTENDS RefreshTokens, TLC

\* One registered client and an id that differs from it only in case.
MCClientIDs == {"web", "WEB"}
MCRegistered == {"web"}
MCFold == [c \in MCClientIDs |-> "web"]

\* Interchangeable clients, all registered, no two alike but for case.
MCAllRegistered == ClientIDs
MCNoFold == [c \in ClientIDs |-> c]

MCOneClient == {"web"}
MCOneFold == [c \in MCOneClient |-> "web"]

Symmetry == Permutations(Users) \cup Permutations(ClientIDs)
            \cup Permutations(Handlers) \cup Permutations(Tokens)
=============================================================================
