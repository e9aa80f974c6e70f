----------------------------- MODULE MCConsole -----------------------------
(* The bounds of the console's areas, for TLC. *)
EXTENDS ConsoleApp

MCMaxEvents ==
    [a \in Areas |-> IF a \in {"tokens", "roles", "assignments"} THEN 3 ELSE 2]
=============================================================================
