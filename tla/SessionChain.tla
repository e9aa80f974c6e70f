---------------------------- MODULE SessionChain ----------------------------
(***************************************************************************)
(* What refresh-token rotation promises a client of the tenant database:   *)
(* a session is a chain of tokens of which at most one is usable, and a    *)
(* rotation replaces it in one indivisible step.  A session is named by    *)
(* the token it was opened with.  RefreshTokens implements this            *)
(* specification as long as requests do not overlap.                       *)
(***************************************************************************)
CONSTANT Tokens

VARIABLES
    usable,   \* the tokens of each session that its client can still use
    spent     \* every token that was ever usable

vars == <<usable, spent>>

TypeOK ==
    /\ usable \in [Tokens -> SUBSET Tokens]
    /\ spent \subseteq Tokens

Init ==
    /\ usable = [s \in Tokens |-> {}]
    /\ spent = {}

\* A login opens a session with its first token.
Open(s) ==
    /\ s \notin spent
    /\ usable' = [usable EXCEPT ![s] = {s}]
    /\ spent' = spent \cup {s}

\* A refresh swaps the one usable token of the session for a new one.
Rotate(s, new) ==
    /\ \E old \in Tokens : usable[s] = {old}
    /\ new \notin spent
    /\ usable' = [usable EXCEPT ![s] = {new}]
    /\ spent' = spent \cup {new}

\* A logout, a sweep or a user deletion ends whole sessions.
End(S) ==
    /\ usable' = [s \in Tokens |-> IF s \in S THEN {} ELSE usable[s]]
    /\ UNCHANGED spent

Next ==
    \/ \E s \in Tokens : Open(s)
    \/ \E s, new \in Tokens : Rotate(s, new)
    \/ \E S \in SUBSET Tokens : End(S)

Spec == Init /\ [][Next]_vars
=============================================================================
