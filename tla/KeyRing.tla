------------------------------ MODULE KeyRing -------------------------------
(***************************************************************************)
(* What key rotation promises whoever verifies tokens: the key that signs  *)
(* is always published, a rotation adds the new key before anything is     *)
(* signed with it, and the key it replaces stays until its grace period    *)
(* ends or it is revoked.  KeyStore implements this for each key directory *)
(* as long as admin requests do not overlap and rotations come no closer   *)
(* than the grace period.                                                  *)
(***************************************************************************)
CONSTANTS Dirs, Kids, NoKey

VARIABLES
    signing,     \* the key each directory signs with, or NoKey
    published    \* the keys each directory publishes

vars == <<signing, published>>

Init ==
    /\ signing \in [Dirs -> Kids \cup {NoKey}]
    /\ published = [d \in Dirs |-> {signing[d]} \ {NoKey}]

Create(d, new) ==
    /\ signing[d] = NoKey
    /\ signing' = [signing EXCEPT ![d] = new]
    /\ published' = [published EXCEPT ![d] = @ \cup {new}]

Rotate(d, new) ==
    /\ signing[d] # NoKey
    /\ \A e \in Dirs : new \notin published[e]
    /\ signing' = [signing EXCEPT ![d] = new]
    /\ published' = [published EXCEPT ![d] = @ \cup {new}]

\* The grace period of the replaced key ends.
Drop(d) ==
    /\ published' = [published EXCEPT ![d] = {signing[d]} \ {NoKey}]
    /\ UNCHANGED signing

\* The signing key is revoked.  What it replaced stays; so does the key itself
\* when a rotation of it had begun and come to nothing.
Revoke(d) ==
    /\ signing[d] # NoKey
    /\ signing' = [signing EXCEPT ![d] = NoKey]
    /\ \/ UNCHANGED published
       \/ published' = [published EXCEPT ![d] = @ \ {signing[d]}]

Next ==
    \E d \in Dirs :
       Drop(d) \/ Revoke(d) \/ \E k \in Kids : Create(d, k) \/ Rotate(d, k)

Spec == Init /\ [][Next]_vars
=============================================================================
