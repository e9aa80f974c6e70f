----------------------------- MODULE ItemStore ------------------------------
(***************************************************************************)
(* What the control plane's files promise the requests that write them:    *)
(* each write changes one item of one file in one step and no other item,  *)
(* one file at a time, whoever else is writing.  What may be lost is the   *)
(* file being written and those of a tenant being removed, and a tenant    *)
(* leaves no file behind for the next one of its slug.  ConfigStore        *)
(* implements this with any number of requests, crashes and errors.        *)
(***************************************************************************)
CONSTANTS Slugs, Kinds, Names, Items, NoItem

VARIABLES
    tenants,   \* the slugs in use
    files,     \* the items of each file of each tenant
    busy       \* the files that a write or a removal has in its hands

vars == <<tenants, files, busy>>

Empty == [n \in Names |-> NoItem]

Init ==
    /\ tenants = {}
    /\ files = [s \in Slugs |-> [k \in Kinds |-> Empty]]
    /\ busy = {}

Add(s) ==
    /\ s \notin tenants
    /\ tenants' = tenants \cup {s}
    /\ UNCHANGED <<files, busy>>

\* One item of a file is added, replaced or deleted.
Change(s, k, n, item) ==
    /\ s \in tenants
    /\ busy = {}
    /\ busy' = {<<s, k>>}
    /\ files' = [files EXCEPT ![s][k][n] = item]
    /\ UNCHANGED tenants

Remove(s) ==
    /\ s \in tenants
    /\ busy = {}
    /\ busy' = {s} \X Kinds
    /\ UNCHANGED <<tenants, files>>

\* Of the files in somebody's hands one is lost, and perhaps that was all.
Lose(s, k) ==
    /\ <<s, k>> \in busy
    /\ files' = [files EXCEPT ![s][k] = Empty]
    /\ busy' \in {busy, {}}
    /\ UNCHANGED tenants

\* A write ends, or a removal that did not get through.
Finish ==
    /\ busy # {}
    /\ busy' = {}
    /\ UNCHANGED <<tenants, files>>

Removed(s) ==
    /\ busy = {s} \X Kinds
    /\ files[s] = [k \in Kinds |-> Empty]
    /\ tenants' = tenants \ {s}
    /\ busy' = {}
    /\ UNCHANGED files

Next ==
    \/ \E s \in Slugs : Add(s) \/ Remove(s) \/ Removed(s)
    \/ \E s \in Slugs, k \in Kinds : Lose(s, k)
    \/ \E s \in Slugs, k \in Kinds, n \in Names, item \in Items \cup {NoItem} :
          Change(s, k, n, item)
    \/ Finish

Spec == Init /\ [][Next]_vars
=============================================================================
