------------------------------ MODULE Console ------------------------------
(***************************************************************************)
(* What the console's list pages have in common: queries and mutations of   *)
(* React Query, dialogs, row selection and the API client.  One browser    *)
(* tab works in one area of the console (tokens, users, clients, ...)      *)
(* while other administrators and programs change the same records.        *)
(* Modules that extend this one have the pages of an area: the guard of    *)
(* each control and what its mutation does.                                *)
(*                                                                         *)
(* A record is there or not, and is on or off (active or revoked, enabled  *)
(* or blocked, ...); what else is in it no guard looks at.  A page asks a  *)
(* query for its list and often a second one, "side" (statistics, one       *)
(* record's detail).  The pages and filters of a list have keys of their   *)
(* own, always invalidated together: here they are one query.              *)
(*                                                                         *)
(* The server may carry out or refuse any request.  Several of them have   *)
(* no route at this commit (README); what is shown holds with and without. *)
(*                                                                         *)
(* Bound: in area a, MaxEvents[a] mounts of a page or a tab of it, clicks  *)
(* that send something, and changes by others, together.                   *)
(***************************************************************************)
EXTENDS Naturals, FiniteSets

CONSTANTS
    Items,         \* records of the area
    Areas,         \* areas the administrator works in
    MaxEvents,
    NoItem, NoData, Asked, Nowhere

Keys   == {"list", "side"}
Record == {"none", "on", "off"}

Snapshot == [val: [Items -> Record], ver: Nat]

ASSUME ConstantsAssumption ==
    /\ Areas # {} /\ MaxEvents \in [Areas -> Nat]
    /\ Items # {} /\ NoItem \notin Items
    /\ NoData # Asked /\ {NoData, Asked} \cap Snapshot = {}

\* A request about all records of a tenant, a user or a client - the model's
\* records are of one user and one client - is sent for this one.
Every == CHOOSE i \in Items : TRUE

VARIABLES
    area,     \* where the administrator works
    stored,   \* the area's records on the server
    version,  \* how many times they were written
    ui,       \* the page on screen
    cache,    \* React Query's data
    gets,     \* its requests: none, Asked, or the answer on its way back
    calls,    \* mutations under way
    seen,     \* what each key must show: confirmed writes of this tab
    events

vars == <<area, stored, version, ui, cache, gets, calls, seen, events>>

Blank == [at |-> Nowhere, reads |-> {}, narrow |-> FALSE,
          dialog |-> "", item |-> NoItem, form |-> FALSE, selected |-> {}]

\* Pages, dialogs and mutations have names, of which nothing is asked here.
IsPage(u) ==
    u \in [at: {u.at}, reads: SUBSET Keys, narrow: BOOLEAN, dialog: {u.dialog},
          item: Items \cup {NoItem}, form: BOOLEAN, selected: SUBSET Items]

\* What a mutation is, and one that was sent: see below.
IsOp(m) ==
    m \in [name: {m.name},
          makes: Record \cup {"new", "put", "same", "hidden", "all off", "refused"},
          ok: SUBSET Keys, bad: SUBSET Keys, misses: SUBSET Keys, closes: {m.closes},
          clears: BOOLEAN, goes: {m.goes}, mode: {"all", "one by one", "all or error"}]
IsCall(c) ==
    /\ c \in [op: {c.op}, id: Nat, items: SUBSET Items, todo: SUBSET Items,
             queue: SUBSET Items, done: SUBSET Items, failed: BOOLEAN, mine: BOOLEAN]
    /\ IsOp(c.op)
    /\ c.todo \cup c.queue \cup c.done \subseteq c.items
    /\ c.todo \cap c.queue = {}

TypeOK ==
    /\ area \in Areas
    /\ stored \in [Items -> Record] /\ version \in Nat
    /\ IsPage(ui)
    /\ cache \in [Keys -> [data: Snapshot \cup {NoData}, stale: BOOLEAN]]
    /\ gets \in [Keys -> Snapshot \cup {NoData, Asked}]
    /\ \A c \in calls : IsCall(c)
    /\ seen \in [Keys -> 0..version]
    /\ events \in 0..MaxEvents[area]

\* The records are there, one of them off or still to be created.
Init ==
    /\ area \in Areas
    /\ \E r \in Record :
          stored = [i \in Items |-> IF i = Every THEN r ELSE "on"]
    /\ version = 0
    /\ ui = Blank
    /\ cache = [k \in Keys |-> [data |-> NoData, stale |-> TRUE]]
    /\ gets = [k \in Keys |-> NoData]
    /\ calls = {}
    /\ seen = [k \in Keys |-> 0]
    /\ events = 0

Event == events < MaxEvents[area] /\ events' = events + 1

-----------------------------------------------------------------------------
(* Queries and pages                                                        *)

\* useQuery mounts, on page u: fresh data is used, a fetch under way is joined.
Mounted(u, c, g) ==
    [k \in Keys |-> IF k \in u.reads /\ c[k].stale /\ g[k] = NoData
                    THEN Asked ELSE g[k]]

\* The page of these calls has gone.
Abandoned(cs) == {[c EXCEPT !.mine = FALSE] : c \in cs}

\* A page of area a, or a tab of it, is shown; narrow: its filter at first.
Move(a, at, narrow, reads) ==
    /\ area = a /\ ui.at # at /\ ui.dialog = ""
    /\ ui' = [Blank EXCEPT !.at = at, !.reads = reads, !.narrow = narrow]
    /\ gets' = Mounted(ui', cache, gets)
    /\ calls' = Abandoned(calls)
    /\ UNCHANGED <<area, stored, version, cache, seen>>

Go(a, at, narrow, reads) == Event /\ Move(a, at, narrow, reads)

\* The server answers a GET with what it holds now.
Serve(k) ==
    /\ gets[k] = Asked
    /\ gets' = [gets EXCEPT ![k] = [val |-> stored, ver |-> version]]
    /\ UNCHANGED <<area, stored, version, ui, cache, calls, seen, events>>

Arrive(k) ==
    /\ gets[k] \notin {NoData, Asked}
    /\ cache' = [cache EXCEPT ![k] = [data |-> gets[k], stale |-> FALSE]]
    /\ gets' = [gets EXCEPT ![k] = NoData]
    /\ UNCHANGED <<area, stored, version, ui, calls, seen, events>>

\* The last retry fails: old data stays, and counts as before.
GetFails(k) ==
    /\ gets[k] = Asked
    /\ gets' = [gets EXCEPT ![k] = NoData]
    /\ UNCHANGED <<area, stored, version, ui, cache, calls, seen, events>>

\* A fetch under way is dropped for a new one, unless it is the key's first.
Refetched(ks) ==
    [k \in Keys |-> IF k \in ks /\ (cache[k].data # NoData \/ gets[k] = NoData)
                    THEN Asked ELSE gets[k]]

\* queryClient.invalidateQueries
Told(ks) == [k \in Keys |-> IF k \in ks THEN [cache[k] EXCEPT !.stale = TRUE] ELSE cache[k]]
Invalidate(ks) ==
    /\ cache' = Told(ks)
    /\ gets' = Refetched(ks \cap ui.reads)

\* A refresh button.
Refetch(k) ==
    /\ k \in ui.reads
    /\ gets' = Refetched({k})
    /\ UNCHANGED <<area, stored, version, ui, cache, calls, seen, events>>

\* Data is fresh for a minute.
Expire(k) ==
    /\ k \notin ui.reads /\ ~cache[k].stale
    /\ cache' = [cache EXCEPT ![k].stale = TRUE]
    /\ UNCHANGED <<area, stored, version, ui, gets, calls, seen, events>>

-----------------------------------------------------------------------------
(* Rows, selection and dialogs                                              *)

At(a, at) == area = a /\ ui.at = at

Data(k)  == cache[k].data
Loaded   == Data("list") # NoData
Value(i) == Data("list").val[i]

\* The rows of the table: what the filter leaves of the list.
Rows == IF ~Loaded THEN {}
        ELSE {i \in Items : Value(i) \in (IF ui.narrow THEN {"on"} ELSE {"on", "off"})}

Only == UNCHANGED <<area, stored, version, cache, gets, calls, seen, events>>

\* Free: no dialog covers the page.
Free == ui.dialog = ""

\* A dialog opens for a record (or for a new one); its form starts as f says.
Show(d, i, f) == ui' = [ui EXCEPT !.dialog = d, !.item = i, !.form = f] /\ Only

\* onOpenChange and cancel buttons.
Closed == [ui EXCEPT !.dialog = "", !.item = NoItem]
Close(ds) == ui.dialog \in ds /\ ui' = Closed /\ Only

\* Inputs: a form becomes complete, or is not any more.
Fill(ds) == ui.dialog \in ds /\ ui' = [ui EXCEPT !.form = ~@] /\ Only

Toggle(i) ==
    /\ Free /\ i \in Rows
    /\ ui' = [ui EXCEPT !.selected = IF i \in @ THEN @ \ {i} ELSE @ \cup {i}]
    /\ Only

\* "All" is told by counting, as the code does.
ToggleAll ==
    /\ Free /\ Loaded
    /\ ui' = [ui EXCEPT !.selected = IF Cardinality(@) = Cardinality(Rows) THEN {} ELSE Rows]
    /\ Only

ClearSelection == Free /\ ui.selected # {} /\ ui' = [ui EXCEPT !.selected = {}] /\ Only

\* Search and filters.
Filter == Free /\ ui' = [ui EXCEPT !.narrow = ~@] /\ Only

-----------------------------------------------------------------------------
(* Mutations                                                                *)

\* What a mutation makes of a record, and what its handlers do: the keys they
\* invalidate after success and after failure, the dialogs success closes,
\* whether it clears the selection, the page it goes to, and how several
\* requests go out.  misses: keys of the area that show the change and that it
\* leaves as they are.
Mutation(name, makes, ok) ==
    [name |-> name, makes |-> makes, ok |-> ok, bad |-> {}, misses |-> {},
     closes |-> {}, clears |-> FALSE, goes |-> Nowhere, mode |-> "all"]

\* isPending.  The code's follows the latest mutate() only, so a button may be
\* enabled again while an older call of the same mutation is under way; that is
\* left out, and the proofs hold whatever Pending is.
Pending(m) == \E c \in calls : c.op.name = m.name /\ c.mine

\* Mutant: the request sent first is sent once more.
RequestTwice(m, is, first) ==
    [op |-> m, id |-> events, items |-> is, todo |-> first, queue |-> is,
     done |-> {}, failed |-> FALSE, mine |-> TRUE]

Request(m, is, first) ==
    [op |-> m, id |-> events, items |-> is, todo |-> first, queue |-> is \ first,
     done |-> {}, failed |-> FALSE, mine |-> TRUE]

\* mutate(), by which the page becomes u.
SendAs(u, m, is) ==
    \E first \in IF m.mode = "one by one" THEN {{i} : i \in is} ELSE {is} :
        /\ is # {} /\ Event
        /\ calls' = calls \cup {Request(m, is, first)}
        /\ ui' = u
        /\ UNCHANGED <<area, stored, version, cache, gets, seen>>

Send(m, is) == SendAs(ui, m, is)

Becomes(c, d) == calls' = (calls \ {c}) \cup {d}

\* Creating needs a free name, anything else but an upsert needs a record.
Accepted(c, i) ==
    CASE c.op.makes = "new" -> stored[i] = "none"
      [] c.op.makes \in {"put", "all off"} -> TRUE
      [] c.op.makes = "refused" -> FALSE
      [] OTHER              -> stored[i] # "none"

Result(c, i) ==
    CASE c.op.makes = "new"  -> "on"
      [] c.op.makes = "put"  -> IF stored[i] = "none" THEN "on" ELSE stored[i]
      [] c.op.makes \in {"same", "hidden"} -> stored[i]
      [] OTHER               -> c.op.makes

\* The server carries out one request ("hidden": nothing any list shows),
Carry(c, i) ==
    /\ i \in c.todo /\ Accepted(c, i)
    /\ stored' = IF c.op.makes = "all off"
                 THEN [j \in Items |-> IF stored[j] = "on" THEN "off" ELSE stored[j]]
                 ELSE [stored EXCEPT ![i] = Result(c, i)]
    /\ version' = IF c.op.makes = "hidden" THEN version ELSE version + 1
    /\ UNCHANGED <<area, ui, cache, gets, seen, events>>

Do(c, i) ==
    /\ Carry(c, i)
    /\ Becomes(c, [c EXCEPT !.todo = @ \ {i}, !.done = @ \cup {i}])

\* or its answer is lost,
LoseAnswer(c, i) ==
    /\ Carry(c, i)
    /\ Becomes(c, [c EXCEPT !.todo = @ \ {i}, !.failed = TRUE])

\* or it refuses the request, or never gets it.
Refuse(c, i) ==
    /\ i \in c.todo
    /\ Becomes(c, [c EXCEPT !.todo = @ \ {i}, !.failed = TRUE])
    /\ UNCHANGED <<area, stored, version, ui, cache, gets, seen, events>>

\* Mutant: nobody awaits Promise.all.
Unawaited(c) == c.todo = {} \/ c.op.mode = "all or error"

\* Promise.all is over with the first failure; what else it sent goes on.
Over(c) == c.todo = {} \/ (c.op.mode = "all or error" /\ c.failed)

\* A write is confirmed: each key of the area must show it from now on.  Not a
\* key whose first fetch is under way, which is joined, nor one fetched for a
\* page left meanwhile, whose answer will count as fresh.
Confirm(c) ==
    seen' = [k \in Keys |->
               IF \/ c.op.makes = "hidden" \/ k \in c.op.misses
                  \/ gets[k] # NoData /\ (k \notin ui.reads \/ cache[k].data = NoData)
               THEN seen[k] ELSE version]

\* What success makes of the page on screen: its dialog is closed when the page
\* is the one that asked, but router.push goes to the new record's page from
\* wherever the administrator is by then.
Page(c) ==
    IF c.queue # {} THEN ui
    ELSE IF c.op.goes # Nowhere THEN [Blank EXCEPT !.at = c.op.goes, !.reads = {"side"}]
    ELSE IF c.mine
      THEN [(IF ui.dialog \in c.op.closes THEN Closed ELSE ui)
              EXCEPT !.selected = IF c.op.clears THEN {} ELSE @]
    ELSE ui

\* onSuccess: the query client is told even when the page has gone.
Succeed(c) ==
    /\ Over(c) /\ ~c.failed
    /\ ui' = Page(c)
    /\ cache' = Told(c.op.ok)
    /\ gets' = IF ui'.at = ui.at THEN Refetched(c.op.ok \cap ui.reads)
               ELSE Mounted(ui', cache', Refetched(c.op.ok \cap ui.reads))
    /\ Confirm(c)
    /\ IF c.queue # {}
       THEN \E i \in c.queue : Becomes(c, [c EXCEPT !.todo = {i}, !.queue = @ \ {i}])
       ELSE calls' = IF ui'.at = ui.at THEN calls \ {c} ELSE Abandoned(calls \ {c})
    /\ UNCHANGED <<area, stored, version, events>>

\* onError: a message; the page stays as it is.
Fail(c) ==
    /\ Over(c) /\ c.failed
    /\ Invalidate(c.op.bad)
    /\ IF c.done # {} /\ c.op.mode = "all" THEN Confirm(c) ELSE UNCHANGED seen
    /\ IF c.todo = {} THEN calls' = calls \ {c}
       ELSE Becomes(c, [c EXCEPT !.op.mode = "all", !.op.bad = {}, !.op.misses = Keys,
                                 !.mine = FALSE])
    /\ UNCHANGED <<area, stored, version, ui, events>>

\* Another administrator, or a program, changes a record.
OthersWrite(i, r) ==
    /\ Event /\ r # stored[i]
    /\ stored' = [stored EXCEPT ![i] = r] /\ version' = version + 1
    /\ UNCHANGED <<area, ui, cache, gets, calls, seen>>

-----------------------------------------------------------------------------
Shared ==
    \/ \E k \in Keys : Serve(k) \/ Arrive(k) \/ GetFails(k) \/ Expire(k)
    \/ \E c \in calls : \/ Succeed(c) \/ Fail(c)
                        \/ \E i \in c.todo : Do(c, i) \/ Refuse(c, i) \/ LoseAnswer(c, i)
    \/ \E i \in Items, r \in Record : OthersWrite(i, r)

-----------------------------------------------------------------------------
(* Properties                                                               *)

(***************************************************************************)
(* Once a mutation of this tab is reported done - or a bulk one half done - *)
(* no list, statistics or detail of the area passes for fresh that does    *)
(* not have it, on this page or on one opened later.                       *)
(***************************************************************************)
ReadYourWrites ==
    \A k \in Keys : (gets[k] = NoData /\ ~cache[k].stale) => Data(k).ver >= seen[k]

(***************************************************************************)
(* A bulk operation reported as done changed every record it was asked     *)
(* for, however its requests were answered and whatever was selected       *)
(* since: a failure of one of them is never swallowed.                     *)
(***************************************************************************)
SuccessMeansDone ==
    [][\A c \in calls : (Succeed(c) /\ c.queue = {}) => c.done = c.items]_vars

=============================================================================
