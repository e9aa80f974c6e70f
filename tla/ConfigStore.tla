---------------------------- MODULE ConfigStore -----------------------------
(***************************************************************************)
(* The control plane's files: tenant.yaml, clients.yaml, scopes.yaml and   *)
(* claims.yaml in the directory of each tenant, read and written by every  *)
(* admin request under the one RWMutex of the FS connection.               *)
(*                                                                         *)
(* A write is the whole file again: read, change one item, os.WriteFile,   *)
(* which truncates before it writes.  The write lock keeps other requests  *)
(* out of the two halves, but not a crash or a full disk.  A read is one   *)
(* step that waits for the write lock.                                     *)
(*                                                                         *)
(* Of an item the model keeps the scopes it names: those a client may ask  *)
(* for, the one a scope depends on, those a claim belongs to.              *)
(***************************************************************************)
EXTENDS Naturals, FiniteSets

CONSTANTS
    Slugs,        \* slugs of tenants
    Clients,      \* client ids
    Scopes,       \* names of scopes
    Claims,       \* ids of custom claims
    Items,        \* the sets of scopes an item may name
    Handlers,     \* admin requests being served
    Updates,      \* the kinds of items that are updated in place
    Faults,       \* TRUE when the process may die and a write may fail
    NoItem, None  \* not in the file; no request

Kinds == {"clients", "scopes", "claims"}

Names == Clients \cup Scopes \cup Claims

\* The names of the items of a file.
Named(k) == CASE k = "clients" -> Clients [] k = "scopes" -> Scopes [] OTHER -> Claims

ASSUME ConstantsAssumption ==
    /\ Updates \subseteq Kinds
    /\ Faults \in BOOLEAN
    /\ Items \subseteq SUBSET Scopes
    /\ NoItem \notin Items
    /\ None \notin Handlers

VARIABLES
    dir,      \* which tenants have a directory
    tenant,   \* tenant.yaml: "missing", "blank" (an empty file) or "ok"
    yaml,     \* the other files: the items of each by name
    lock,     \* fsConnection.mu: the request that holds it for writing
    req,      \* what each request still has to do
    kept,     \* history: items whose creation was answered, until deleted
    late      \* history: clients written since a DeleteScope began

vars == <<dir, tenant, yaml, lock, req, kept, late>>

\* A file that is missing reads like an empty one.
File  == [Names -> Items \cup {NoItem}]
Empty == [n \in Names |-> NoItem]

Idle == [step |-> "idle"]

\* The two halves of os.WriteFile on an item file, with what is to be in it.
Rewrite == [step: {"truncate", "fill"}, slug: Slugs, kind: Kinds, name: Names,
            new: File, get: BOOLEAN]
Waiting == [step: {"stuck"}, slug: Slugs]
Scoped  == [step: {"dependents", "drop"}, slug: Slugs, name: Scopes]
Settled == [step: {"update", "open", "write"}, slug: Slugs, was: {"blank", "ok"}]
Removal == [step: {"remove"}, slug: Slugs]
Request == {Idle} \cup Rewrite \cup Waiting \cup Scoped \cup Settled \cup Removal

TypeOK ==
    /\ dir \in [Slugs -> BOOLEAN]
    /\ tenant \in [Slugs -> {"missing", "blank", "ok"}]
    /\ yaml \in [Slugs -> [Kinds -> File]]
    /\ lock \in Handlers \cup {None}
    /\ req \in [Handlers -> Request]
    /\ kept \subseteq Slugs \X Kinds \X Names
    /\ late \in [Handlers -> SUBSET Clients]

NoFiles == [k \in Kinds |-> Empty]

Init ==
    /\ dir = [s \in Slugs |-> FALSE]
    /\ tenant = [s \in Slugs |-> "missing"]
    /\ yaml = [s \in Slugs |-> NoFiles]
    /\ lock = None
    /\ req = [h \in Handlers |-> Idle]
    /\ kept = {}
    /\ late = [h \in Handlers |-> {}]

Resume(h, r) == req' = [req EXCEPT ![h] = r]

-----------------------------------------------------------------------------
(* Items: clients, scopes and claims                                        *)

\* Mutant: a file that cannot be read is taken for an empty one.
RewritingEmpty(h, s, k, n, item, get) ==
    /\ lock' = h
    /\ \E old \in {yaml[s][k], Empty} :
          Resume(h, [step |-> "truncate", slug |-> s, kind |-> k, name |-> n,
                     new |-> [old EXCEPT ![n] = item], get |-> get])
    /\ UNCHANGED <<dir, tenant, yaml, late>>

\* Lock, read and change: what the write that follows will put in the file.
Rewriting(h, s, k, n, item, get) ==
    /\ lock' = h
    /\ Resume(h, [step |-> "truncate", slug |-> s, kind |-> k, name |-> n,
                  new |-> [yaml[s][k] EXCEPT ![n] = item], get |-> get])
    /\ UNCHANGED <<dir, tenant, yaml, late>>

\* Mutant: the read lock is taken for a create.
CreateReadLocked(h, s, k, n, item) ==
    /\ req[h] = Idle
    /\ dir[s]
    /\ yaml[s][k][n] = NoItem
    /\ Rewriting(h, s, k, n, item, FALSE)
    /\ UNCHANGED kept

\* clientRepo.Create, scopeRepo.Create and Upsert, claimRepo.Create: not an
\* item that exists, nor one without a directory for its file.
CreateItem(h, s, k, n, item) ==
    /\ req[h] = Idle
    /\ lock = None
    /\ dir[s]
    /\ yaml[s][k][n] = NoItem
    /\ Rewriting(h, s, k, n, item, FALSE)
    /\ UNCHANGED kept

\* clientRepo.Update, scopeRepo.Upsert, claimRepo.Update: an item that
\* exists.  The one of clients asks for the client it has written.
UpdateItem(h, s, k, n, item) ==
    /\ k \in Updates
    /\ req[h] = Idle
    /\ lock = None
    /\ yaml[s][k][n] # NoItem
    /\ Rewriting(h, s, k, n, item, k = "clients")
    /\ UNCHANGED kept

\* clientRepo.Delete, claimRepo.Delete.
DeleteItem(h, s, k, n) ==
    /\ k # "scopes"
    /\ req[h] = Idle
    /\ lock = None
    /\ yaml[s][k][n] # NoItem
    /\ Rewriting(h, s, k, n, NoItem, FALSE)
    /\ kept' = kept \ {<<s, k, n>>}

\* os.WriteFile: O_TRUNC ...
Truncate(h) ==
    LET r == req[h] IN
    /\ r.step = "truncate"
    /\ yaml' = [yaml EXCEPT ![r.slug][r.kind] = Empty]
    /\ Resume(h, [r EXCEPT !.step = "fill"])
    /\ UNCHANGED <<dir, tenant, lock, kept, late>>

\* ... then the content.  Update of a client goes on to Get, List and RLock
\* with the write lock in its hands.
Fill(h) ==
    LET r == req[h] IN
    /\ r.step = "fill"
    /\ yaml' = [yaml EXCEPT ![r.slug][r.kind] = r.new]
    /\ kept' = IF r.new[r.name] = NoItem THEN kept
               ELSE kept \cup {<<r.slug, r.kind, r.name>>}
    /\ late' = [g \in Handlers |->
                  {c \in Clients :
                     /\ req[g].step \in {"dependents", "drop"}
                     /\ c \in late[g] \/ (r.kind = "clients" /\ c = r.name)}]
    /\ IF r.get
       THEN /\ Resume(h, [step |-> "stuck", slug |-> r.slug])
            /\ UNCHANGED lock
       ELSE /\ Resume(h, Idle)
            /\ lock' = None
    /\ UNCHANGED <<dir, tenant>>

-----------------------------------------------------------------------------
(* service.DeleteScope: two reads and a write, each with a lock of its own  *)

UsedBy(s, k, n) == {m \in Named(k) : yaml[s][k][m] # NoItem /\ n \in yaml[s][k][m]}

\* Mutant: clients.yaml is read without the lock.
ScopeClientsUnlocked(h, s, n) ==
    /\ req[h] = Idle
    /\ UsedBy(s, "clients", n) = {}
    /\ Resume(h, [step |-> "dependents", slug |-> s, name |-> n])
    /\ late' = [late EXCEPT ![h] = {}]
    /\ UNCHANGED <<dir, tenant, yaml, lock, kept>>

ScopeClients(h, s, n) ==
    /\ req[h] = Idle
    /\ lock = None
    /\ UsedBy(s, "clients", n) = {}
    /\ Resume(h, [step |-> "dependents", slug |-> s, name |-> n])
    /\ late' = [late EXCEPT ![h] = {}]
    /\ UNCHANGED <<dir, tenant, yaml, lock, kept>>

ScopeDependents(h) ==
    LET r == req[h] IN
    /\ r.step = "dependents"
    /\ lock = None
    /\ Resume(h, IF UsedBy(r.slug, "scopes", r.name) = {}
                 THEN [r EXCEPT !.step = "drop"] ELSE Idle)
    /\ UNCHANGED <<dir, tenant, yaml, lock, kept, late>>

\* scopeRepo.Delete.
ScopeDrop(h) ==
    LET r == req[h] IN
    /\ r.step = "drop"
    /\ lock = None
    /\ IF yaml[r.slug]["scopes"][r.name] = NoItem
       THEN /\ Resume(h, Idle)
            /\ UNCHANGED <<dir, tenant, yaml, lock, kept, late>>
       ELSE /\ Rewriting(h, r.slug, "scopes", r.name, NoItem, FALSE)
            /\ kept' = kept \ {<<r.slug, "scopes", r.name>>}

-----------------------------------------------------------------------------
(* Tenants                                                                  *)

\* tenantRepo.Create: the directory, then the file.
CreateTenant(h, s) ==
    /\ req[h] = Idle
    /\ lock = None
    /\ ~dir[s]
    /\ dir' = [dir EXCEPT ![s] = TRUE]
    /\ lock' = h
    /\ Resume(h, [step |-> "open", slug |-> s, was |-> "ok"])
    /\ UNCHANGED <<tenant, yaml, kept, late>>

\* Mutant: the file is not looked for.
ReadTenantAnyway(h, s) ==
    /\ req[h] = Idle
    /\ lock = None
    /\ Resume(h, [step |-> "update", slug |-> s, was |-> tenant[s]])
    /\ UNCHANGED <<dir, tenant, yaml, lock, kept, late>>

\* UpdateSettings and the services' updates write back the tenant they read
\* before: an empty file gives a tenant without id, and so it stays.
ReadTenant(h, s) ==
    /\ req[h] = Idle
    /\ lock = None
    /\ tenant[s] # "missing"
    /\ Resume(h, [step |-> "update", slug |-> s, was |-> tenant[s]])
    /\ UNCHANGED <<dir, tenant, yaml, lock, kept, late>>

\* tenantRepo.Update.
UpdateTenant(h) ==
    LET r == req[h] IN
    /\ r.step = "update"
    /\ lock = None
    /\ IF tenant[r.slug] = "missing"
       THEN Resume(h, Idle) /\ UNCHANGED lock
       ELSE Resume(h, [r EXCEPT !.step = "open"]) /\ lock' = h
    /\ UNCHANGED <<dir, tenant, yaml, kept, late>>

OpenTenant(h) ==
    LET r == req[h] IN
    /\ r.step = "open"
    /\ tenant' = [tenant EXCEPT ![r.slug] = "blank"]
    /\ Resume(h, [r EXCEPT !.step = "write"])
    /\ UNCHANGED <<dir, yaml, lock, kept, late>>

WriteTenant(h) ==
    LET r == req[h] IN
    /\ r.step = "write"
    /\ tenant' = [tenant EXCEPT ![r.slug] = r.was]
    /\ Resume(h, Idle)
    /\ lock' = None
    /\ UNCHANGED <<dir, yaml, kept, late>>

\* tenantRepo.Delete: os.RemoveAll takes the files one by one, in the order
\* of the directory.
DeleteTenant(h, s) ==
    /\ req[h] = Idle
    /\ lock = None
    /\ dir[s]
    /\ lock' = h
    /\ Resume(h, [step |-> "remove", slug |-> s])
    /\ kept' = kept \ ({s} \X Kinds \X Names)
    /\ UNCHANGED <<dir, tenant, yaml, late>>

RemoveFile(h) ==
    LET s == req[h].slug IN
    /\ req[h].step = "remove"
    /\ \/ /\ tenant[s] # "missing"
          /\ tenant' = [tenant EXCEPT ![s] = "missing"]
          /\ UNCHANGED yaml
       \/ \E k \in Kinds :
             /\ yaml[s][k] # Empty
             /\ yaml' = [yaml EXCEPT ![s][k] = Empty]
             /\ UNCHANGED tenant
    /\ UNCHANGED <<dir, lock, req, kept, late>>

RemoveDir(h) ==
    LET s == req[h].slug IN
    /\ req[h].step = "remove"
    /\ tenant[s] = "missing"
    /\ yaml[s] = NoFiles
    /\ dir' = [dir EXCEPT ![s] = FALSE]
    /\ Resume(h, Idle)
    /\ lock' = None
    /\ UNCHANGED <<tenant, yaml, kept, late>>

-----------------------------------------------------------------------------
(* Failures                                                                 *)

\* The items of a file that a failed write leaves empty.
Lost(h) == IF req[h].step = "fill"
           THEN {req[h].slug} \X {req[h].kind} \X Names ELSE {}

\* Opening, writing or removing a file fails: the error is returned, and
\* what was done so far stays.
Fails(h) ==
    /\ Faults
    /\ req[h].step \in {"truncate", "fill", "open", "write", "remove"}
    /\ kept' = kept \ Lost(h)
    /\ Resume(h, Idle)
    /\ lock' = None
    /\ UNCHANGED <<dir, tenant, yaml, late>>

\* The process dies and starts again: the files are as they were.
Restart ==
    /\ Faults
    /\ kept' = kept \ UNION {Lost(h) : h \in Handlers}
    /\ req' = [h \in Handlers |-> Idle]
    /\ lock' = None
    /\ UNCHANGED <<dir, tenant, yaml, late>>

Step(h) ==
    \/ \E s \in Slugs :
          \/ \E k \in Kinds : \E n \in Named(k) :
                \/ \E item \in Items :
                      \/ CreateItem(h, s, k, n, item)
                      \/ UpdateItem(h, s, k, n, item)
                \/ DeleteItem(h, s, k, n)
          \/ \E n \in Scopes : ScopeClients(h, s, n)
          \/ CreateTenant(h, s)
          \/ ReadTenant(h, s)
          \/ DeleteTenant(h, s)
    \/ Truncate(h)
    \/ Fill(h)
    \/ ScopeDependents(h)
    \/ ScopeDrop(h)
    \/ UpdateTenant(h)
    \/ OpenTenant(h)
    \/ WriteTenant(h)
    \/ RemoveFile(h)
    \/ RemoveDir(h)
    \/ Fails(h)

Next == Restart \/ \E h \in Handlers : Step(h)

Spec == Init /\ [][Next]_vars

-----------------------------------------------------------------------------
(* Properties                                                               *)

\* An item whose creation was answered is in its file, whatever other
\* requests write there, until it is deleted, or a crash or an error hits
\* the file while it is truncated.  (While it is, its content is in the
\* hands of the request that truncated it.)
AnsweredKept ==
    \A s \in Slugs, k \in Kinds, n \in Names : <<s, k, n>> \in kept =>
        \/ yaml[s][k][n] # NoItem
        \/ \E h \in Handlers : /\ req[h].step = "fill"
                               /\ req[h].slug = s /\ req[h].kind = k
                               /\ req[h].new[n] # NoItem

\* DeleteScope removes a scope that a client uses only if that client was
\* written while the deletion was being served.
ScopeInUseKept ==
    [][\A h \in Handlers :
          (req[h].step = "drop" /\ req'[h].step = "truncate")
          => UsedBy(req[h].slug, "clients", req[h].name) \subseteq late[h]]_vars

\* What the holder of the lock has in its hands; while a file is truncated it
\* counts as having what is about to be written.
Holds(step) == lock # None /\ req[lock].step = step

Contents(s, k) ==
    IF Holds("fill") /\ req[lock].slug = s /\ req[lock].kind = k
    THEN req[lock].new ELSE yaml[s][k]

Store == INSTANCE ItemStore WITH
            tenants <- {s \in Slugs : dir[s]},
            files   <- [s \in Slugs |-> [k \in Kinds |-> Contents(s, k)]],
            busy    <- CASE Holds("fill")   -> {<<req[lock].slug, req[lock].kind>>}
                         [] Holds("remove") -> {req[lock].slug} \X Kinds
                         [] OTHER           -> {}

\* A write takes effect in the one step that truncates its file, on what the
\* file has then, and changes nothing but its item: for requests that overlap,
\* crashes and errors included.
WritesAreAtomic == Store!Spec

-----------------------------------------------------------------------------
(* What the code does not promise: TLC refutes each of these, in a run or   *)
(* with the constants the README names.                                     *)

\* No request waits for a lock that it holds itself.
NoSelfWait == \A h \in Handlers : req[h].step # "stuck"

\* While nobody writes, a directory belongs to a tenant that can be found: a
\* slug that has none can be given to a new tenant.
SlugIsUsable == lock = None => \A s \in Slugs : dir[s] => tenant[s] = "ok"
=============================================================================
