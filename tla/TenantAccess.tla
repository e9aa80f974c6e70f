---------------------------- MODULE TenantAccess ----------------------------
(***************************************************************************)
(* How a request gets at the data of its tenant: the Manager's cache of    *)
(* TenantDataAccess objects (TDA), the Factory that builds one from the    *)
(* tenant's file, and the ConnectionPool with its singleflight, against    *)
(* the admin operations that create, reconfigure and delete tenants.       *)
(*                                                                         *)
(* A tenant's file is read and written under the FS connection's lock, so  *)
(* each read and each write is one step; everything between them           *)
(* interleaves.  The settings are three parts, which the code treats       *)
(* differently when they change: the user database, the custom user        *)
(* fields, and the rest.  Equal settings have equal ETags.                 *)
(*                                                                         *)
(* Bounds: IDs is how many tenants are ever created, Conns how many        *)
(* connections are ever opened.                                            *)
(***************************************************************************)
EXTENDS Naturals, FiniteSets

CONSTANTS
    Slugs, IDs,    \* slugs, and the UUIDs given to tenants
    DSNs,          \* databases
    Fields,        \* definitions of custom user fields
    Rest,          \* the rest of the settings
    Conns,         \* connection pools (pgxpool) opened to the databases
    Handlers,      \* requests being served
    Operations,    \* admin operations in use: "settings", "put", "import", "delete"
    ByID,          \* TRUE when requests may name a tenant by its id
    NoFields,      \* no custom user fields
    NoTenant, NoDB, NoConn, NoTDA, None

Keys     == Slugs \cup IDs
Settings == [db: DSNs \cup {NoDB}, fields: Fields, rest: Rest]
Tenant   == [id: IDs, conf: Settings]
TDA      == [slug: Slugs, id: IDs, conf: Settings, conn: Conns \cup {NoConn}]

ASSUME ConstantsAssumption ==
    /\ Slugs \cap IDs = {}
    /\ Operations \subseteq {"settings", "put", "import", "delete"}
    /\ ByID \in BOOLEAN
    /\ NoFields \in Fields
    /\ NoDB \notin DSNs /\ NoConn \notin Conns /\ None \notin Handlers
    /\ NoTenant \notin Tenant /\ NoTDA \notin TDA

VARIABLES
    tenant,    \* tenant.yaml of each slug
    cache,     \* Manager.tenants, by slug and by id
    pool,      \* ConnectionPool.connections, by slug
    flight,    \* the singleflight call for each slug: who makes it
    conn,      \* every connection: its tenant's slug, its DSN, open or not
    req,       \* what each request is doing
    issued     \* ids given out so far

vars == <<tenant, cache, pool, flight, conn, req, issued>>

\* A TDA on its way to the pool: it has a database and no connection yet.
Dialled == {t \in TDA : t.conf.db # NoDB /\ t.conn = NoConn}

Unused == [slug |-> NoTenant, db |-> NoDB, open |-> FALSE]
Conn   == [slug: Slugs \cup {NoTenant}, db: DSNs \cup {NoDB}, open: BOOLEAN]

\* Why a connection is wanted: to serve a request, or to bootstrap a
\* database, which is a ForTenant and then a MigrateTenant.
Jobs == {"serve", "bootstrap", "migrate"}
Idle == [step |-> "idle"]

Request ==
    {Idle}
    \cup [step: {"lookup"}, slug: Slugs]
    \cup [step: {"resolve"}, key: Keys, job: Jobs]
    \cup [step: {"pool", "dial", "wait"}, tda: Dialled, job: Jobs]
    \cup [step: {"landed", "store", "use"}, tda: TDA, job: Jobs]
    \cup [step: {"import"}, slug: Slugs, id: IDs]
    \cup [step: {"read"}, slug: Slugs, by: {"settings", "import"}, seen: Settings,
          conf: Settings, tell: {"none", "refresh", "bootstrap"}]
    \cup [step: {"write"}, slug: Slugs, by: {"settings", "import", "put"},
          seen: Settings, new: Tenant, tell: {"none", "refresh", "bootstrap"}]
    \cup [step: {"refresh", "close", "bootstrap"}, slug: Slugs]
    \cup [step: {"closing"}, slug: Slugs, conn: Conns]

TypeOK ==
    /\ tenant \in [Slugs -> Tenant \cup {NoTenant}]
    /\ cache \in [Keys -> TDA \cup {NoTDA}]
    /\ pool \in [Slugs -> Conns \cup {NoConn}]
    /\ flight \in [Slugs -> Handlers \cup {None}]
    /\ conn \in [Conns -> Conn]
    /\ req \in [Handlers -> Request]
    /\ issued \subseteq IDs

Init ==
    /\ tenant = [s \in Slugs |-> NoTenant]
    /\ cache = [k \in Keys |-> NoTDA]
    /\ pool = [s \in Slugs |-> NoConn]
    /\ flight = [s \in Slugs |-> None]
    /\ conn = [c \in Conns |-> Unused]
    /\ req = [h \in Handlers |-> Idle]
    /\ issued = {}

Resume(h, r) == req' = [req EXCEPT ![h] = r]

-----------------------------------------------------------------------------
(* Manager.ForTenant                                                        *)

\* ForTenant has answered: the request is served, or the bootstrap, which
\* gives up without a connection, goes on to the migrations.
Accessed(t, job) ==
    IF job = "serve" THEN [step |-> "use", tda |-> t, job |-> job]
    ELSE IF t.conn = NoConn THEN Idle
    ELSE [step |-> "resolve", key |-> t.slug, job |-> "migrate"]

\* The cache answers, or else the factory is asked.
ForTenant(h, key, job) ==
    Resume(h, IF cache[key] # NoTDA
              THEN Accessed(cache[key], job)
              ELSE [step |-> "resolve", key |-> key, job |-> job])

Serve(h, key) ==
    /\ req[h] = Idle
    /\ key \in IDs => ByID
    /\ ForTenant(h, key, "serve")
    /\ UNCHANGED <<tenant, cache, pool, flight, conn, issued>>

Lookup(h) ==
    /\ req[h].step = "lookup"
    /\ ForTenant(h, req[h].slug, "bootstrap")
    /\ UNCHANGED <<tenant, cache, pool, flight, conn, issued>>

\* resolveTenant: by slug, then by id.  A tenant without a database skips the
\* pool, and MigrateTenant fails for it.
Resolve(h) ==
    LET job   == req[h].job
        named == {s \in Slugs : tenant[s] # NoTenant
                                /\ req[h].key \in {s, tenant[s].id}}
    IN
    /\ req[h].step = "resolve"
    /\ \/ named = {} /\ Resume(h, Idle)
       \/ \E s \in named :
             LET tda == [slug |-> s, id |-> tenant[s].id, conf |-> tenant[s].conf,
                         conn |-> NoConn]
             IN Resume(h, IF tda.conf.db # NoDB
                          THEN [step |-> "pool", tda |-> tda, job |-> job]
                          ELSE IF job = "migrate" THEN Idle
                          ELSE [step |-> "store", tda |-> tda, job |-> job])
    /\ UNCHANGED <<tenant, cache, pool, flight, conn, issued>>

\* getDataConnection has answered with connection c or none: ForTenant goes
\* on to the cache, MigrateTenant to the migrations unless there is none.
Connected(r, c) ==
    LET t == [r.tda EXCEPT !.conn = c] IN
    IF r.job # "migrate" THEN [step |-> "store", tda |-> t, job |-> r.job]
    ELSE IF c = NoConn THEN Idle
    ELSE [step |-> "use", tda |-> t, job |-> r.job]

\* Mutant: the pool without singleflight.
PoolGetNoFlight(h) ==
    LET s == req[h].tda.slug IN
    /\ req[h].step = "pool"
    /\ Resume(h, IF pool[s] # NoConn
                 THEN Connected(req[h], pool[s])
                 ELSE [req[h] EXCEPT !.step = "dial"])
    /\ UNCHANGED <<tenant, cache, pool, flight, conn, issued>>

\* ConnectionPool.Get: an existing connection whatever its DSN, else one
\* request dials for all that ask meanwhile.
PoolGet(h) ==
    LET s == req[h].tda.slug IN
    /\ req[h].step = "pool"
    /\ \/ /\ pool[s] # NoConn
          /\ Resume(h, Connected(req[h], pool[s]))
          /\ UNCHANGED flight
       \/ /\ pool[s] = NoConn
          /\ flight[s] = None
          /\ flight' = [flight EXCEPT ![s] = h]
          /\ Resume(h, [req[h] EXCEPT !.step = "dial"])
       \/ /\ pool[s] = NoConn
          /\ flight[s] # None
          /\ Resume(h, [req[h] EXCEPT !.step = "wait"])
          /\ UNCHANGED flight
    /\ UNCHANGED <<tenant, cache, pool, conn, issued>>

\* The dialled connection is in the pool; the singleflight call still stands.
Dial(h) ==
    LET t == req[h].tda IN
    /\ req[h].step = "dial"
    /\ \E c \in Conns :
          /\ conn[c] = Unused
          /\ conn' = [conn EXCEPT ![c] = [slug |-> t.slug, db |-> t.conf.db,
                                          open |-> TRUE]]
          /\ pool' = [pool EXCEPT ![t.slug] = c]
          /\ Resume(h, [step |-> "landed", tda |-> [t EXCEPT !.conn = c],
                        job |-> req[h].job])
    /\ UNCHANGED <<tenant, cache, flight, issued>>

\* Who gets the answer of a dial: the one that makes it and those who wait.
Joined(h) ==
    {h} \cup {w \in Handlers : req[w].step = "wait" /\ req[w].tda.slug = req[h].tda.slug}

\* The singleflight call ends with c for everybody in hs.
Answer(h, hs, c) ==
    /\ flight' = [flight EXCEPT ![req[h].tda.slug] = None]
    /\ req' = [w \in Handlers |-> IF w \in hs THEN Connected(req[w], c) ELSE req[w]]

Land(h) ==
    /\ req[h].step = "landed"
    /\ Answer(h, Joined(h), req[h].tda.conn)
    /\ UNCHANGED <<tenant, cache, pool, conn, issued>>

\* Mutant: the error reaches only the request that dialled.
DialFailsAlone(h) ==
    /\ req[h].step = "dial"
    /\ Answer(h, {h}, NoConn)
    /\ UNCHANGED <<tenant, cache, pool, conn, issued>>

\* The database cannot be reached: getDataConnection goes on without one.
DialFails(h) ==
    /\ req[h].step = "dial"
    /\ Answer(h, Joined(h), NoConn)
    /\ UNCHANGED <<tenant, cache, pool, conn, issued>>

\* A TDA that has its connection, or needs none, is cached under both names.
Store(h) ==
    LET t == req[h].tda IN
    /\ req[h].step = "store"
    /\ cache' = IF t.conn # NoConn \/ t.conf.db = NoDB
                THEN [cache EXCEPT ![t.slug] = t, ![t.id] = t]
                ELSE cache
    /\ Resume(h, Accessed(t, req[h].job))
    /\ UNCHANGED <<tenant, pool, flight, conn, issued>>

\* The handler works with the TDA's repositories, or migrates, and answers.
Use(h) ==
    /\ req[h].step = "use"
    /\ Resume(h, Idle)
    /\ UNCHANGED <<tenant, cache, pool, flight, conn, issued>>

-----------------------------------------------------------------------------
(* tenantsService                                                           *)

\* Create, which bootstraps the database when the tenant comes with one.
Create(h, s, id, conf) ==
    /\ req[h] = Idle
    /\ tenant[s] = NoTenant
    /\ id \notin issued
    /\ issued' = issued \cup {id}
    /\ tenant' = [tenant EXCEPT ![s] = [id |-> id, conf |-> conf]]
    /\ Resume(h, IF conf.db = NoDB THEN Idle ELSE [step |-> "lookup", slug |-> s])
    /\ UNCHANGED <<cache, pool, flight, conn>>

\* Mutant: changed user fields are nothing to tell the manager.
NoticeNoFields(old, new, dbChanged) ==
    IF dbChanged /\ old.db # NoDB THEN "refresh"
    ELSE IF new.db # NoDB /\ dbChanged THEN "bootstrap"
    ELSE "none"

\* Mutant: a changed database is bootstrapped over the old connection.
NoticeNoRefresh(old, new, dbChanged) ==
    IF new.db # NoDB /\ (dbChanged \/ new.fields # old.fields)
    THEN "bootstrap"
    ELSE "none"

\* What the manager will be told: to refresh the connection, and then to
\* bootstrap, if there was a database and it changed; to bootstrap only, if
\* it is new or its user fields changed; otherwise nothing.
Notice(old, new, dbChanged) ==
    IF dbChanged /\ old.db # NoDB THEN "refresh"
    ELSE IF new.db # NoDB /\ (dbChanged \/ new.fields # old.fields) THEN "bootstrap"
    ELSE "none"

\* UpdateSettings up to its check of the ETag, which is that of the settings
\* read here.  A request cannot remove a database, and sending a DSN counts
\* as a change even if it is the same one.
UpdateSettings(h, s, new, resent) ==
    LET old == tenant[s].conf IN
    /\ "settings" \in Operations
    /\ req[h] = Idle
    /\ tenant[s] # NoTenant
    /\ new.db = NoDB => old.db = NoDB /\ ~resent
    /\ Resume(h, [step |-> "read", slug |-> s, by |-> "settings", seen |-> old,
                  conf |-> new, tell |-> Notice(old, new, resent \/ new.db # old.db)])
    /\ UNCHANGED <<tenant, cache, pool, flight, conn, issued>>

\* Update: the whole tenant as read here, its settings replaced if the body
\* has any, with no ETag and no word to the manager.
Update(h, s, new) ==
    /\ "put" \in Operations
    /\ req[h] = Idle
    /\ tenant[s] # NoTenant
    /\ Resume(h, [step |-> "write", slug |-> s, by |-> "put", seen |-> tenant[s].conf,
                  new |-> [tenant[s] EXCEPT !.conf = new], tell |-> "none"])
    /\ UNCHANGED <<tenant, cache, pool, flight, conn, issued>>

\* ImportConfig, which has found its tenant ...
Import(h, s) ==
    /\ "import" \in Operations
    /\ req[h] = Idle
    /\ tenant[s] # NoTenant
    /\ Resume(h, [step |-> "import", slug |-> s, id |-> tenant[s].id])
    /\ UNCHANGED <<tenant, cache, pool, flight, conn, issued>>

\* ... merges the imported settings, the database and the user fields not
\* among them, into those of the tenant with its id, whose slug never
\* changes, or into empty ones.
ImportSettings(h, rest) ==
    LET r   == req[h]
        old == IF tenant[r.slug] # NoTenant /\ tenant[r.slug].id = r.id
               THEN tenant[r.slug].conf
               ELSE [db |-> NoDB, fields |-> NoFields, rest |-> rest]
    IN
    /\ r.step = "import"
    /\ Resume(h, [step |-> "read", slug |-> r.slug, by |-> "import", seen |-> old,
                  conf |-> [old EXCEPT !.rest = rest], tell |-> "none"])
    /\ UNCHANGED <<tenant, cache, pool, flight, conn, issued>>

\* tenantRepo.UpdateSettings reads whatever tenant the slug names by now ...
Read(h) ==
    LET r == req[h] IN
    /\ r.step = "read"
    /\ Resume(h, IF tenant[r.slug] = NoTenant THEN Idle
                 ELSE [step |-> "write", slug |-> r.slug, by |-> r.by, seen |-> r.seen,
                       new |-> [tenant[r.slug] EXCEPT !.conf = r.conf], tell |-> r.tell])
    /\ UNCHANGED <<tenant, cache, pool, flight, conn, issued>>

\* ... and tenantRepo.Update writes it if the slug still has one.
Write(h) ==
    LET r == req[h] IN
    /\ r.step = "write"
    /\ \/ /\ tenant[r.slug] = NoTenant
          /\ Resume(h, Idle)
          /\ UNCHANGED tenant
       \/ /\ tenant[r.slug] # NoTenant
          /\ tenant' = [tenant EXCEPT ![r.slug] = r.new]
          /\ Resume(h, IF r.tell = "none" THEN Idle
                       ELSE [step |-> r.tell, slug |-> r.slug])
    /\ UNCHANGED <<cache, pool, flight, conn, issued>>

\* RefreshTenant: the entry of the slug, then the pool's connection.
Refresh(h) ==
    /\ req[h].step = "refresh"
    /\ cache' = [cache EXCEPT ![req[h].slug] = NoTDA]
    /\ Resume(h, [req[h] EXCEPT !.step = "close"])
    /\ UNCHANGED <<tenant, pool, flight, conn, issued>>

\* Mutant: the pool's entry is closed without looking whether there is one.
PoolCloseBlind(h) ==
    LET s == req[h].slug IN
    /\ req[h].step = "close"
    /\ pool' = [pool EXCEPT ![s] = NoConn]
    /\ Resume(h, [step |-> "closing", slug |-> s, conn |-> pool[s]])
    /\ UNCHANGED <<tenant, cache, flight, conn, issued>>

PoolClose(h) ==
    LET s == req[h].slug IN
    /\ req[h].step = "close"
    /\ pool' = [pool EXCEPT ![s] = NoConn]
    /\ Resume(h, IF pool[s] = NoConn
                 THEN [step |-> "bootstrap", slug |-> s]
                 ELSE [step |-> "closing", slug |-> s, conn |-> pool[s]])
    /\ UNCHANGED <<tenant, cache, flight, conn, issued>>

ConnClose(h) ==
    LET r == req[h] IN
    /\ r.step = "closing"
    /\ conn' = [conn EXCEPT ![r.conn].open = FALSE]
    /\ Resume(h, [step |-> "bootstrap", slug |-> r.slug])
    /\ UNCHANGED <<tenant, cache, pool, flight, issued>>

\* ClearTenant, and then BootstrapTenantDB.
Bootstrap(h) ==
    /\ req[h].step = "bootstrap"
    /\ cache' = [cache EXCEPT ![req[h].slug] = NoTDA]
    /\ Resume(h, [step |-> "lookup", slug |-> req[h].slug])
    /\ UNCHANGED <<tenant, pool, flight, conn, issued>>

\* Delete removes the tenant's directory and nothing else.
Delete(h, s) ==
    /\ "delete" \in Operations
    /\ req[h] = Idle
    /\ tenant[s] # NoTenant
    /\ tenant' = [tenant EXCEPT ![s] = NoTenant]
    /\ UNCHANGED <<cache, pool, flight, conn, req, issued>>

-----------------------------------------------------------------------------
\* The steps of a request that has begun.
Continue(h) ==
    \/ Lookup(h)
    \/ Resolve(h)
    \/ PoolGet(h)
    \/ Dial(h)
    \/ DialFails(h)
    \/ Land(h)
    \/ Store(h)
    \/ Use(h)
    \/ \E rest \in Rest : ImportSettings(h, rest)
    \/ Read(h)
    \/ Write(h)
    \/ Refresh(h)
    \/ PoolClose(h)
    \/ ConnClose(h)
    \/ Bootstrap(h)

Begin(h) ==
    \/ \E k \in Keys : Serve(h, k)
    \/ \E s \in Slugs :
          \/ \E id \in IDs, conf \in Settings : Create(h, s, id, conf)
          \/ \E conf \in Settings, resent \in BOOLEAN : UpdateSettings(h, s, conf, resent)
          \/ \E conf \in Settings : Update(h, s, conf)
          \/ Import(h, s)
          \/ Delete(h, s)

Next == \E h \in Handlers : Begin(h) \/ Continue(h)

Spec == Init /\ [][Next]_vars

\* A goroutine that serves a request is scheduled until it has answered.
FairSpec == Spec /\ \A h \in Handlers : WF_vars(Continue(h))

-----------------------------------------------------------------------------
(* Properties                                                               *)

\* Nobody is between a change of settings and telling the manager about it.
Settled(s) ==
    \A h \in Handlers :
        req[h].step \in {"read", "write", "refresh", "close", "closing", "bootstrap"}
        => req[h].slug # s

\* Every open connection is in the pool, or is being closed by somebody:
\* neither parallel first requests nor a refresh leak one.
NoConnLeaks ==
    \A c \in Conns : conn[c].open =>
        \/ pool[conn[c].slug] = c
        \/ \E h \in Handlers : req[h].step = "closing" /\ req[h].conn = c

\* Once a change of settings is done, requests by slug get the database that
\* is in the file, and with a database its user fields: UpdateSettings tells
\* the manager of each change of either, whichever way the dials went.
SlugEntryCurrent ==
    \A s \in Slugs : tenant[s] # NoTenant /\ cache[s] # NoTDA /\ Settled(s)
        => /\ cache[s].conf.db = tenant[s].conf.db
           /\ tenant[s].conf.db # NoDB => cache[s].conf.fields = tenant[s].conf.fields

\* ... and they get it over a connection, which is open and to that database:
\* a failed dial is tried again, a refresh leaves no closed connection and a
\* bootstrap no old one.
SlugEntryUsable ==
    \A s \in Slugs : cache[s] # NoTDA /\ cache[s].conf.db # NoDB /\ Settled(s)
        => /\ cache[s].conn # NoConn
           /\ conn[cache[s].conn] = [slug |-> s, db |-> cache[s].conf.db, open |-> TRUE]

\* Every request is answered: nobody waits for ever for another's dial.
Answered == \A h \in Handlers : req[h] # Idle ~> req[h] = Idle

-----------------------------------------------------------------------------
(* What the code does not promise: TLC refutes each of these, in a run or   *)
(* with the constants the README names.                                     *)

\* Once a change of settings is done, requests by slug get all the settings
\* that are in the file: nobody tells the manager about the rest of them.
SettingsCurrent ==
    \A s \in Slugs : tenant[s] # NoTenant /\ cache[s] # NoTDA /\ Settled(s)
                     => cache[s].conf = tenant[s].conf

\* A settings change leaves no closed connection in the entry of the id.
IDEntryUsable ==
    \A i \in IDs : cache[i] # NoTDA /\ cache[i].conn # NoConn /\ Settled(cache[i].slug)
                   => conn[cache[i].conn].open

\* A tenant's requests are served with its own settings and database, not
\* with those of a deleted tenant that had its slug.
OwnData ==
    \A s \in Slugs : tenant[s] # NoTenant /\ cache[s] # NoTDA
                     => cache[s].id = tenant[s].id

\* An update whose ETag was accepted replaces the settings of that ETag.
ReplacesWhatItSaw ==
    [][\A h \in Handlers :
          req[h].step = "write" /\ req[h].by = "settings" /\ tenant' # tenant
          /\ req'[h] # req[h]
          => tenant[req[h].slug].conf = req[h].seen]_vars
=============================================================================
