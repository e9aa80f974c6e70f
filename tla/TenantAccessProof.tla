-------------------------- MODULE TenantAccessProof --------------------------
(***************************************************************************)
(* Invariants of TenantAccess, proved for every set of tenants, databases, *)
(* connections and requests.                                               *)
(***************************************************************************)
EXTENDS TenantAccess, TLAPS

-----------------------------------------------------------------------------
(* Types                                                                    *)

Callers  == {"pool", "dial", "wait"}
Carriers == Callers \cup {"landed", "store", "use"}
Notices  == {"none", "refresh", "bootstrap"}

\* A request's fields, by its step.
Shaped(r) ==
    /\ r.step = "lookup" => r.slug \in Slugs
    /\ r.step = "resolve" => r.key \in Keys /\ r.job \in Jobs
    /\ r.step \in Carriers => r.tda \in TDA /\ r.job \in Jobs
    /\ r.step \in Callers =>
         /\ r.tda \in Dialled
         /\ \A st \in Callers :
               [r EXCEPT !.step = st] = [step |-> st, tda |-> r.tda, job |-> r.job]
    /\ r.step = "import" => r.slug \in Slugs /\ r.id \in IDs
    /\ r.step = "read" =>
         /\ r.slug \in Slugs /\ r.by \in {"settings", "import"}
         /\ r.seen \in Settings /\ r.conf \in Settings /\ r.tell \in Notices
    /\ r.step = "write" =>
         /\ r.slug \in Slugs /\ r.by \in {"settings", "import", "put"}
         /\ r.seen \in Settings /\ r.new \in Tenant /\ r.tell \in Notices
    /\ r.step \in {"refresh", "close", "bootstrap"} =>
         /\ r.slug \in Slugs
         /\ [r EXCEPT !.step = "close"] = [step |-> "close", slug |-> r.slug]
    /\ r.step = "closing" => r.slug \in Slugs /\ r.conn \in Conns

LEMMA Shapes ==
    ASSUME NEW r \in Request
    PROVE  Shaped(r)
  <1>1. CASE r = Idle \/ r \in [step: {"lookup"}, slug: Slugs]
              \/ r \in [step: {"resolve"}, key: Keys, job: Jobs]
              \/ r \in [step: {"import"}, slug: Slugs, id: IDs]
    BY <1>1 DEF Idle, Shaped, Carriers, Callers
  <1>2. CASE r \in [step: {"pool", "dial", "wait"}, tda: Dialled, job: Jobs]
    BY <1>2 DEF Shaped, Carriers, Callers, Dialled
  <1>3. CASE r \in [step: {"landed", "store", "use"}, tda: TDA, job: Jobs]
    BY <1>3 DEF Shaped, Carriers, Callers
  <1>4. CASE r \in [step: {"read"}, slug: Slugs, by: {"settings", "import"},
                    seen: Settings, conf: Settings, tell: {"none", "refresh", "bootstrap"}]
    BY <1>4 DEF Shaped, Carriers, Callers, Notices
  <1>5. CASE r \in [step: {"write"}, slug: Slugs, by: {"settings", "import", "put"},
                    seen: Settings, new: Tenant, tell: {"none", "refresh", "bootstrap"}]
    BY <1>5 DEF Shaped, Carriers, Callers, Notices
  <1>6. CASE r \in [step: {"refresh", "close", "bootstrap"}, slug: Slugs]
    BY <1>6 DEF Shaped, Carriers, Callers
  <1>7. CASE r \in [step: {"closing"}, slug: Slugs, conn: Conns]
    BY <1>7 DEF Shaped, Carriers, Callers
  <1>8. QED
    BY <1>1, <1>2, <1>3, <1>4, <1>5, <1>6, <1>7 DEF Request

LEMMA ShapedReq ==
    ASSUME TypeOK, NEW h \in Handlers
    PROVE  req[h] \in Request /\ Shaped(req[h])
  BY Shapes DEF TypeOK

LEMMA Requests ==
    /\ Idle \in Request
    /\ \A s \in Slugs : [step |-> "lookup", slug |-> s] \in Request
    /\ \A k \in Keys, j \in Jobs : [step |-> "resolve", key |-> k, job |-> j] \in Request
    /\ \A st \in Callers, t \in Dialled, j \in Jobs :
          [step |-> st, tda |-> t, job |-> j] \in Request
    /\ \A st \in {"landed", "store", "use"}, t \in TDA, j \in Jobs :
          [step |-> st, tda |-> t, job |-> j] \in Request
    /\ \A s \in Slugs, i \in IDs : [step |-> "import", slug |-> s, id |-> i] \in Request
    /\ \A s \in Slugs, b \in {"settings", "import"}, o, n \in Settings, m \in Notices :
          [step |-> "read", slug |-> s, by |-> b, seen |-> o, conf |-> n, tell |-> m]
             \in Request
    /\ \A s \in Slugs, b \in {"settings", "import", "put"}, o \in Settings,
          t \in Tenant, m \in Notices :
          [step |-> "write", slug |-> s, by |-> b, seen |-> o, new |-> t, tell |-> m]
             \in Request
    /\ \A st \in {"refresh", "close", "bootstrap"}, s \in Slugs :
          [step |-> st, slug |-> s] \in Request
    /\ \A s \in Slugs, c \in Conns : [step |-> "closing", slug |-> s, conn |-> c] \in Request
  BY DEF Request, Callers, Notices

\* What ForTenant and getDataConnection lead to.
LEMMA AccessedType ==
    ASSUME NEW t \in TDA, NEW j \in Jobs
    PROVE  /\ Accessed(t, j) \in Request
           /\ Accessed(t, j).step \in {"use", "idle", "resolve"}
  <1>1. t.slug \in Keys /\ "migrate" \in Jobs
    BY DEF TDA, Keys, Jobs
  <1>2. CASE j = "serve"
    BY <1>2, Requests DEF Accessed
  <1>3. CASE j # "serve" /\ t.conn = NoConn
    BY <1>3, Requests DEF Accessed, Idle
  <1>4. CASE j # "serve" /\ t.conn # NoConn
    BY <1>1, <1>4, Requests DEF Accessed
  <1>5. QED
    BY <1>2, <1>3, <1>4

LEMMA ConnectedType ==
    ASSUME NEW r, r.tda \in TDA, r.job \in Jobs, NEW c \in Conns \cup {NoConn}
    PROVE  /\ Connected(r, c) \in Request
           /\ Connected(r, c).step \in {"store", "use", "idle"}
           /\ Connected(r, c).step = "store" =>
                Connected(r, c).tda = [r.tda EXCEPT !.conn = c]
  <1>1. [r.tda EXCEPT !.conn = c] \in TDA
    BY DEF TDA
  <1>2. CASE r.job # "migrate"
    BY <1>1, <1>2, Requests DEF Connected
  <1>3. CASE r.job = "migrate" /\ c = NoConn
    BY <1>3, Requests DEF Connected, Idle
  <1>4. CASE r.job = "migrate" /\ c # NoConn
    BY <1>1, <1>4, Requests DEF Connected
  <1>5. QED
    BY <1>2, <1>3, <1>4

\* A request that has gone on to r.
LEMMA ResumeType ==
    ASSUME TypeOK, NEW h \in Handlers, NEW r \in Request, Resume(h, r)
    PROVE  req' \in [Handlers -> Request]
  BY DEF TypeOK, Resume

LEMMA AnswerType ==
    ASSUME TypeOK, NEW h \in Handlers, req[h].step \in Carriers,
           NEW c \in Conns \cup {NoConn}, NEW hs \in SUBSET Joined(h), Answer(h, hs, c)
    PROVE  /\ req' \in [Handlers -> Request]
           /\ flight' \in [Slugs -> Handlers \cup {None}]
  <1>1. ASSUME NEW w \in hs
        PROVE  Connected(req[w], c) \in Request
    <2>1. w \in Handlers /\ req[w].step \in Carriers
      BY DEF Joined, Carriers, Callers
    <2>2. req[w].tda \in TDA /\ req[w].job \in Jobs
      BY <2>1, ShapedReq DEF Shaped
    <2>3. QED
      BY <2>2, ConnectedType
  <1>2. QED
    BY <1>1 DEF TypeOK, Answer

\* Where ForTenant begins.
LEMMA ForTenantType ==
    ASSUME TypeOK, NEW h \in Handlers, NEW k \in Keys, NEW j \in Jobs, ForTenant(h, k, j)
    PROVE  \E r \in Request : Resume(h, r) /\ r.step \in {"use", "idle", "resolve"}
  <1>1. CASE cache[k] = NoTDA
    BY <1>1, Requests DEF ForTenant
  <1>2. CASE cache[k] # NoTDA
    <2>1. cache[k] \in TDA
      BY <1>2 DEF TypeOK
    <2>2. Resume(h, Accessed(cache[k], j))
      BY <1>2 DEF ForTenant
    <2>3. QED
      BY <2>1, <2>2, AccessedType
  <1>3. QED
    BY <1>1, <1>2

LEMMA TenantFields ==
    ASSUME TypeOK, NEW s \in Slugs, tenant[s] # NoTenant
    PROVE  /\ tenant[s] \in Tenant /\ tenant[s].id \in IDs /\ tenant[s].conf \in Settings
           /\ tenant[s].conf.db \in DSNs \cup {NoDB}
           /\ \A n \in Settings : /\ [tenant[s] EXCEPT !.conf = n] \in Tenant
                                  /\ [tenant[s] EXCEPT !.conf = n].conf = n
  BY DEF TypeOK, Tenant, Settings

LEMMA NoticeType ==
    ASSUME NEW o, NEW n, NEW d PROVE Notice(o, n, d) \in Notices
  BY DEF Notice, Notices

LEMMA BeginType ==
    ASSUME TypeOK, NEW h \in Handlers, Begin(h)
    PROVE  TypeOK'
  <1>1. ASSUME NEW k \in Keys, Serve(h, k)
        PROVE  TypeOK'
    <2>1. PICK r \in Request : Resume(h, r)
      BY <1>1, ForTenantType DEF Serve, Jobs
    <2>2. QED
      BY <1>1, <2>1, ResumeType DEF TypeOK, Serve
  <1>2. ASSUME NEW s \in Slugs, NEW id \in IDs, NEW conf \in Settings,
               Create(h, s, id, conf)
        PROVE  TypeOK'
    <2>1. \E r \in Request : Resume(h, r)
      BY <1>2, Requests DEF Create
    <2>2. [id |-> id, conf |-> conf] \in Tenant
      BY DEF Tenant
    <2>3. tenant' \in [Slugs -> Tenant \cup {NoTenant}]
      BY <1>2, <2>2 DEF TypeOK, Create
    <2>4. QED
      BY <1>2, <2>1, <2>3, ResumeType DEF TypeOK, Create
  <1>3. ASSUME NEW s \in Slugs, NEW new \in Settings, NEW resent \in BOOLEAN,
               UpdateSettings(h, s, new, resent)
        PROVE  TypeOK'
    <2> DEFINE old == tenant[s].conf
               m   == Notice(old, new, resent \/ new.db # old.db)
               r   == [step |-> "read", slug |-> s, by |-> "settings", seen |-> old,
                       conf |-> new, tell |-> m]
    <2>1. m \in Notices
      BY NoticeType
    <2>2. old \in Settings
      BY <1>3, TenantFields DEF UpdateSettings
    <2>3. Resume(h, r) /\ UNCHANGED <<tenant, cache, pool, flight, conn, issued>>
      BY <1>3 DEF UpdateSettings
    <2> HIDE DEF m, old
    <2>4. r \in Request
      BY <2>1, <2>2, Requests
    <2> HIDE DEF r
    <2>5. QED
      BY <2>3, <2>4, ResumeType DEF TypeOK
  <1>4. ASSUME NEW s \in Slugs, NEW new \in Settings, Update(h, s, new)
        PROVE  TypeOK'
    <2> DEFINE t == [tenant[s] EXCEPT !.conf = new]
               r == [step |-> "write", slug |-> s, by |-> "put", seen |-> tenant[s].conf,
                     new |-> t, tell |-> "none"]
    <2>1. t \in Tenant /\ tenant[s].conf \in Settings /\ "none" \in Notices
      BY <1>4, TenantFields DEF Update, Notices
    <2>2. Resume(h, r) /\ UNCHANGED <<tenant, cache, pool, flight, conn, issued>>
      BY <1>4 DEF Update
    <2> HIDE DEF t
    <2>3. r \in Request
      BY <2>1, Requests
    <2> HIDE DEF r
    <2>4. QED
      BY <2>2, <2>3, ResumeType DEF TypeOK
  <1>5. ASSUME NEW s \in Slugs, Import(h, s)
        PROVE  TypeOK'
    <2>1. [step |-> "import", slug |-> s, id |-> tenant[s].id] \in Request
      BY <1>5, TenantFields, Requests DEF Import
    <2>2. QED
      BY <1>5, <2>1, ResumeType DEF TypeOK, Import
  <1>6. ASSUME NEW s \in Slugs, Delete(h, s)
        PROVE  TypeOK'
    BY <1>6 DEF TypeOK, Delete
  <1>7. QED
    BY <1>1, <1>2, <1>3, <1>4, <1>5, <1>6 DEF Begin

LEMMA ContinueType ==
    ASSUME TypeOK, NEW h \in Handlers, Continue(h)
    PROVE  TypeOK'
  <1> DEFINE r == req[h]
  <1>0. Shaped(r)
    BY ShapedReq
  <1>1. CASE Lookup(h)
    <2>1. r.slug \in Keys
      BY <1>0, <1>1 DEF Lookup, Shaped, Keys
    <2>2. PICK q \in Request : Resume(h, q)
      BY <1>1, <2>1, ForTenantType DEF Lookup, Jobs
    <2>3. QED
      BY <1>1, <2>2, ResumeType DEF TypeOK, Lookup
  <1>2. CASE Resolve(h)
    <2>1. r.job \in Jobs
      BY <1>0, <1>2 DEF Shaped, Resolve
    <2>2. \E q \in Request : Resume(h, q)
      <3>1. CASE Resume(h, Idle)
        BY <3>1, Requests
      <3>2. ASSUME NEW s \in Slugs, tenant[s] # NoTenant
            PROVE  LET tda == [slug |-> s, id |-> tenant[s].id, conf |-> tenant[s].conf,
                               conn |-> NoConn]
                   IN  /\ [step |-> "store", tda |-> tda, job |-> r.job] \in Request
                       /\ tda.conf.db # NoDB =>
                            [step |-> "pool", tda |-> tda, job |-> r.job] \in Request
        <4> DEFINE tda == [slug |-> s, id |-> tenant[s].id, conf |-> tenant[s].conf,
                           conn |-> NoConn]
        <4>1. tda \in TDA
          BY <3>2, TenantFields DEF TDA
        <4>2. tda.conf.db # NoDB => tda \in Dialled
          BY <4>1 DEF Dialled
        <4> HIDE DEF tda
        <4>3. QED
          BY <2>1, <4>1, <4>2, Requests DEF tda, Callers
      <3>3. QED
        BY <1>2, <3>1, <3>2, Requests DEF Resolve
    <2>3. QED
      BY <1>2, <2>2, ResumeType DEF TypeOK, Resolve
  <1>3. CASE PoolGet(h)
    <2> DEFINE s == r.tda.slug
    <2>1. r.tda \in Dialled /\ r.tda \in TDA /\ r.job \in Jobs /\ s \in Slugs
      BY <1>0, <1>3 DEF PoolGet, Carriers, Callers, Shaped, TDA
    <2>2. Connected(r, pool[s]) \in Request
      BY <2>1, ConnectedType DEF TypeOK
    <2>3. \A st \in {"dial", "wait"} : [r EXCEPT !.step = st] \in Request
      BY <1>0, <1>3, <2>1, Requests DEF PoolGet, Callers, Shaped
    <2>4. \E q \in Request : Resume(h, q)
      BY <1>3, <2>2, <2>3 DEF PoolGet
    <2>5. flight' \in [Slugs -> Handlers \cup {None}]
      BY <1>3 DEF TypeOK, PoolGet
    <2>6. QED
      BY <1>3, <2>4, <2>5, ResumeType DEF TypeOK, PoolGet
  <1>4. CASE Dial(h)
    <2> DEFINE t == r.tda
    <2>1. t \in TDA /\ r.job \in Jobs /\ t.slug \in Slugs /\ t.conf.db \in DSNs \cup {NoDB}
      BY <1>0, <1>4 DEF Dial, Carriers, Callers, Shaped, TDA, Settings
    <2>2. PICK c \in Conns :
            /\ conn' = [conn EXCEPT ![c] = [slug |-> t.slug, db |-> t.conf.db, open |-> TRUE]]
            /\ pool' = [pool EXCEPT ![t.slug] = c]
            /\ Resume(h, [step |-> "landed", tda |-> [t EXCEPT !.conn = c], job |-> r.job])
      BY <1>4 DEF Dial
    <2>3. [t EXCEPT !.conn = c] \in TDA
      BY <2>1 DEF TDA
    <2>4. [step |-> "landed", tda |-> [t EXCEPT !.conn = c], job |-> r.job] \in Request
      BY <2>1, <2>3, Requests
    <2>5. [slug |-> t.slug, db |-> t.conf.db, open |-> TRUE] \in Conn
      BY <2>1 DEF Conn
    <2>6. conn' \in [Conns -> Conn] /\ pool' \in [Slugs -> Conns \cup {NoConn}]
      BY <2>2, <2>5 DEF TypeOK
    <2>7. req' \in [Handlers -> Request]
      BY <2>2, <2>4, ResumeType
    <2>8. QED
      BY <1>4, <2>6, <2>7 DEF TypeOK, Dial
  <1>5. CASE DialFails(h) \/ Land(h)
    <2>1. PICK c \in Conns \cup {NoConn} : Answer(h, Joined(h), c)
      BY <1>0, <1>5 DEF DialFails, Land, Shaped, Carriers, TDA
    <2>2. r.step \in Carriers
      BY <1>5 DEF DialFails, Land, Carriers, Callers
    <2>3. req' \in [Handlers -> Request] /\ flight' \in [Slugs -> Handlers \cup {None}]
      BY <2>1, <2>2, AnswerType
    <2>4. QED
      BY <1>5, <2>3 DEF TypeOK, DialFails, Land
  <1>6. CASE Store(h)
    <2>1. r.tda \in TDA /\ r.job \in Jobs /\ r.tda.slug \in Keys /\ r.tda.id \in Keys
      BY <1>0, <1>6 DEF Store, Carriers, Shaped, TDA, Keys
    <2>2. Accessed(r.tda, r.job) \in Request
      BY <2>1, AccessedType
    <2>3. cache' \in [Keys -> TDA \cup {NoTDA}]
      BY <1>6, <2>1 DEF TypeOK, Store
    <2>4. QED
      BY <1>6, <2>2, <2>3, ResumeType DEF TypeOK, Store
  <1>7. CASE Use(h)
    BY <1>7, Requests, ResumeType DEF TypeOK, Use
  <1>8. ASSUME NEW rest \in Rest, ImportSettings(h, rest)
        PROVE  TypeOK'
    <2> DEFINE old == IF tenant[r.slug] # NoTenant /\ tenant[r.slug].id = r.id
                      THEN tenant[r.slug].conf
                      ELSE [db |-> NoDB, fields |-> NoFields, rest |-> rest]
               new == [old EXCEPT !.rest = rest]
               q   == [step |-> "read", slug |-> r.slug, by |-> "import", seen |-> old,
                       conf |-> new, tell |-> "none"]
    <2>1. r.slug \in Slugs /\ "none" \in Notices
      BY <1>0, <1>8 DEF ImportSettings, Shaped, Notices
    <2>2. old \in Settings
      <3>1. CASE tenant[r.slug] # NoTenant /\ tenant[r.slug].id = r.id
        BY <2>1, <3>1, TenantFields
      <3>2. CASE ~(tenant[r.slug] # NoTenant /\ tenant[r.slug].id = r.id)
        BY <3>2, ConstantsAssumption DEF Settings
      <3>3. QED
        BY <3>1, <3>2
    <2>3. Resume(h, q) /\ UNCHANGED <<tenant, cache, pool, flight, conn, issued>>
      BY <1>8 DEF ImportSettings
    <2> HIDE DEF old
    <2>4. new \in Settings
      BY <2>2 DEF Settings
    <2> HIDE DEF new
    <2>5. q \in Request
      BY <2>1, <2>2, <2>4, Requests
    <2> HIDE DEF q
    <2>6. QED
      BY <2>3, <2>5, ResumeType DEF TypeOK
  <1>9. CASE Read(h)
    <2>1. /\ r.slug \in Slugs /\ r.by \in {"settings", "import", "put"} /\ r.seen \in Settings
          /\ r.conf \in Settings /\ r.tell \in Notices
      BY <1>0, <1>9 DEF Read, Shaped
    <2>2. CASE tenant[r.slug] = NoTenant
      BY <1>9, <2>2, Requests, ResumeType DEF TypeOK, Read
    <2>3. CASE tenant[r.slug] # NoTenant
      <3> DEFINE t == [tenant[r.slug] EXCEPT !.conf = r.conf]
                 q == [step |-> "write", slug |-> r.slug, by |-> r.by, seen |-> r.seen,
                       new |-> t, tell |-> r.tell]
      <3>1. t \in Tenant
        BY <2>1, <2>3, TenantFields
      <3>2. Resume(h, q) /\ UNCHANGED <<tenant, cache, pool, flight, conn, issued>>
        BY <1>9, <2>3 DEF Read
      <3> HIDE DEF t
      <3>3. q \in Request
        BY <2>1, <3>1, Requests
      <3> HIDE DEF q
      <3>4. QED
        BY <3>2, <3>3, ResumeType DEF TypeOK
    <2>4. QED
      BY <2>2, <2>3
  <1>10. CASE Write(h)
    <2>1. r.slug \in Slugs /\ r.new \in Tenant /\ r.tell \in Notices
      BY <1>0, <1>10 DEF Write, Shaped
    <2>2. r.tell # "none" => [step |-> r.tell, slug |-> r.slug] \in Request
      BY <2>1, Requests DEF Notices
    <2>3. \E q \in Request : Resume(h, q)
      BY <1>10, <2>2, Requests DEF Write
    <2>4. tenant' \in [Slugs -> Tenant \cup {NoTenant}]
      BY <1>10, <2>1 DEF TypeOK, Write
    <2>5. QED
      BY <1>10, <2>3, <2>4, ResumeType DEF TypeOK, Write
  <1>11. CASE Refresh(h)
    <2>1. [r EXCEPT !.step = "close"] \in Request
      BY <1>0, <1>11, Requests DEF Refresh, Shaped
    <2>2. cache' \in [Keys -> TDA \cup {NoTDA}]
      BY <1>11 DEF TypeOK, Refresh
    <2>3. QED
      BY <1>11, <2>1, <2>2, ResumeType DEF TypeOK, Refresh
  <1>12. CASE PoolClose(h)
    <2>1. r.slug \in Slugs
      BY <1>0, <1>12 DEF PoolClose, Shaped
    <2>2. /\ [step |-> "bootstrap", slug |-> r.slug] \in Request
          /\ pool[r.slug] # NoConn =>
               [step |-> "closing", slug |-> r.slug, conn |-> pool[r.slug]] \in Request
      BY <2>1, Requests DEF TypeOK
    <2>3. \E q \in Request : Resume(h, q)
      BY <1>12, <2>2 DEF PoolClose
    <2>4. pool' \in [Slugs -> Conns \cup {NoConn}]
      BY <1>12 DEF TypeOK, PoolClose
    <2>5. QED
      BY <1>12, <2>3, <2>4, ResumeType DEF TypeOK, PoolClose
  <1>13. CASE ConnClose(h)
    <2>1. r.slug \in Slugs /\ r.conn \in Conns
      BY <1>0, <1>13 DEF ConnClose, Shaped
    <2>2. [step |-> "bootstrap", slug |-> r.slug] \in Request
      BY <2>1, Requests
    <2>3. [conn[r.conn] EXCEPT !.open = FALSE] \in Conn
      BY <2>1 DEF TypeOK, Conn
    <2>4. conn' \in [Conns -> Conn]
      BY <1>13, <2>1, <2>3 DEF TypeOK, ConnClose
    <2>5. QED
      BY <1>13, <2>2, <2>4, ResumeType DEF TypeOK, ConnClose
  <1>14. CASE Bootstrap(h)
    <2>1. [step |-> "lookup", slug |-> r.slug] \in Request
      BY <1>0, <1>14, Requests DEF Bootstrap, Shaped
    <2>2. cache' \in [Keys -> TDA \cup {NoTDA}]
      BY <1>14 DEF TypeOK, Bootstrap
    <2>3. QED
      BY <1>14, <2>1, <2>2, ResumeType DEF TypeOK, Bootstrap
  <1>15. QED
    BY <1>1, <1>2, <1>3, <1>4, <1>5, <1>6, <1>7, <1>8, <1>9, <1>10, <1>11, <1>12,
       <1>13, <1>14 DEF Continue

LEMMA NextType ==
    ASSUME TypeOK, [Next]_vars
    PROVE  TypeOK'
  <1>1. CASE UNCHANGED vars
    BY <1>1 DEF vars, TypeOK
  <1>2. QED
    BY <1>1, BeginType, ContinueType DEF Next

LEMMA InitType == Init => TypeOK
  BY ConstantsAssumption
     DEF Init, TypeOK, Request, Conn, Unused

(***************************************************************************)
(* TypeOK: every reachable state is well formed.  In particular a request  *)
(* that closes a connection has one, and one that dials has a database.    *)
(***************************************************************************)
THEOREM TypeCorrect == Spec => []TypeOK
  <1>1. TypeOK /\ [Next]_vars => TypeOK'
    BY NextType
  <1>2. QED
    BY <1>1, InitType, PTL DEF Spec

-----------------------------------------------------------------------------
(* Connections                                                              *)

\* Who dials for a tenant makes its singleflight call until those who wait
\* have their answer, and nobody has put a connection into the pool before
\* the dial succeeds.
Dialers ==
    \A h \in Handlers :
        /\ req[h].step \in {"dial", "landed"} => flight[req[h].tda.slug] = h
        /\ req[h].step = "dial" => pool[req[h].tda.slug] = NoConn

LeakInv == TypeOK /\ Dialers /\ NoConnLeaks

LEMMA ResumeOne ==
    ASSUME TypeOK, NEW h \in Handlers, NEW r, Resume(h, r)
    PROVE  req'[h] = r /\ \A w \in Handlers \ {h} : req'[w] = req[w]
  BY DEF TypeOK, Resume

LEMMA DialSlug ==
    ASSUME TypeOK, NEW w \in Handlers, req[w].step \in Carriers
    PROVE  req[w].tda.slug \in Slugs
  BY ShapedReq DEF Shaped, TDA

\* A step by one request, other than the one that begins to dial.
LEMMA DialersKept ==
    ASSUME LeakInv, NEW h \in Handlers, flight' = flight,
           \A s \in Slugs : pool[s] = NoConn => pool'[s] = NoConn,
           req'[h].step \notin {"dial", "landed"},
           \A w \in Handlers \ {h} : req'[w] = req[w]
    PROVE  Dialers'
  <1>1. \A w \in Handlers : req[w].step \in {"dial", "landed"} => req[w].tda.slug \in Slugs
    BY DialSlug DEF LeakInv, Carriers, Callers
  <1>2. QED
    BY <1>1 DEF LeakInv, Dialers

\* A step by one request that opens and closes nothing and does not dial.
LEMMA LeakResume ==
    ASSUME LeakInv, TypeOK', NEW h \in Handlers, NEW r, Resume(h, r),
           r.step \notin {"dial", "landed"}, req[h].step # "closing",
           UNCHANGED <<pool, flight, conn>>
    PROVE  LeakInv'
  <1>1. req'[h] = r /\ \A w \in Handlers \ {h} : req'[w] = req[w]
    BY ResumeOne DEF LeakInv
  <1>2. NoConnLeaks'
    BY <1>1 DEF LeakInv, NoConnLeaks
  <1>3. Dialers'
    BY <1>1, DialersKept
  <1>4. QED
    BY <1>2, <1>3 DEF LeakInv

LEMMA LeakBegin ==
    ASSUME LeakInv, TypeOK', NEW h \in Handlers, Begin(h)
    PROVE  LeakInv'
  <1>1. ASSUME NEW k \in Keys, Serve(h, k)
        PROVE  LeakInv'
    <2>1. PICK r \in Request : Resume(h, r) /\ r.step \in {"use", "idle", "resolve"}
      BY <1>1, ForTenantType DEF Serve, Jobs, LeakInv
    <2>2. QED
      BY <1>1, <2>1, LeakResume DEF Serve, Idle
  <1>2. ASSUME NEW s \in Slugs, NEW id \in IDs, NEW conf \in Settings,
               Create(h, s, id, conf)
        PROVE  LeakInv'
    BY <1>2, LeakResume DEF Create, Idle
  <1>3. ASSUME NEW s \in Slugs, NEW new \in Settings, NEW resent \in BOOLEAN,
               UpdateSettings(h, s, new, resent)
        PROVE  LeakInv'
    <2>1. PICK r : Resume(h, r) /\ r.step = "read"
      BY <1>3 DEF UpdateSettings
    <2>2. QED
      BY <1>3, <2>1, LeakResume DEF UpdateSettings, Idle
  <1>4. ASSUME NEW s \in Slugs, NEW new \in Settings, Update(h, s, new)
        PROVE  LeakInv'
    <2>1. PICK r : Resume(h, r) /\ r.step = "write"
      BY <1>4 DEF Update
    <2>2. QED
      BY <1>4, <2>1, LeakResume DEF Update, Idle
  <1>5. ASSUME NEW s \in Slugs, Delete(h, s)
        PROVE  LeakInv'
    BY <1>5 DEF Delete, LeakInv, Dialers, NoConnLeaks
  <1>6. ASSUME NEW s \in Slugs, Import(h, s)
        PROVE  LeakInv'
    BY <1>6, LeakResume DEF Import, Idle
  <1>7. QED
    BY <1>1, <1>2, <1>3, <1>4, <1>5, <1>6 DEF Begin

\* The steps that neither dial nor touch the pool.
LEMMA LeakQuiet ==
    ASSUME LeakInv, TypeOK', NEW h \in Handlers,
           \/ Lookup(h) \/ Resolve(h) \/ Store(h) \/ Use(h)
           \/ \E rest \in Rest : ImportSettings(h, rest)
           \/ Read(h) \/ Write(h) \/ Refresh(h) \/ Bootstrap(h)
    PROVE  LeakInv'
  <1>0. Shaped(req[h])
    BY ShapedReq DEF LeakInv
  <1>1. CASE Lookup(h)
    <2>1. req[h].slug \in Keys
      BY <1>0, <1>1 DEF Lookup, Shaped, Keys
    <2>2. PICK r \in Request : Resume(h, r) /\ r.step \in {"use", "idle", "resolve"}
      BY <1>1, <2>1, ForTenantType DEF Lookup, Jobs, LeakInv
    <2>3. QED
      BY <1>1, <2>2, LeakResume DEF Lookup
  <1>2. CASE Resolve(h)
    <2> DEFINE To(q) == Resume(h, q) /\ q.step \in {"idle", "pool", "store"}
    <2>1. PICK r : To(r)
      <3>1. CASE Resume(h, Idle)
        <4>1. To(Idle)
          BY <3>1 DEF Idle
        <4>2. QED
          BY <4>1
      <3>2. ASSUME NEW t, Resume(h, [step |-> "pool", tda |-> t, job |-> req[h].job])
            PROVE  \E r : To(r)
        BY <3>2
      <3>3. ASSUME NEW t, Resume(h, [step |-> "store", tda |-> t, job |-> req[h].job])
            PROVE  \E r : To(r)
        BY <3>3
      <3> HIDE DEF To
      <3>4. QED
        BY <1>2, <3>1, <3>2, <3>3 DEF Resolve
    <2>2. QED
      BY <1>2, <2>1, LeakResume DEF Resolve
  <1>3. CASE Store(h)
    <2>1. req[h].tda \in TDA /\ req[h].job \in Jobs
      BY <1>0, <1>3 DEF Store, Shaped, Carriers
    <2>2. PICK r : Resume(h, r) /\ r.step \in {"use", "idle", "resolve"}
      BY <1>3, <2>1, AccessedType DEF Store
    <2>3. QED
      BY <1>3, <2>2, LeakResume DEF Store
  <1>4. CASE Use(h)
    BY <1>4, LeakResume DEF Use, Idle
  <1>5. ASSUME NEW rest \in Rest, ImportSettings(h, rest)
        PROVE  LeakInv'
    <2>1. PICK r : Resume(h, r) /\ r.step = "read"
      BY <1>5 DEF ImportSettings
    <2>2. QED
      BY <1>5, <2>1, LeakResume DEF ImportSettings
  <1>6. CASE Read(h)
    <2>1. PICK r : Resume(h, r) /\ r.step \in {"idle", "write"}
      <3>1. CASE tenant[req[h].slug] = NoTenant
        BY <1>6, <3>1 DEF Read, Idle
      <3>2. CASE tenant[req[h].slug] # NoTenant
        BY <1>6, <3>2 DEF Read
      <3>3. QED
        BY <3>1, <3>2
    <2>2. QED
      BY <1>6, <2>1, LeakResume DEF Read
  <1>7. CASE Write(h)
    <2>1. PICK r : Resume(h, r) /\ r.step \in {"idle", "refresh", "bootstrap"}
      BY <1>0, <1>7 DEF Write, Idle, Shaped, Notices
    <2>2. QED
      BY <1>7, <2>1, LeakResume DEF Write
  <1>8. CASE Refresh(h) \/ Bootstrap(h)
    <2>1. PICK r : Resume(h, r) /\ r.step \in {"close", "lookup"}
      BY <1>0, <1>8 DEF Refresh, Bootstrap, Shaped
    <2>2. QED
      BY <1>8, <2>1, LeakResume DEF Refresh, Bootstrap
  <1>9. QED
    BY <1>1, <1>2, <1>3, <1>4, <1>5, <1>6, <1>7, <1>8

\* One request begins to dial for a tenant that nobody dials for.
LEMMA LeakPoolGet ==
    ASSUME LeakInv, TypeOK', NEW h \in Handlers, PoolGet(h)
    PROVE  LeakInv'
  <1> DEFINE r == req[h]
             s == r.tda.slug
  <1>1. /\ Shaped(r) /\ r.step \in Carriers /\ s \in Slugs
        /\ r.tda \in TDA /\ r.job \in Jobs
    BY ShapedReq, DialSlug DEF LeakInv, PoolGet, Carriers, Callers, Shaped
  <1>2. CASE flight' = flight
    <2>1. PICK q : Resume(h, q) /\ q.step \notin {"dial", "landed"}
      <3>1. Connected(r, pool[s]).step \in {"store", "use", "idle"}
        BY <1>1, ConnectedType DEF LeakInv, TypeOK
      <3>2. [r EXCEPT !.step = "wait"].step = "wait"
        BY <1>1 DEF Shaped, PoolGet, Callers
      <3>3. flight[s] = None => flight' # [flight EXCEPT ![s] = h]
        BY <1>1, <1>2, ConstantsAssumption DEF LeakInv, TypeOK
      <3>4. QED
        BY <3>1, <3>2, <3>3 DEF PoolGet
    <2>2. QED
      BY <1>2, <2>1, LeakResume DEF PoolGet
  <1>3. CASE flight' # flight
    <2>1. /\ pool[s] = NoConn /\ flight[s] = None
          /\ flight' = [flight EXCEPT ![s] = h]
          /\ Resume(h, [r EXCEPT !.step = "dial"])
          /\ pool' = pool /\ conn' = conn
      BY <1>3 DEF PoolGet
    <2>2. /\ req'[h].step = "dial" /\ req'[h].tda.slug = s
          /\ \A w \in Handlers \ {h} : req'[w] = req[w]
      BY <1>1, <2>1, ResumeOne DEF LeakInv, Shaped, PoolGet, Callers
    <2>3. NoConnLeaks'
      BY <2>1, <2>2 DEF LeakInv, NoConnLeaks, PoolGet
    <2>4. flight'[s] = h /\ \A x \in Slugs \ {s} : flight'[x] = flight[x]
      BY <1>1, <2>1 DEF LeakInv, TypeOK
    <2>5. ASSUME NEW w \in Handlers \ {h}, req[w].step \in {"dial", "landed"}
          PROVE  req[w].tda.slug \in Slugs \ {s}
      BY <2>1, <2>5, DialSlug, ConstantsAssumption DEF LeakInv, Dialers, Carriers, Callers
    <2>6. Dialers'
      BY <2>1, <2>2, <2>4, <2>5 DEF LeakInv, Dialers
    <2>7. QED
      BY <2>3, <2>6 DEF LeakInv
  <1>4. QED
    BY <1>2, <1>3

\* Whoever else dials for this tenant would have made the same call.
LEMMA LeakDial ==
    ASSUME LeakInv, TypeOK', NEW h \in Handlers, Dial(h)
    PROVE  LeakInv'
  <1> DEFINE s == req[h].tda.slug
  <1>1. /\ Shaped(req[h]) /\ req[h].step \in Carriers /\ req[h].step = "dial"
        /\ s \in Slugs /\ req[h].tda \in TDA
    BY ShapedReq, DialSlug DEF LeakInv, Dial, Carriers, Callers, Shaped
  <1>2. PICK n \in Conns :
          /\ conn[n] = Unused
          /\ conn' = [conn EXCEPT ![n] = [slug |-> s, db |-> req[h].tda.conf.db,
                                          open |-> TRUE]]
          /\ pool' = [pool EXCEPT ![s] = n]
          /\ Resume(h, [step |-> "landed", tda |-> [req[h].tda EXCEPT !.conn = n],
                        job |-> req[h].job])
    BY DEF Dial
  <1>3. flight' = flight /\ flight[s] = h /\ pool[s] = NoConn
    BY <1>1 DEF LeakInv, Dialers, Dial
  <1>4. /\ req'[h].step = "landed" /\ req'[h].tda.slug = s
        /\ \A w \in Handlers \ {h} : req'[w] = req[w]
    <2> DEFINE t == [req[h].tda EXCEPT !.conn = n]
    <2>1. t.slug = s
      BY <1>1 DEF TDA
    <2>2. req'[h] = [step |-> "landed", tda |-> t, job |-> req[h].job]
      BY <1>2, ResumeOne DEF LeakInv
    <2> HIDE DEF t
    <2>3. \A w \in Handlers \ {h} : req'[w] = req[w]
      BY <1>2, ResumeOne DEF LeakInv
    <2>4. QED
      BY <2>1, <2>2, <2>3
  <1>5. \A x \in Slugs \ {s} : pool'[x] = pool[x]
    BY <1>2 DEF LeakInv, TypeOK
  <1>6. Dialers'
    <2>1. ASSUME NEW w \in Handlers \ {h}, req[w].step \in {"dial", "landed"}
          PROVE  req[w].tda.slug \in Slugs \ {s}
      BY <1>3, <2>1, DialSlug DEF LeakInv, Dialers, Carriers, Callers
    <2>2. QED
      BY <1>3, <1>4, <1>5, <2>1 DEF LeakInv, Dialers
  <1>7. conn'[n].slug = s /\ pool'[s] = n
    BY <1>1, <1>2 DEF LeakInv, TypeOK
  <1>8. ASSUME NEW d \in Conns \ {n}, conn'[d].open
        PROVE  \/ pool'[conn'[d].slug] = d
               \/ \E g \in Handlers : req'[g].step = "closing" /\ req'[g].conn = d
    <2>1. conn'[d] = conn[d]
      BY <1>2, <1>8 DEF LeakInv, TypeOK
    <2>2. CASE \E g \in Handlers : req[g].step = "closing" /\ req[g].conn = d
      <3>1. PICK g \in Handlers : req[g].step = "closing" /\ req[g].conn = d
        BY <2>2
      <3>2. req'[g] = req[g]
        BY <1>1, <1>4, <3>1
      <3>3. QED
        BY <3>1, <3>2
    <2>3. CASE pool[conn[d].slug] = d
      <3>1. conn[d].slug # s
        BY <1>3, <2>3, ConstantsAssumption
      <3>2. pool'[conn[d].slug] = pool[conn[d].slug]
        BY <1>2, <3>1 DEF LeakInv, TypeOK
      <3>3. QED
        BY <2>1, <2>3, <3>2
    <2>4. QED
      BY <1>8, <2>1, <2>2, <2>3 DEF LeakInv, NoConnLeaks
  <1>9. NoConnLeaks'
    BY <1>7, <1>8 DEF NoConnLeaks
  <1>10. QED
    BY <1>6, <1>9 DEF LeakInv

\* The answer of a dial: those who waited for it go on and nobody else moves.
LEMMA LeakAnswer ==
    ASSUME LeakInv, TypeOK', NEW h \in Handlers, Land(h) \/ DialFails(h)
    PROVE  LeakInv'
  <1> DEFINE s == req[h].tda.slug
  <1>1. /\ Shaped(req[h]) /\ req[h].step \in {"dial", "landed"}
        /\ req[h].tda \in TDA /\ s \in Slugs
    BY ShapedReq, DialSlug DEF LeakInv, Land, DialFails, Carriers, Callers, Shaped
  <1>2. PICK c \in Conns \cup {NoConn} : Answer(h, Joined(h), c)
    BY <1>1 DEF Land, DialFails, TDA
  <1>3. h \in Joined(h) /\ Joined(h) \subseteq Handlers
    BY DEF Joined
  <1>4. ASSUME NEW w \in Joined(h)
        PROVE  req'[w].step \notin {"dial", "landed", "closing"} /\ req[w].step # "closing"
    <2>1. w \in Handlers /\ req[w].step \in Carriers /\ req[w].step # "closing"
      BY <1>1 DEF Joined, Carriers, Callers
    <2>2. Connected(req[w], c).step \in {"store", "use", "idle"}
      BY <2>1, ShapedReq, ConnectedType DEF LeakInv, Shaped
    <2>3. req'[w] = Connected(req[w], c)
      BY <1>2, <2>1 DEF Answer
    <2>4. QED
      BY <2>1, <2>2, <2>3
  <1>5. \A w \in Handlers \ Joined(h) : req'[w] = req[w]
    BY <1>2 DEF Answer
  <1>6. UNCHANGED <<pool, conn>> /\ \A x \in Slugs \ {s} : flight'[x] = flight[x]
    BY <1>2 DEF Answer, Land, DialFails, LeakInv, TypeOK
  <1>7. NoConnLeaks'
    BY <1>3, <1>4, <1>5, <1>6 DEF LeakInv, NoConnLeaks
  <1>8. Dialers'
    <2>1. SUFFICES ASSUME NEW w \in Handlers, req'[w].step \in {"dial", "landed"}
                   PROVE  /\ flight'[req'[w].tda.slug] = w
                          /\ req'[w].step = "dial" => pool'[req'[w].tda.slug] = NoConn
      BY DEF Dialers
    <2>2. req'[w] = req[w] /\ w # h
      BY <1>3, <1>4, <1>5, <2>1
    <2>3. req[w].tda.slug \in Slugs \ {s}
      BY <1>1, <2>1, <2>2, DialSlug DEF LeakInv, Dialers, Carriers, Callers
    <2>4. QED
      BY <1>6, <2>1, <2>2, <2>3 DEF LeakInv, Dialers
  <1>9. QED
    BY <1>7, <1>8 DEF LeakInv

\* What leaves the pool is in the hands of who closes it.
LEMMA LeakClose ==
    ASSUME LeakInv, TypeOK', NEW h \in Handlers, PoolClose(h) \/ ConnClose(h)
    PROVE  LeakInv'
  <1> DEFINE s == req[h].slug
  <1>1. CASE PoolClose(h)
    <2>1. s \in Slugs
      BY <1>1, ShapedReq DEF LeakInv, PoolClose, Shaped
    <2>2. \A w \in Handlers \ {h} : req'[w] = req[w]
      BY <1>1, ResumeOne DEF PoolClose, LeakInv
    <2>3. /\ pool[s] = NoConn => req'[h].step = "bootstrap"
          /\ pool[s] # NoConn => req'[h].step = "closing" /\ req'[h].conn = pool[s]
      BY <1>1, ResumeOne DEF PoolClose, LeakInv
    <2>4. pool' = [pool EXCEPT ![s] = NoConn] /\ conn' = conn /\ flight' = flight
      BY <1>1 DEF PoolClose
    <2>5. Dialers'
      <3>1. \A x \in Slugs : pool[x] = NoConn => pool'[x] = NoConn
        BY <2>1, <2>4 DEF LeakInv, TypeOK
      <3>2. QED
        BY <2>2, <2>3, <2>4, <3>1, DialersKept
    <2>6. ASSUME NEW d \in Conns, conn[d].open
          PROVE  \/ pool'[conn[d].slug] = d
                 \/ \E g \in Handlers : req'[g].step = "closing" /\ req'[g].conn = d
      <3>1. CASE \E g \in Handlers : req[g].step = "closing" /\ req[g].conn = d
        <4>1. req[h].step # "closing"
          BY <1>1 DEF PoolClose
        <4>2. QED
          BY <2>2, <3>1, <4>1
      <3>2. CASE pool[conn[d].slug] = d /\ conn[d].slug = s
        BY <2>3, <3>2, ConstantsAssumption
      <3>3. CASE pool[conn[d].slug] = d /\ conn[d].slug # s
        BY <2>4, <3>3 DEF LeakInv, TypeOK
      <3>4. QED
        BY <2>6, <3>1, <3>2, <3>3 DEF LeakInv, NoConnLeaks
    <2>7. QED
      BY <2>4, <2>5, <2>6 DEF LeakInv, NoConnLeaks
  <1>2. CASE ConnClose(h)
    <2> DEFINE c == req[h].conn
    <2>1. c \in Conns
      BY <1>2, ShapedReq DEF LeakInv, ConnClose, Shaped
    <2>2. req'[h].step = "bootstrap" /\ \A w \in Handlers \ {h} : req'[w] = req[w]
      BY <1>2, ResumeOne DEF ConnClose, LeakInv
    <2>3. ~conn'[c].open /\ \A d \in Conns \ {c} : conn'[d] = conn[d]
      BY <1>2, <2>1 DEF ConnClose, LeakInv, TypeOK, Conn
    <2>4. Dialers'
      BY <1>2, <2>2, DialersKept DEF ConnClose
    <2>5. NoConnLeaks'
      BY <1>2, <2>2, <2>3 DEF LeakInv, NoConnLeaks, ConnClose
    <2>6. QED
      BY <2>4, <2>5 DEF LeakInv
  <1>3. QED
    BY <1>1, <1>2

(***************************************************************************)
(* NoConnLeaks: every open connection is in the pool or being closed,      *)
(* however many first requests dial in parallel and whatever settings      *)
(* change meanwhile.                                                       *)
(***************************************************************************)
THEOREM NoLeaks == Spec => []NoConnLeaks
  <1>1. Init => LeakInv
    BY InitType DEF Init, LeakInv, Dialers, NoConnLeaks, Unused, Idle
  <1>2. LeakInv /\ [Next]_vars => LeakInv'
    <2>1. SUFFICES ASSUME LeakInv, [Next]_vars
                   PROVE  LeakInv'
      OBVIOUS
    <2>2. TypeOK'
      BY <2>1, NextType DEF LeakInv
    <2>3. CASE UNCHANGED vars
      BY <2>1, <2>2, <2>3 DEF vars, LeakInv, Dialers, NoConnLeaks
    <2>4. ASSUME NEW h \in Handlers, Begin(h) \/ Continue(h)
          PROVE  LeakInv'
      BY <2>1, <2>2, <2>4, LeakBegin, LeakQuiet, LeakPoolGet, LeakDial, LeakAnswer,
         LeakClose DEF Continue
    <2>5. QED
      BY <2>1, <2>3, <2>4 DEF Next
  <1>3. LeakInv => NoConnLeaks
    BY DEF LeakInv
  <1>4. QED
    BY <1>1, <1>2, <1>3, PTL DEF Spec

-----------------------------------------------------------------------------
(* One request at a time                                                    *)

\* By f, c is an open connection of tenant s to the database db.
Serves(f, c, s, db) == c \in Conns /\ f[c] = [slug |-> s, db |-> db, open |-> TRUE]

\* Settings that differ in nothing that the manager is told about.
Alike(old, new) ==
    new.db = old.db /\ (new.db # NoDB => new.fields = old.fields)

\* The steps between the write of the settings and their reading again; of s
\* the manager has been told what is in the file.
Unsettled == {"refresh", "close", "closing", "bootstrap"}
Told(s) == \A h \in Handlers : req[h].step \in Unsettled => req[h].slug # s

CacheInv ==
    \A s \in Slugs : cache[s] # NoTDA =>
        /\ cache[s].slug = s
        /\ cache[s].conf.db # NoDB => Serves(conn, cache[s].conn, s, cache[s].conf.db)
        /\ Told(s) => tenant[s] # NoTenant /\ Alike(cache[s].conf, tenant[s].conf)

PoolInv ==
    \A s \in Slugs : pool[s] # NoConn =>
        /\ Serves(conn, pool[s], s, conn[pool[s]].db) /\ conn[pool[s]].db # NoDB
        /\ Told(s) => tenant[s] # NoTenant /\ conn[pool[s]].db = tenant[s].conf.db

\* What m tells the manager about is all that it needs to be told.
Enough(m, old, new) ==
    /\ m = "none" => Alike(old, new)
    /\ m = "bootstrap" => old.db = NoDB \/ new.db = old.db

\* What a request goes on with agrees with the file, as nobody else writes it;
\* what it is to forget is forgotten in this order.
Agrees(r) ==
    /\ r.step \in {"pool", "dial", "wait", "landed", "store"} =>
         /\ tenant[r.tda.slug] # NoTenant /\ tenant[r.tda.slug].conf = r.tda.conf
         /\ r.tda.conn # NoConn => Serves(conn, r.tda.conn, r.tda.slug, r.tda.conf.db)
    /\ r.step = "import" => tenant[r.slug] # NoTenant /\ tenant[r.slug].id = r.id
    /\ r.step = "read" =>
         tenant[r.slug] # NoTenant /\ Enough(r.tell, tenant[r.slug].conf, r.conf)
    /\ r.step = "write" =>
         tenant[r.slug] # NoTenant /\ Enough(r.tell, tenant[r.slug].conf, r.new.conf)
    /\ r.step \in Unsettled => tenant[r.slug] # NoTenant
    /\ r.step \in {"close", "closing"} => cache[r.slug] = NoTDA
    /\ r.step = "closing" => pool[r.slug] = NoConn /\ conn[r.conn].slug = r.slug
    /\ r.step = "bootstrap" /\ pool[r.slug] # NoConn =>
         conn[pool[r.slug]].db = tenant[r.slug].conf.db

SeqInv == TypeOK /\ CacheInv /\ PoolInv /\ \A h \in Handlers : Agrees(req[h])

Sequential ==
    /\ Operations \subseteq {"settings", "import"}
    /\ \A h, g \in Handlers : h = g

LEMMA Alone ==
    ASSUME Sequential, NEW h \in Handlers, NEW s
    PROVE  Told(s) <=> (req[h].step \in Unsettled => req[h].slug # s)
  BY DEF Sequential, Told

\* A step after which the sole request does r, and nothing is stored.
LEMMA SeqResume ==
    ASSUME SeqInv, TypeOK', Sequential, NEW h \in Handlers, NEW r, Resume(h, r), Agrees(r),
           UNCHANGED <<tenant, cache, pool, conn>>, req[h].step \notin Unsettled
    PROVE  SeqInv'
  <1>1. \A s : Told(s)
    BY Alone
  <1>2. req'[h] = r
    BY ResumeOne DEF SeqInv
  <1>3. CacheInv'
    BY <1>1 DEF SeqInv, CacheInv, Serves
  <1>4. PoolInv'
    BY <1>1 DEF SeqInv, PoolInv, Serves
  <1>5. ASSUME NEW g \in Handlers
        PROVE  Agrees(req[g])'
    <2>1. g = h
      BY DEF Sequential
    <2>2. QED
      BY <1>2, <2>1 DEF Agrees, Serves
  <1>6. QED
    BY <1>3, <1>4, <1>5 DEF SeqInv

\* What ForTenant and getDataConnection lead to.
LEMMA FreeAgrees ==
    ASSUME NEW r, r.step \in {"use", "idle", "resolve", "lookup"}
    PROVE  Agrees(r)
  BY DEF Agrees, Unsettled

LEMMA ConnectedAgrees ==
    ASSUME NEW r, r.tda \in TDA, r.job \in Jobs, NEW c \in Conns \cup {NoConn},
           tenant[r.tda.slug] # NoTenant, tenant[r.tda.slug].conf = r.tda.conf,
           c # NoConn => Serves(conn, c, r.tda.slug, r.tda.conf.db)
    PROVE  Agrees(Connected(r, c))
  <1> DEFINE q == Connected(r, c)
             t == [r.tda EXCEPT !.conn = c]
  <1>1. q.step \in {"store", "use", "idle"} /\ (q.step = "store" => q.tda = t)
    BY ConnectedType
  <1>2. t.slug = r.tda.slug /\ t.conf = r.tda.conf /\ t.conn = c
    BY DEF TDA
  <1> HIDE DEF q, t
  <1>3. QED
    BY <1>1, <1>2 DEF Agrees, Unsettled, q

LEMMA SeqBegin ==
    ASSUME SeqInv, TypeOK', Sequential, NEW h \in Handlers, Begin(h)
    PROVE  SeqInv'
  <1>1. ASSUME NEW k \in Keys, Serve(h, k)
        PROVE  SeqInv'
    <2>1. PICK r \in Request : Resume(h, r) /\ r.step \in {"use", "idle", "resolve"}
      BY <1>1, ForTenantType DEF Serve, Jobs, SeqInv
    <2>2. Agrees(r)
      BY <2>1, FreeAgrees
    <2>3. QED
      BY <1>1, <2>1, <2>2, SeqResume DEF Serve, Idle, Unsettled
  <1>2. ASSUME NEW s \in Slugs, NEW id \in IDs, NEW conf \in Settings,
               Create(h, s, id, conf)
        PROVE  SeqInv'
    <2>1. \A x : Told(x)
      BY <1>2, Alone DEF Create, Idle, Unsettled
    <2>2. cache[s] = NoTDA /\ pool[s] = NoConn
      BY <1>2, <2>1 DEF Create, SeqInv, CacheInv, PoolInv
    <2>3. PICK r : Resume(h, r) /\ r.step \in {"idle", "lookup"}
      BY <1>2 DEF Create, Idle
    <2>4. req'[h] = r
      BY <2>3, ResumeOne DEF SeqInv
    <2>5. \A x \in Slugs \ {s} : tenant'[x] = tenant[x]
      BY <1>2 DEF Create, SeqInv, TypeOK
    <2>6. UNCHANGED <<cache, pool, conn>>
      BY <1>2 DEF Create
    <2>7. CacheInv'
      BY <2>1, <2>2, <2>5, <2>6 DEF SeqInv, CacheInv, Serves
    <2>8. PoolInv'
      BY <2>1, <2>2, <2>5, <2>6 DEF SeqInv, PoolInv, Serves
    <2>9. ASSUME NEW g \in Handlers
          PROVE  Agrees(req[g])'
      <3>1. g = h
        BY DEF Sequential
      <3>2. QED
        BY <2>3, <2>4, <3>1 DEF Agrees, Unsettled
    <2>10. QED
      BY <2>7, <2>8, <2>9 DEF SeqInv
  <1>3. ASSUME NEW s \in Slugs, NEW new \in Settings, NEW resent \in BOOLEAN,
               UpdateSettings(h, s, new, resent)
        PROVE  SeqInv'
    <2> DEFINE old == tenant[s].conf
               d   == resent \/ new.db # old.db
               r   == [step |-> "read", slug |-> s, by |-> "settings", seen |-> old,
                       conf |-> new, tell |-> Notice(old, new, d)]
    <2>1. tenant[s] # NoTenant /\ (new.db = NoDB => old.db = NoDB /\ ~resent)
      BY <1>3 DEF UpdateSettings
    <2>2. Enough(Notice(old, new, d), old, new)
      BY <2>1 DEF Enough, Notice, Alike
    <2>3. Resume(h, r) /\ UNCHANGED <<tenant, cache, pool, conn>> /\ req[h] = Idle
      BY <1>3 DEF UpdateSettings
    <2> HIDE DEF d
    <2>4. Agrees(r)
      BY <2>1, <2>2 DEF Agrees, Unsettled
    <2> HIDE DEF r
    <2>5. QED
      BY <2>3, <2>4, SeqResume DEF Idle, Unsettled
  <1>4. ASSUME NEW s \in Slugs, Import(h, s)
        PROVE  SeqInv'
    <2> DEFINE r == [step |-> "import", slug |-> s, id |-> tenant[s].id]
    <2>1. Resume(h, r) /\ UNCHANGED <<tenant, cache, pool, conn>> /\ req[h] = Idle
      BY <1>4 DEF Import
    <2>2. Agrees(r)
      BY <1>4 DEF Import, Agrees, Unsettled
    <2> HIDE DEF r
    <2>3. QED
      BY <2>1, <2>2, SeqResume DEF Idle, Unsettled
  <1>5. QED
    BY <1>1, <1>2, <1>3, <1>4 DEF Begin, Update, Delete, Sequential

\* Looking a tenant up, as far as the answer.
LEMMA SeqLookup ==
    ASSUME SeqInv, TypeOK', Sequential, NEW h \in Handlers,
           Lookup(h) \/ Resolve(h) \/ PoolGet(h) \/ Land(h) \/ DialFails(h) \/ Use(h)
    PROVE  SeqInv'
  <1> DEFINE r == req[h]
             t == r.tda
  <1>0. Agrees(r) /\ Agrees(Idle) /\ Shaped(r)
    BY ShapedReq, FreeAgrees DEF SeqInv, Idle
  <1>1. CASE Lookup(h)
    <2>1. r.slug \in Keys
      BY <1>0, <1>1 DEF Lookup, Shaped, Keys
    <2>2. PICK q \in Request : Resume(h, q) /\ q.step \in {"use", "idle", "resolve"}
      BY <1>1, <2>1, ForTenantType DEF Lookup, Jobs, SeqInv
    <2>3. Agrees(q)
      BY <2>2, FreeAgrees
    <2>4. QED
      BY <1>1, <2>2, <2>3, SeqResume DEF Lookup, Unsettled
  <1>2. CASE Resolve(h)
    <2>1. ASSUME NEW x \in Slugs, tenant[x] # NoTenant, NEW st \in {"store", "pool"}
          PROVE  LET tda == [slug |-> x, id |-> tenant[x].id, conf |-> tenant[x].conf,
                             conn |-> NoConn]
                 IN  Agrees([step |-> st, tda |-> tda, job |-> r.job])
      BY <2>1 DEF Agrees, Unsettled
    <2>2. PICK q : Resume(h, q) /\ Agrees(q)
      BY <1>0, <1>2, <2>1 DEF Resolve
    <2>3. QED
      BY <1>2, <2>2, SeqResume DEF Resolve, Unsettled
  <1>3. CASE PoolGet(h)
    <2>1. /\ t.slug \in Slugs /\ t \in TDA /\ t \in Dialled /\ r.job \in Jobs
          /\ \A st \in {"dial", "wait"} :
                [r EXCEPT !.step = st] = [step |-> st, tda |-> t, job |-> r.job]
      BY <1>0, <1>3, DialSlug DEF Shaped, PoolGet, Carriers, Callers, SeqInv
    <2>2. /\ tenant[t.slug] # NoTenant /\ tenant[t.slug].conf = t.conf
          /\ t.conn = NoConn
      BY <1>0, <1>3, <2>1 DEF PoolGet, Agrees, Dialled
    <2>3. pool[t.slug] # NoConn => Serves(conn, pool[t.slug], t.slug, t.conf.db)
      <3>1. Told(t.slug)
        BY <1>3, Alone DEF PoolGet, Unsettled
      <3>2. QED
        BY <2>1, <2>2, <3>1 DEF SeqInv, PoolInv
    <2>4. Agrees(Connected(r, pool[t.slug]))
      BY <2>1, <2>2, <2>3, ConnectedAgrees DEF SeqInv, TypeOK
    <2>5. \A st \in {"dial", "wait"} : Agrees([step |-> st, tda |-> t, job |-> r.job])
      BY <2>2 DEF Agrees, Unsettled
    <2>6. PICK q : Resume(h, q) /\ Agrees(q)
      BY <1>3, <2>1, <2>4, <2>5 DEF PoolGet
    <2>7. QED
      BY <1>3, <2>6, SeqResume DEF PoolGet, Unsettled
  <1>4. CASE Land(h) \/ DialFails(h)
    <2>1. t \in TDA /\ r.job \in Jobs
      BY <1>0, <1>4 DEF Land, DialFails, Shaped, Carriers, Callers
    <2>2. PICK c \in Conns \cup {NoConn} :
            /\ Answer(h, Joined(h), c)
            /\ c # NoConn => Serves(conn, c, t.slug, t.conf.db)
      BY <1>0, <1>4, <2>1 DEF Land, DialFails, Agrees, TDA
    <2>3. Agrees(Connected(r, c))
      BY <1>0, <1>4, <2>1, <2>2, ConnectedAgrees DEF Agrees, Land, DialFails
    <2>4. Resume(h, Connected(r, c))
      <3>1. \A w \in Handlers : w = h
        BY DEF Sequential
      <3>2. req' = [w \in Handlers |-> Connected(r, c)]
        BY <2>2, <3>1 DEF Answer, Joined
      <3>3. [req EXCEPT ![h] = Connected(r, c)] = [w \in Handlers |-> Connected(r, c)]
        BY <3>1 DEF SeqInv, TypeOK
      <3>4. QED
        BY <3>2, <3>3 DEF Resume
    <2>5. QED
      BY <1>4, <2>3, <2>4, SeqResume DEF Land, DialFails, Unsettled
  <1>5. CASE Use(h)
    BY <1>0, <1>5, SeqResume DEF Use, Unsettled
  <1>6. QED
    BY <1>1, <1>2, <1>3, <1>4, <1>5

\* The pool gets a connection to the database that the file names.
LEMMA SeqDial ==
    ASSUME SeqInv, TypeOK', Sequential, NEW h \in Handlers, Dial(h)
    PROVE  SeqInv'
  <1> DEFINE t  == req[h].tda
             db == t.conf.db
  <1>1. t \in Dialled /\ t \in TDA /\ t.slug \in Slugs /\ db # NoDB
    BY ShapedReq, DialSlug DEF Dial, SeqInv, Carriers, Callers, Dialled, Shaped
  <1>2. \A x : Told(x)
    BY Alone DEF Dial, Unsettled
  <1>3. PICK c \in Conns :
          /\ conn[c] = Unused
          /\ conn' = [conn EXCEPT ![c] = [slug |-> t.slug, db |-> db, open |-> TRUE]]
          /\ pool' = [pool EXCEPT ![t.slug] = c]
          /\ Resume(h, [step |-> "landed", tda |-> [t EXCEPT !.conn = c],
                        job |-> req[h].job])
    BY DEF Dial
  <1>4. tenant' = tenant /\ cache' = cache
    BY DEF Dial
  <1>5. Serves(conn', c, t.slug, db) /\ conn'[c].db = db
    BY <1>3 DEF SeqInv, TypeOK, Serves
  <1>6. ASSUME NEW d, NEW x, NEW e, Serves(conn, d, x, e)
        PROVE  Serves(conn', d, x, e) /\ conn'[d] = conn[d]
    <2>1. d # c
      BY <1>3, <1>6 DEF Serves, Unused
    <2>2. QED
      BY <1>3, <1>6, <2>1 DEF SeqInv, TypeOK, Serves
  <1>7. tenant[t.slug] # NoTenant /\ tenant[t.slug].conf = t.conf
    BY DEF SeqInv, Agrees, Dial
  <1>8. \A x : Told(x)'
    <2>1. req'[h].step = "landed"
      BY <1>3, ResumeOne DEF SeqInv
    <2>2. QED
      BY <2>1 DEF Told, Sequential, Unsettled
  <1>9. CacheInv'
    <2>1. SUFFICES ASSUME NEW x \in Slugs, cache[x] # NoTDA
                   PROVE  /\ cache[x].slug = x
                          /\ cache[x].conf.db # NoDB
                               => Serves(conn', cache[x].conn, x, cache[x].conf.db)
                          /\ tenant[x] # NoTenant /\ Alike(cache[x].conf, tenant[x].conf)
      BY <1>4 DEF CacheInv, Serves
    <2>2. QED
      BY <1>2, <1>6, <2>1 DEF SeqInv, CacheInv
  <1>10. PoolInv'
    <2>1. SUFFICES ASSUME NEW x \in Slugs, pool'[x] # NoConn
                   PROVE  /\ Serves(conn', pool'[x], x, conn'[pool'[x]].db)
                          /\ conn'[pool'[x]].db # NoDB
                          /\ tenant[x] # NoTenant /\ conn'[pool'[x]].db = tenant[x].conf.db
      BY <1>4 DEF PoolInv, Serves
    <2>2. CASE x = t.slug
      <3>1. pool'[x] = c
        BY <1>1, <1>3, <2>2 DEF SeqInv, TypeOK
      <3>2. QED
        BY <1>1, <1>5, <1>7, <2>2, <3>1
    <2>3. CASE x # t.slug
      <3>1. pool'[x] = pool[x]
        BY <1>3, <2>3 DEF SeqInv, TypeOK
      <3>2. /\ Serves(conn, pool[x], x, conn[pool[x]].db) /\ conn[pool[x]].db # NoDB
            /\ tenant[x] # NoTenant /\ conn[pool[x]].db = tenant[x].conf.db
        BY <1>2, <2>1, <3>1 DEF SeqInv, PoolInv
      <3>3. QED
        BY <1>6, <3>1, <3>2
    <2>4. QED
      BY <2>2, <2>3
  <1>11. ASSUME NEW g \in Handlers
         PROVE  Agrees(req[g])'
    <2> DEFINE u == [t EXCEPT !.conn = c]
    <2>1. u.slug = t.slug /\ u.conf = t.conf /\ u.conn = c
      BY <1>1 DEF TDA
    <2>2. g = h
      BY DEF Sequential
    <2>3. req'[h] = [step |-> "landed", tda |-> u, job |-> req[h].job]
      BY <1>3, ResumeOne DEF SeqInv
    <2>4. Serves(conn', u.conn, u.slug, u.conf.db)
      BY <1>5, <2>1
    <2>5. tenant'[u.slug] # NoTenant /\ tenant'[u.slug].conf = u.conf
      BY <1>4, <1>7, <2>1
    <2> HIDE DEF u
    <2>6. QED
      BY <2>2, <2>3, <2>4, <2>5 DEF Agrees, Serves, Unsettled
  <1>12. QED
    BY <1>9, <1>10, <1>11 DEF SeqInv

\* What is cached under the slug agrees with the file.
LEMMA SeqStore ==
    ASSUME SeqInv, TypeOK', Sequential, NEW h \in Handlers, Store(h)
    PROVE  SeqInv'
  <1> DEFINE t == req[h].tda
  <1>1. /\ t \in TDA /\ t.slug \in Slugs /\ t.id \in IDs
        /\ t.conn \in Conns \cup {NoConn} /\ req[h].job \in Jobs
    BY ShapedReq DEF Store, SeqInv, Carriers, Shaped, TDA
  <1>2. \A x : Told(x)
    BY Alone DEF Store, Unsettled
  <1>3. /\ tenant[t.slug] # NoTenant /\ tenant[t.slug].conf = t.conf
        /\ t.conn # NoConn => Serves(conn, t.conn, t.slug, t.conf.db)
    BY DEF SeqInv, Agrees, Store
  <1>4. UNCHANGED <<tenant, pool, conn>>
    BY DEF Store
  <1>5. PICK r : Resume(h, r) /\ r.step \in {"use", "idle", "resolve"}
    BY <1>1, AccessedType DEF Store
  <1>6. req'[h] = r
    BY <1>5, ResumeOne DEF SeqInv
  <1>7. \A x \in Slugs :
          \/ cache'[x] = cache[x]
          \/ x = t.slug /\ cache'[x] = t /\ (t.conn # NoConn \/ t.conf.db = NoDB)
    BY <1>1, ConstantsAssumption DEF Store, SeqInv, TypeOK, Keys
  <1>8. CacheInv'
    <2>1. SUFFICES ASSUME NEW x \in Slugs, cache'[x] # NoTDA
                   PROVE  /\ cache'[x].slug = x
                          /\ cache'[x].conf.db # NoDB
                               => Serves(conn, cache'[x].conn, x, cache'[x].conf.db)
                          /\ tenant[x] # NoTenant /\ Alike(cache'[x].conf, tenant[x].conf)
      BY <1>4 DEF CacheInv, Serves, Alike
    <2>2. CASE cache'[x] = cache[x]
      BY <1>2, <2>1, <2>2 DEF SeqInv, CacheInv
    <2>3. CASE x = t.slug /\ cache'[x] = t /\ (t.conn # NoConn \/ t.conf.db = NoDB)
      BY <1>3, <2>3 DEF Alike
    <2>4. QED
      BY <1>7, <2>2, <2>3
  <1>9. PoolInv'
    BY <1>2, <1>4 DEF SeqInv, PoolInv, Serves
  <1>10. ASSUME NEW g \in Handlers
         PROVE  Agrees(req[g])'
    <2>1. g = h
      BY DEF Sequential
    <2>2. QED
      BY <1>5, <1>6, <2>1 DEF Agrees, Unsettled
  <1>11. QED
    BY <1>8, <1>9, <1>10 DEF SeqInv

\* The settings to write, read and merged: nobody else writes any.
LEMMA SeqRead ==
    ASSUME SeqInv, TypeOK', Sequential, NEW h \in Handlers,
           Read(h) \/ \E rest \in Rest : ImportSettings(h, rest)
    PROVE  SeqInv'
  <1> DEFINE r == req[h]
  <1>0. Agrees(r) /\ Shaped(r)
    BY ShapedReq DEF SeqInv
  <1>1. CASE Read(h)
    <2> DEFINE t == [tenant[r.slug] EXCEPT !.conf = r.conf]
               q == [step |-> "write", slug |-> r.slug, by |-> r.by, seen |-> r.seen,
                     new |-> t, tell |-> r.tell]
    <2>1. r.slug \in Slugs /\ r.conf \in Settings
      BY <1>0, <1>1 DEF Read, Shaped
    <2>2. tenant[r.slug] # NoTenant /\ Enough(r.tell, tenant[r.slug].conf, r.conf)
      BY <1>0, <1>1 DEF Read, Agrees
    <2>3. t.conf = r.conf
      BY <2>1, <2>2, TenantFields DEF SeqInv
    <2>4. Resume(h, q)
      BY <1>1, <2>2 DEF Read
    <2> HIDE DEF t
    <2>5. Agrees(q)
      BY <2>2, <2>3 DEF Agrees, Unsettled
    <2> HIDE DEF q
    <2>6. QED
      BY <1>1, <2>4, <2>5, SeqResume DEF Read, Unsettled
  <1>2. ASSUME NEW rest \in Rest, ImportSettings(h, rest)
        PROVE  SeqInv'
    <2> DEFINE old == tenant[r.slug].conf
               new == [old EXCEPT !.rest = rest]
               q   == [step |-> "read", slug |-> r.slug, by |-> "import", seen |-> old,
                       conf |-> new, tell |-> "none"]
    <2>1. tenant[r.slug] # NoTenant /\ tenant[r.slug].id = r.id /\ r.slug \in Slugs
      BY <1>0, <1>2 DEF ImportSettings, Shaped, Agrees
    <2>2. old \in Settings
      BY <2>1, TenantFields DEF SeqInv
    <2>3. Resume(h, q)
      BY <1>2, <2>1 DEF ImportSettings
    <2>4. Enough("none", old, new)
      BY <2>2 DEF Enough, Alike, Settings
    <2> HIDE DEF new
    <2>5. Agrees(q)
      BY <2>1, <2>4 DEF Agrees, Unsettled
    <2> HIDE DEF q
    <2>6. QED
      BY <1>2, <2>3, <2>5, SeqResume DEF ImportSettings, Unsettled
  <1>3. QED
    BY <1>1, <1>2

\* Between the write and the word to the manager only this slug is in doubt.
LEMMA SeqWrite ==
    ASSUME SeqInv, TypeOK', Sequential, NEW h \in Handlers, Write(h)
    PROVE  SeqInv'
  <1> DEFINE r   == req[h]
             old == tenant[r.slug].conf
             new == r.new.conf
  <1>1. r.slug \in Slugs /\ r.new \in Tenant /\ r.tell \in Notices
    BY ShapedReq DEF SeqInv, Write, Shaped
  <1>2. \A x : Told(x)
    BY Alone DEF Write, Unsettled
  <1>3. tenant[r.slug] # NoTenant /\ Enough(r.tell, old, new)
    BY DEF SeqInv, Agrees, Write
  <1>4. /\ tenant'[r.slug] = r.new /\ r.new # NoTenant
        /\ \A x \in Slugs \ {r.slug} : tenant'[x] = tenant[x]
    BY <1>1, <1>3, ConstantsAssumption DEF Write, SeqInv, TypeOK
  <1>5. UNCHANGED <<cache, pool, conn>>
    BY DEF Write
  <1>6. CASE r.tell = "none"
    <2>1. req'[h] = Idle
      BY <1>3, <1>6, ResumeOne DEF SeqInv, Write
    <2>2. Alike(old, new)
      BY <1>3, <1>6 DEF Enough
    <2>3. CacheInv'
      <3>1. SUFFICES ASSUME NEW x \in Slugs, cache[x] # NoTDA
                     PROVE  /\ cache[x].slug = x
                            /\ cache[x].conf.db # NoDB
                                 => Serves(conn, cache[x].conn, x, cache[x].conf.db)
                            /\ tenant'[x] # NoTenant
                            /\ Alike(cache[x].conf, tenant'[x].conf)
        BY <1>5 DEF CacheInv, Serves, Alike
      <3>2. /\ cache[x].slug = x
            /\ cache[x].conf.db # NoDB
                 => Serves(conn, cache[x].conn, x, cache[x].conf.db)
            /\ tenant[x] # NoTenant /\ Alike(cache[x].conf, tenant[x].conf)
        BY <1>2, <3>1 DEF SeqInv, CacheInv
      <3>3. Alike(cache[x].conf, tenant'[x].conf)
        BY <1>4, <2>2, <3>2 DEF Alike
      <3>4. QED
        BY <1>4, <3>2, <3>3
    <2>4. PoolInv'
      BY <1>2, <1>4, <1>5, <2>2 DEF SeqInv, PoolInv, Serves, Alike
    <2>5. ASSUME NEW g \in Handlers
          PROVE  Agrees(req[g])'
      <3>1. g = h
        BY DEF Sequential
      <3>2. QED
        BY <2>1, <3>1 DEF Agrees, Idle, Unsettled
    <2>6. QED
      BY <2>3, <2>4, <2>5 DEF SeqInv
  <1>7. CASE r.tell # "none"
    <2>1. req'[h] = [step |-> r.tell, slug |-> r.slug]
      BY <1>3, <1>7, ResumeOne DEF SeqInv, Write
    <2>2. r.tell \in {"refresh", "bootstrap"}
      BY <1>1, <1>7 DEF Notices
    <2>3. \A x : Told(x)' => x # r.slug
      BY <2>1, <2>2 DEF Told, Unsettled
    <2>4. CacheInv'
      BY <1>2, <1>4, <1>5, <2>3 DEF SeqInv, CacheInv, Serves
    <2>5. PoolInv'
      BY <1>2, <1>4, <1>5, <2>3 DEF SeqInv, PoolInv, Serves
    <2>6. r.tell = "bootstrap" /\ pool[r.slug] # NoConn => conn[pool[r.slug]].db = new.db
      BY <1>1, <1>2, <1>3 DEF SeqInv, PoolInv, Enough
    <2>7. ASSUME NEW g \in Handlers
          PROVE  Agrees(req[g])'
      <3>1. g = h
        BY DEF Sequential
      <3>2. QED
        BY <1>4, <1>5, <2>1, <2>2, <2>6, <3>1 DEF Agrees, Unsettled
    <2>8. QED
      BY <2>4, <2>5, <2>7 DEF SeqInv
  <1>8. QED
    BY <1>6, <1>7

\* The refresh forgets the entry, then the pool's connection, then closes it.
LEMMA SeqRefresh ==
    ASSUME SeqInv, TypeOK', Sequential, NEW h \in Handlers,
           Refresh(h) \/ PoolClose(h) \/ ConnClose(h)
    PROVE  SeqInv'
  <1> DEFINE s == req[h].slug
  <1>1. s \in Slugs /\ Shaped(req[h])
    BY ShapedReq DEF SeqInv, Refresh, PoolClose, ConnClose, Shaped
  <1>2. \A x : x # s => Told(x)
    BY Alone
  <1>3. tenant[s] # NoTenant
    BY DEF SeqInv, Agrees, Refresh, PoolClose, ConnClose, Unsettled
  <1>4. ASSUME NEW q, Resume(h, q), q.slug = s,
               q.step \in {"close", "closing", "bootstrap"}, Agrees(q)'
        PROVE  /\ \A x : Told(x)' => x # s
               /\ \A g \in Handlers : Agrees(req[g])'
    <2>1. req'[h] = q
      BY <1>4, ResumeOne DEF SeqInv
    <2>2. \A g \in Handlers : g = h
      BY DEF Sequential
    <2>3. QED
      BY <1>4, <2>1, <2>2 DEF Told, Agrees, Unsettled
  <1>5. CASE Refresh(h)
    <2>1. PICK q : Resume(h, q) /\ q.step = "close" /\ q.slug = s
      <3>1. Resume(h, [step |-> "close", slug |-> s])
        BY <1>1, <1>5 DEF Refresh, Shaped
      <3>2. QED
        BY <3>1
    <2>2. /\ cache'[s] = NoTDA
          /\ \A x \in Slugs \ {s} : cache'[x] = cache[x]
          /\ UNCHANGED <<tenant, pool, conn>>
      BY <1>1, <1>5 DEF Refresh, SeqInv, TypeOK, Keys
    <2>3. Agrees(q)'
      BY <1>3, <2>1, <2>2 DEF Agrees, Unsettled
    <2>4. /\ \A x : Told(x)' => x # s
          /\ \A g \in Handlers : Agrees(req[g])'
      BY <1>4, <2>1, <2>3
    <2>5. CacheInv'
      BY <1>2, <2>2, <2>4 DEF SeqInv, CacheInv, Serves
    <2>6. PoolInv'
      BY <1>2, <2>2, <2>4 DEF SeqInv, PoolInv, Serves
    <2>7. QED
      BY <2>4, <2>5, <2>6 DEF SeqInv
  <1>6. CASE PoolClose(h)
    <2>1. cache[s] = NoTDA
      BY <1>6 DEF SeqInv, Agrees, PoolClose
    <2>2. /\ pool'[s] = NoConn
          /\ \A x \in Slugs \ {s} : pool'[x] = pool[x]
          /\ UNCHANGED <<tenant, cache, conn>>
      BY <1>1, <1>6 DEF PoolClose, SeqInv, TypeOK
    <2>3. PICK q : /\ Resume(h, q) /\ q.slug = s /\ q.step \in {"closing", "bootstrap"}
                   /\ q.step = "closing" => q.conn = pool[s] /\ pool[s] # NoConn
      <3>1. CASE pool[s] = NoConn
        BY <1>6, <3>1 DEF PoolClose
      <3>2. CASE pool[s] # NoConn
        BY <1>6, <3>2 DEF PoolClose
      <3>3. QED
        BY <3>1, <3>2
    <2>4. q.step = "closing" => conn[q.conn].slug = s
      <3>1. \A d, e : Serves(conn, d, s, e) => conn[d].slug = s
        BY DEF Serves
      <3>2. QED
        BY <1>1, <2>3, <3>1 DEF SeqInv, PoolInv
    <2>5. Agrees(q)'
      BY <1>3, <2>1, <2>2, <2>3, <2>4 DEF Agrees, Unsettled
    <2>6. /\ \A x : Told(x)' => x # s
          /\ \A g \in Handlers : Agrees(req[g])'
      BY <1>4, <2>3, <2>5
    <2>7. CacheInv'
      BY <1>2, <2>1, <2>2 DEF SeqInv, CacheInv, Serves
    <2>8. PoolInv'
      BY <1>2, <2>2 DEF SeqInv, PoolInv, Serves
    <2>9. QED
      BY <2>6, <2>7, <2>8 DEF SeqInv
  <1>7. CASE ConnClose(h)
    <2> DEFINE c == req[h].conn
    <2>1. c \in Conns
      BY <1>1, <1>7 DEF Shaped, ConnClose
    <2>2. cache[s] = NoTDA /\ pool[s] = NoConn /\ conn[c].slug = s
      BY <1>7 DEF SeqInv, Agrees, ConnClose
    <2>3. UNCHANGED <<tenant, cache, pool>>
      BY <1>7 DEF ConnClose
    <2>4. PICK q : Resume(h, q) /\ q.step = "bootstrap" /\ q.slug = s
      BY <1>7 DEF ConnClose
    <2>5. ASSUME NEW d, NEW x, x # s, NEW e, Serves(conn, d, x, e)
          PROVE  Serves(conn', d, x, e) /\ conn'[d] = conn[d]
      <3>1. conn[d].slug = x
        BY <2>5 DEF Serves
      <3>2. conn'[d] = conn[d]
        BY <1>7, <2>1, <2>2, <2>5, <3>1 DEF ConnClose, SeqInv, TypeOK, Serves
      <3>3. QED
        BY <2>5, <3>2 DEF Serves
    <2>6. Agrees(q)'
      BY <1>3, <2>2, <2>3, <2>4 DEF Agrees, Unsettled
    <2>7. /\ \A x : Told(x)' => x # s
          /\ \A g \in Handlers : Agrees(req[g])'
      BY <1>4, <2>6, <2>4
    <2>8. CacheInv'
      <3>1. SUFFICES ASSUME NEW x \in Slugs, cache[x] # NoTDA
                     PROVE  /\ cache[x].slug = x
                            /\ cache[x].conf.db # NoDB
                                 => Serves(conn', cache[x].conn, x, cache[x].conf.db)
                            /\ tenant[x] # NoTenant /\ Alike(cache[x].conf, tenant[x].conf)
        BY <2>3 DEF CacheInv, Serves
      <3>2. x # s
        BY <2>2, <3>1
      <3>3. QED
        BY <1>2, <2>5, <3>1, <3>2 DEF SeqInv, CacheInv
    <2>9. PoolInv'
      <3>1. SUFFICES ASSUME NEW x \in Slugs, pool[x] # NoConn
                     PROVE  /\ Serves(conn', pool[x], x, conn'[pool[x]].db)
                            /\ conn'[pool[x]].db # NoDB
                            /\ tenant[x] # NoTenant /\ conn'[pool[x]].db = tenant[x].conf.db
        BY <2>3 DEF PoolInv, Serves
      <3>2. x # s
        BY <2>2, <3>1
      <3>3. /\ Serves(conn, pool[x], x, conn[pool[x]].db) /\ conn[pool[x]].db # NoDB
            /\ tenant[x] # NoTenant /\ conn[pool[x]].db = tenant[x].conf.db
        BY <1>2, <3>1, <3>2 DEF SeqInv, PoolInv
      <3>4. QED
        BY <2>5, <3>2, <3>3
    <2>10. QED
      BY <2>7, <2>8, <2>9 DEF SeqInv
  <1>8. QED
    BY <1>5, <1>6, <1>7

\* The manager has been told: nothing of the old settings is left.
LEMMA SeqBootstrap ==
    ASSUME SeqInv, TypeOK', Sequential, NEW h \in Handlers, Bootstrap(h)
    PROVE  SeqInv'
  <1> DEFINE s == req[h].slug
  <1>1. s \in Slugs
    BY ShapedReq DEF SeqInv, Bootstrap, Shaped
  <1>2. \A x : x # s => Told(x)
    BY Alone
  <1>3. /\ tenant[s] # NoTenant
        /\ pool[s] # NoConn => conn[pool[s]].db = tenant[s].conf.db
    BY DEF SeqInv, Agrees, Bootstrap, Unsettled
  <1>4. UNCHANGED <<tenant, pool, conn>>
    BY DEF Bootstrap
  <1>5. /\ cache'[s] = NoTDA
        /\ \A x \in Slugs \ {s} : cache'[x] = cache[x]
    BY <1>1 DEF Bootstrap, SeqInv, TypeOK, Keys
  <1>6. req'[h] = [step |-> "lookup", slug |-> s]
    BY ResumeOne DEF SeqInv, Bootstrap
  <1>7. CacheInv'
    BY <1>2, <1>4, <1>5 DEF SeqInv, CacheInv, Serves
  <1>8. PoolInv'
    BY <1>2, <1>3, <1>4 DEF SeqInv, PoolInv, Serves
  <1>9. ASSUME NEW g \in Handlers
        PROVE  Agrees(req[g])'
    <2>1. g = h
      BY DEF Sequential
    <2>2. QED
      BY <1>6, <2>1 DEF Agrees, Unsettled
  <1>10. QED
    BY <1>7, <1>8, <1>9 DEF SeqInv

LEMMA EntriesHold ==
    ASSUME Operations \subseteq {"settings", "import"}, \A h, g \in Handlers : h = g
    PROVE  Spec => [](SlugEntryCurrent /\ SlugEntryUsable)
  <1>0. Sequential
    BY DEF Sequential
  <1>1. Init => SeqInv
    BY InitType DEF Init, SeqInv, CacheInv, PoolInv, Agrees, Idle, Keys, Unsettled
  <1>2. SeqInv /\ [Next]_vars => SeqInv'
    <2>1. SUFFICES ASSUME SeqInv, [Next]_vars
                   PROVE  SeqInv'
      OBVIOUS
    <2>2. TypeOK'
      BY <2>1, NextType DEF SeqInv
    <2>3. CASE UNCHANGED vars
      <3>1. UNCHANGED <<tenant, cache, pool, conn, req>>
        BY <2>3 DEF vars
      <3>2. CacheInv'
        BY <2>1, <3>1 DEF SeqInv, CacheInv, Told, Serves
      <3>3. PoolInv'
        BY <2>1, <3>1 DEF SeqInv, PoolInv, Told, Serves
      <3>4. \A h \in Handlers : Agrees(req[h])'
        BY <2>1, <3>1 DEF SeqInv, Agrees, Serves
      <3>5. QED
        BY <2>2, <3>2, <3>3, <3>4 DEF SeqInv
    <2>4. ASSUME NEW h \in Handlers, Begin(h) \/ Continue(h)
          PROVE  SeqInv'
      BY <1>0, <2>1, <2>2, <2>4, SeqBegin, SeqLookup, SeqDial, SeqStore, SeqRead,
         SeqWrite, SeqRefresh, SeqBootstrap DEF Continue
    <2>5. QED
      BY <2>1, <2>3, <2>4 DEF Next
  <1>3. SeqInv => SlugEntryCurrent /\ SlugEntryUsable
    <2>1. \A s : Settled(s) => Told(s)
      BY DEF Settled, Told, Unsettled
    <2>2. QED
      BY <2>1, ConstantsAssumption
         DEF SeqInv, CacheInv, Serves, Alike, SlugEntryCurrent, SlugEntryUsable
  <1>4. QED
    BY <1>1, <1>2, <1>3, PTL DEF Spec

(***************************************************************************)
(* SlugEntryCurrent: as long as requests, changes of settings and imports  *)
(* come one after the other, a tenant's entry in the cache has the         *)
(* database of its file, and the user fields with it, whatever fails to    *)
(* connect.                                                                *)
(***************************************************************************)
THEOREM EntriesCurrent ==
    ASSUME Operations \subseteq {"settings", "import"}, \A h, g \in Handlers : h = g
    PROVE  Spec => []SlugEntryCurrent
  BY EntriesHold, PTL

(***************************************************************************)
(* SlugEntryUsable: and it has a connection, which is open and to that     *)
(* database.                                                               *)
(***************************************************************************)
THEOREM EntriesUsable ==
    ASSUME Operations \subseteq {"settings", "import"}, \A h, g \in Handlers : h = g
    PROVE  Spec => []SlugEntryUsable
  BY EntriesHold, PTL

=============================================================================
