---------------------------- MODULE KeyStoreProof ----------------------------
(***************************************************************************)
(* Invariants of KeyStore, proved for every set of directories, keys and   *)
(* requests, with and without faults.                                      *)
(***************************************************************************)
EXTENDS KeyStore, TLAPS

-----------------------------------------------------------------------------
(* Types                                                                    *)

\* A request's fields, by its step.
LEMMA Fields ==
    ASSUME NEW r \in Request
    PROVE  /\ r.step \in {"retire", "activate"} => r \in Rotation
           /\ r.step = "remove" => r \in Removal
           /\ r.step = "stuck" => r \in Waiting
  BY DEF Request, Idle, Rotation, Waiting, Removal

LEMMA ResumeType ==
    ASSUME TypeOK, NEW h \in Handlers, NEW r \in Request, Resume(h, r)
    PROVE  req' \in [Handlers -> Request]
  BY DEF TypeOK, Resume

LEMMA FinishType ==
    ASSUME TypeOK, NEW h \in Handlers, Finish(h)
    PROVE  req' \in [Handlers -> Request] /\ lock' \in Handlers \cup {None}
  BY ResumeType DEF TypeOK, Finish, Request

LEMMA JWKSType ==
    ASSUME TypeOK, NEW d \in Dirs
    PROVE  JWKS(d) \subseteq Kids
  <1>1. Global \in Dirs
    BY DEF Dirs
  <1>2. \A e \in Dirs : ({active[e]} \ {NoKey}) \subseteq Kids /\ Retiring(e) \subseteq Kids
    <2>1. ASSUME NEW e \in Dirs, InGrace(retiring[e])
          PROVE  retiring[e].kid \in Kids
      BY <2>1 DEF TypeOK, InGrace, Retired
    <2>2. QED
      BY <2>1 DEF TypeOK, Retiring
  <1>3. QED
    BY <1>1, <1>2 DEF JWKS

LEMMA AdminType ==
    ASSUME TypeOK, NEW h \in Handlers, Admin(h)
    PROVE  TypeOK'
  <1>1. ASSUME NEW d \in Dirs, NEW i \in Instances, NEW g \in Graces, RotateStart(h, d, i, g)
        PROVE  TypeOK'
    <2>1. g \in {"timed", "zero"}
      BY ConstantsAssumption
    <2>2. active[d] # NoKey =>
            [step |-> "retire", dir |-> d, grace |-> g,
             shared |-> i = "shared", cur |-> active[d]] \in Request
      BY <2>1 DEF TypeOK, Request, Rotation
    <2>3. [step |-> "stuck", dir |-> d, shared |-> i = "shared"] \in Request
      BY DEF Request, Waiting
    <2>4. \E r \in Request : Resume(h, r)
      BY <1>1, <2>2, <2>3 DEF RotateStart
    <2>5. lock' \in Handlers \cup {None}
      BY <1>1 DEF RotateStart, TypeOK
    <2>6. QED
      BY <1>1, <2>4, <2>5, ResumeType DEF RotateStart, TypeOK, files, caches, history
  <1>2. CASE SaveRetiring(h)
    <2>1. req[h] \in Rotation
      BY <1>2, Fields DEF SaveRetiring, TypeOK
    <2>2. [req[h] EXCEPT !.step = "activate"] \in Request
      BY <2>1 DEF Rotation, Request
    <2>3. [kid |-> req[h].cur, grace |-> req[h].grace] \in Retired
      BY <2>1 DEF Rotation, Retired
    <2>4. retiring' \in [Dirs -> Retired \cup {NoFile}]
      BY <1>2, <2>3 DEF SaveRetiring, TypeOK
    <2>5. QED
      BY <1>2, <2>2, <2>4, ResumeType DEF SaveRetiring, TypeOK, caches, history
  <1>3. ASSUME NEW k \in Kids, SaveActive(h, k)
        PROVE  TypeOK'
    <2>1. req[h].dir \in Dirs
      BY <1>3, Fields DEF SaveActive, TypeOK, Rotation
    <2>2. active' \in [Dirs -> Kids \cup {NoKey}] /\ minted' \subseteq Kids
      BY <1>3 DEF SaveActive, TypeOK
    <2>3. replaced' \in [Dirs -> SUBSET Kids]
      BY <1>3, <2>1 DEF SaveActive, TypeOK
    <2>4. QED
      BY <1>3, <2>2, <2>3, FinishType DEF SaveActive, TypeOK, caches
  <1>4. ASSUME NEW k \in Kids, RevokeFind(h, k)
        PROVE  TypeOK'
    <2>1. \A d \in Dirs, f \in {"active", "retiring"} :
             [step |-> "remove", dir |-> d, file |-> f, kid |-> k] \in Request
      BY DEF Request, Removal
    <2>2. \E r \in Request : Resume(h, r)
      BY <1>4, <2>1 DEF RevokeFind
    <2>3. QED
      BY <1>4, <2>2, ResumeType DEF RevokeFind, TypeOK, files, caches, history
  <1>5. CASE WriteFails(h)
    <2>1. active' \in [Dirs -> Kids \cup {NoKey}]
      BY <1>5 DEF WriteFails, TypeOK, files
    <2>2. retiring' \in [Dirs -> Retired \cup {NoFile}]
      BY <1>5 DEF WriteFails, TypeOK, files
    <2>3. QED
      BY <1>5, <2>1, <2>2, FinishType DEF WriteFails, TypeOK, caches, history
  <1>6. CASE RevokeRemove(h)
    <2>1. req[h].kid \in Kids
      BY <1>6, Fields DEF RevokeRemove, TypeOK, Removal
    <2>2. /\ active' \in [Dirs -> Kids \cup {NoKey}]
          /\ retiring' \in [Dirs -> Retired \cup {NoFile}]
          /\ revoked' \subseteq Kids
      BY <1>6, <2>1 DEF RevokeRemove, TypeOK
    <2>3. Idle \in Request
      BY DEF Request
    <2>4. QED
      BY <1>6, <2>2, <2>3, ResumeType DEF RevokeRemove, TypeOK, caches
  <1>7. QED
    BY <1>1, <1>2, <1>3, <1>4, <1>5, <1>6 DEF Admin

LEMMA InitType == Init => TypeOK
  <1> SUFFICES ASSUME Init
               PROVE  TypeOK
    OBVIOUS
  <1>1. minted \subseteq Kids
    BY ConstantsAssumption DEF Init
  <1>2. [d \in Dirs |-> NoFile] \in [Dirs -> Retired \cup {NoFile}]
    OBVIOUS
  <1>3. Idle \in Request /\ Empty \in Cached
    BY DEF Request, Empty, Cached
  <1>4. QED
    BY <1>1, <1>2, <1>3 DEF Init, TypeOK

\* Signing, publishing, the clock and a restart.
LEMMA ServerType ==
    ASSUME TypeOK, Next, \A h \in Handlers : ~Admin(h)
    PROVE  TypeOK'
  <1> USE DEF files, caches, history
  <1>1. ASSUME NEW d \in Dirs, ServeJWKS(d)
        PROVE  TypeOK'
    <2>1. [keys |-> JWKS(d), fresh |-> TRUE] \in Cached
      BY JWKSType DEF Cached
    <2>2. [keys |-> lastJWKS.keys, fresh |-> TRUE] \in Cached
      BY DEF TypeOK, Cached
    <2>3. page' \in [Dirs -> Cached]
      BY <1>1, <2>1, <2>2 DEF ServeJWKS, TypeOK
    <2>4. lastJWKS' \in Cached
      BY <1>1, <2>3 DEF ServeJWKS, TypeOK
    <2>5. QED
      BY <1>1, <2>3, <2>4 DEF ServeJWKS, TypeOK
  <1>2. ASSUME NEW d \in Dirs, PageAges(d)
        PROVE  TypeOK'
    <2>1. [page[d] EXCEPT !.fresh = FALSE] \in Cached
      BY DEF TypeOK, Cached
    <2>2. QED
      BY <1>2, <2>1 DEF PageAges, TypeOK
  <1>3. ASSUME NEW k \in Kids, GraceEnds(k)
        PROVE  TypeOK'
    BY <1>3 DEF GraceEnds, TypeOK
  <1>4. ASSUME NEW k \in Kids, Restart(k)
        PROVE  TypeOK'
    <2>1. Idle \in Request /\ Empty \in Cached
      BY DEF Request, Empty, Cached
    <2>2. active' \in [Dirs -> Kids \cup {NoKey}] /\ minted' \subseteq Kids
      BY <1>4 DEF Restart, TypeOK
    <2>3. QED
      BY <1>4, <2>1, <2>2 DEF Restart, TypeOK
  <1>5. CASE SignGlobal
    <2>1. active[Global] \in Kids \cup {NoKey}
      BY DEF TypeOK, Dirs
    <2>2. QED
      BY <1>5, <2>1 DEF SignGlobal, TypeOK
  <1>6. CASE SignerAges
    BY <1>6 DEF SignerAges, TypeOK
  <1>7. CASE LastJWKSAges
    BY <1>7 DEF LastJWKSAges, TypeOK, Cached
  <1>8. QED
    BY <1>1, <1>2, <1>3, <1>4, <1>5, <1>6, <1>7 DEF Next

LEMMA StutterType ==
    ASSUME TypeOK, UNCHANGED vars
    PROVE  TypeOK'
  BY DEF TypeOK, vars, files, caches, history

\* Every variable keeps its type, whatever requests, faults and restarts do.
THEOREM TypeCorrect == Spec => []TypeOK
  <1>1. TypeOK /\ [Next]_vars => TypeOK'
    BY AdminType, ServerType, StutterType
  <1>2. QED
    BY <1>1, InitType, PTL DEF Spec

-----------------------------------------------------------------------------
(* A revoked key stays inactive                                             *)

\* Every key in a file or in the hands of a rotation was generated.
Generated ==
    /\ \A d \in Dirs : active[d] \in minted \cup {NoKey}
    /\ \A d \in Dirs : retiring[d].kid \in minted \cup {NoKey}
    /\ \A h \in Handlers : req[h].step \in {"retire", "activate"} => req[h].cur \in minted

\* No two directories sign with one key.
Unshared ==
    \A d, e \in Dirs : active[d] = active[e] /\ active[d] # NoKey => d = e

\* The key a revocation is about to remove signs at most in the file it will
\* remove.
Found(h) ==
    req[h].step = "remove" =>
        /\ req[h].kid \in minted
        /\ \A e \in Dirs : active[e] = req[h].kid => req[h].file = "active" /\ req[h].dir = e

\* The inductive invariant: revoked keys were generated, so no new key is one
\* of them, and no step but a new key's makes a key active.
RevokeInv ==
    /\ TypeOK
    /\ Generated
    /\ Unshared
    /\ \A h \in Handlers : Found(h)
    /\ revoked \subseteq minted
    /\ RevokedStaysInactive

\* What every step does to the active keys: it keeps, removes, or installs a
\* key that was never generated before.
Installs(d, new) ==
    /\ active' = [active EXCEPT ![d] = new]
    /\ new \in Kids \ minted
    /\ minted' = minted \cup {new}

Removes ==
    /\ active' \in [Dirs -> Kids \cup {NoKey}]
    /\ \A d \in Dirs : active'[d] \in {active[d], NoKey}
    /\ minted' = minted

LEMMA FoundKept ==
    ASSUME RevokeInv, NEW h \in Handlers,
           Removes \/ \E d \in Dirs, new \in Kids : Installs(d, new),
           req'[h] = req[h] \/ req'[h] = Idle
    PROVE  Found(h)'
  <1>1. CASE req'[h] = Idle
    BY <1>1 DEF Found, Idle
  <1>2. CASE req'[h] = req[h] /\ Removes
    <2>1. req[h].step = "remove" => req[h] \in Removal
      BY Fields DEF RevokeInv, TypeOK
    <2>2. NoKey \notin Kids
      BY ConstantsAssumption
    <2>3. QED
      BY <1>2, <2>1, <2>2 DEF RevokeInv, TypeOK, Found, Removes, Removal
  <1>3. ASSUME NEW d \in Dirs, NEW new \in Kids, Installs(d, new), req'[h] = req[h]
        PROVE  Found(h)'
    BY <1>3 DEF RevokeInv, TypeOK, Found, Installs
  <1>4. QED
    BY <1>1, <1>2, <1>3

LEMMA KeysKept ==
    ASSUME RevokeInv,
           Removes \/ \E d \in Dirs, new \in Kids : Installs(d, new)
    PROVE  /\ \A d \in Dirs : active'[d] \in minted' \cup {NoKey}
           /\ Unshared'
           /\ revoked' = revoked => (revoked \subseteq minted /\ RevokedStaysInactive)'
           /\ minted \subseteq minted'
  <1>1. NoKey \notin Kids
    BY ConstantsAssumption
  <1>2. CASE Removes
    BY <1>1, <1>2 DEF RevokeInv, TypeOK, Generated, Unshared, RevokedStaysInactive, Removes
  <1>3. ASSUME NEW d \in Dirs, NEW new \in Kids, Installs(d, new)
        PROVE  /\ \A e \in Dirs : active'[e] \in minted' \cup {NoKey}
               /\ Unshared'
               /\ revoked' = revoked => (revoked \subseteq minted /\ RevokedStaysInactive)'
               /\ minted \subseteq minted'
    <2>1. \A e \in Dirs : active'[e] = IF e = d THEN new ELSE active[e]
      BY <1>3 DEF RevokeInv, TypeOK, Installs
    <2>2. \A e \in Dirs : active[e] # new
      BY <1>1, <1>3 DEF RevokeInv, Generated, Installs
    <2>3. \A e \in Dirs : active'[e] \in minted' \cup {NoKey}
      BY <1>3, <2>1 DEF RevokeInv, Generated, Installs
    <2>4. Unshared'
      BY <2>1, <2>2 DEF RevokeInv, Unshared
    <2>5. QED
      BY <1>3, <2>1, <2>3, <2>4 DEF RevokeInv, RevokedStaysInactive, Installs
  <1>4. QED
    BY <1>2, <1>3

\* One request moves on: what is left to show is about that request, the
\* retiring files and the revoked keys.
LEMMA OneMoves ==
    ASSUME RevokeInv, TypeOK', NEW h \in Handlers, NEW r \in Request, Resume(h, r),
           Removes \/ \E d \in Dirs, new \in Kids : Installs(d, new),
           \A d \in Dirs : retiring'[d].kid \in minted \cup {NoKey},
           r.step \in {"retire", "activate"} => r.cur \in minted,
           r.step # "remove" \/ Found(h)',
           revoked' = revoked \/ (revoked \subseteq minted /\ RevokedStaysInactive)'
    PROVE  RevokeInv'
  <1>1. /\ \A d \in Dirs : active'[d] \in minted' \cup {NoKey}
        /\ Unshared'
        /\ (revoked \subseteq minted /\ RevokedStaysInactive)'
        /\ minted \subseteq minted'
    BY KeysKept
  <1>2. req'[h] = r /\ \A g \in Handlers \ {h} : req'[g] = req[g]
    BY DEF RevokeInv, TypeOK, Resume
  <1>3. Generated'
    BY <1>1, <1>2 DEF RevokeInv, Generated
  <1>4. \A g \in Handlers : Found(g)'
    <2>1. ASSUME NEW g \in Handlers \ {h}
          PROVE  Found(g)'
      BY <1>2, FoundKept
    <2>2. Found(h)'
      BY <1>2 DEF Found
    <2>3. QED
      BY <2>1, <2>2
  <1>5. QED
    BY <1>1, <1>3, <1>4 DEF RevokeInv

LEMMA RevokeAdmin ==
    ASSUME RevokeInv, NEW h \in Handlers, Admin(h)
    PROVE  RevokeInv'
  <1> USE DEF files, caches, history
  <1>1. TypeOK /\ TypeOK'
    BY AdminType DEF RevokeInv
  <1>2. Idle \in Request /\ Idle.step = "idle"
    BY DEF Request, Idle
  <1>3. UNCHANGED <<active, minted>> => Removes
    BY <1>1 DEF TypeOK, Removes
  <1>4. ASSUME NEW d \in Dirs, NEW i \in Instances, NEW g \in Graces, RotateStart(h, d, i, g)
        PROVE  RevokeInv'
    <2>1. UNCHANGED <<active, retiring, minted, revoked>>
      BY <1>4 DEF RotateStart
    <2>2. CASE active[d] # NoKey
      <3> DEFINE r == [step |-> "retire", dir |-> d, grace |-> g,
                       shared |-> i = "shared", cur |-> active[d]]
      <3>1. r \in Request
        BY <1>1, <2>2, ConstantsAssumption DEF TypeOK, Request, Rotation
      <3>2. Resume(h, r)
        BY <1>4, <2>2 DEF RotateStart
      <3>3. r.cur \in minted
        BY <2>2 DEF RevokeInv, Generated
      <3>4. \A e \in Dirs : retiring'[e].kid \in minted \cup {NoKey}
        BY <2>1 DEF RevokeInv, Generated
      <3>5. r.step # "remove"
        OBVIOUS
      <3> HIDE DEF r
      <3>6. QED
        BY <1>1, <1>3, <2>1, <3>1, <3>2, <3>3, <3>4, <3>5, OneMoves
    <2>3. CASE active[d] = NoKey
      <3> DEFINE r == [step |-> "stuck", dir |-> d, shared |-> i = "shared"]
      <3>1. r \in Request
        BY DEF Request, Waiting
      <3>2. Resume(h, r)
        BY <1>4, <2>3 DEF RotateStart
      <3>3. \A e \in Dirs : retiring'[e].kid \in minted \cup {NoKey}
        BY <2>1 DEF RevokeInv, Generated
      <3>4. r.step = "stuck"
        OBVIOUS
      <3> HIDE DEF r
      <3>5. QED
        BY <1>1, <1>3, <2>1, <3>1, <3>2, <3>3, <3>4, OneMoves
    <2>4. QED
      BY <2>2, <2>3
  <1>5. CASE SaveRetiring(h)
    <2>1. req[h] \in Rotation /\ req[h].cur \in minted
      BY <1>1, <1>5, Fields DEF SaveRetiring, RevokeInv, TypeOK, Generated
    <2>2. PICK r : r = [req[h] EXCEPT !.step = "activate"]
      OBVIOUS
    <2>3. r \in Request /\ r.step = "activate" /\ r.cur = req[h].cur
      BY <2>1, <2>2 DEF Rotation, Request
    <2>4. Resume(h, r) /\ UNCHANGED <<active, minted, revoked>>
      BY <1>5, <2>2 DEF SaveRetiring
    <2>5. \A e \in Dirs : retiring'[e].kid \in minted \cup {NoKey}
      BY <1>1, <1>5, <2>1 DEF SaveRetiring, RevokeInv, TypeOK, Generated
    <2>6. QED
      BY <1>1, <1>3, <2>1, <2>3, <2>4, <2>5, OneMoves
  <1>6. ASSUME NEW k \in Kids, SaveActive(h, k)
        PROVE  RevokeInv'
    <2>1. req[h].dir \in Dirs
      BY <1>1, <1>6, Fields DEF SaveActive, TypeOK, Rotation
    <2>2. Installs(req[h].dir, k) /\ Resume(h, Idle) /\ UNCHANGED <<retiring, revoked>>
      BY <1>6 DEF SaveActive, Installs, Finish
    <2>3. \A e \in Dirs : retiring'[e].kid \in minted \cup {NoKey}
      BY <2>2 DEF RevokeInv, Generated
    <2>4. QED
      BY <1>1, <1>2, <2>1, <2>2, <2>3, OneMoves
  <1>7. ASSUME NEW k \in Kids, RevokeFind(h, k)
        PROVE  RevokeInv'
    <2>1. UNCHANGED <<active, retiring, minted, revoked>>
      BY <1>7 DEF RevokeFind
    <2>2. \A e \in Dirs : retiring'[e].kid \in minted \cup {NoKey}
      BY <2>1 DEF RevokeInv, Generated
    <2>3. PICK d \in Dirs, f \in {"active", "retiring"} :
             /\ Resume(h, [step |-> "remove", dir |-> d, file |-> f, kid |-> k])
             /\ f = "active" => active[d] = k
             /\ f = "retiring" => retiring[d].kid = k /\ \A e \in Dirs : active[e] # k
      BY <1>7 DEF RevokeFind
    <2>4. PICK r : r = [step |-> "remove", dir |-> d, file |-> f, kid |-> k]
      OBVIOUS
    <2>5. /\ r \in Request /\ r.step = "remove"
          /\ r.dir = d /\ r.file = f /\ r.kid = k
      BY <2>4 DEF Request, Removal
    <2>6. Resume(h, r) /\ req'[h] = r
      BY <1>1, <2>3, <2>4 DEF Resume, TypeOK
    <2>7. k \in minted /\ k # NoKey
      BY <2>3, ConstantsAssumption DEF RevokeInv, Generated
    <2>8. \A e \in Dirs : active[e] = k => f = "active" /\ d = e
      BY <2>3, <2>7 DEF RevokeInv, Unshared
    <2>9. Found(h)'
      BY <2>1, <2>5, <2>6, <2>7, <2>8 DEF Found
    <2>10. QED
      BY <1>1, <1>3, <2>1, <2>2, <2>5, <2>6, <2>9, OneMoves
  <1>8. CASE WriteFails(h)
    <2>1. Removes
      BY <1>1, <1>8 DEF WriteFails, Removes, TypeOK
    <2>2. \A e \in Dirs : retiring'[e].kid \in minted \cup {NoKey}
      <3>1. \A e \in Dirs : retiring'[e] = retiring[e] \/ retiring'[e] = NoFile
        BY <1>1, <1>8 DEF WriteFails, TypeOK
      <3>2. NoFile.kid = NoKey
        BY DEF NoFile
      <3>3. QED
        BY <3>1, <3>2 DEF RevokeInv, Generated
    <2>3. Resume(h, Idle) /\ UNCHANGED revoked
      BY <1>8 DEF WriteFails, Finish
    <2>4. QED
      BY <1>1, <1>2, <2>1, <2>2, <2>3, OneMoves
  <1>9. CASE RevokeRemove(h)
    <2>1. req[h] \in Removal /\ Found(h) /\ req[h].step = "remove"
      BY <1>1, <1>9, Fields DEF RevokeRemove, TypeOK, RevokeInv
    <2>2. Removes
      BY <1>1, <1>9 DEF RevokeRemove, Removes, TypeOK
    <2>3. \A e \in Dirs : retiring'[e].kid \in minted \cup {NoKey}
      <3>1. \A e \in Dirs : retiring'[e] = retiring[e] \/ retiring'[e] = NoFile
        BY <1>1, <1>9 DEF RevokeRemove, TypeOK
      <3>2. NoFile.kid = NoKey
        BY DEF NoFile
      <3>3. QED
        BY <3>1, <3>2 DEF RevokeInv, Generated
    <2>4. req[h].kid \in minted /\ req[h].kid # NoKey
      BY <2>1, ConstantsAssumption DEF Found, Removal
    <2>5. \A e \in Dirs : active'[e] # req[h].kid
      <3>1. ASSUME NEW e \in Dirs, active[e] = req[h].kid
            PROVE  active'[e] = NoKey
        BY <1>1, <1>9, <2>1, <3>1 DEF RevokeRemove, Found, TypeOK
      <3>2. QED
        BY <2>2, <2>4, <3>1 DEF Removes
    <2>6. revoked' \in {revoked, revoked \cup {req[h].kid}}
      BY <1>9 DEF RevokeRemove
    <2>7. (revoked \subseteq minted /\ RevokedStaysInactive)'
      <3>1. revoked \subseteq minted' /\ \A k \in revoked, d \in Dirs : active'[d] # k
        BY <2>2, ConstantsAssumption
           DEF RevokeInv, TypeOK, RevokedStaysInactive, Removes
      <3>2. QED
        BY <2>2, <2>4, <2>5, <2>6, <3>1 DEF RevokedStaysInactive, Removes
    <2>8. Resume(h, Idle)
      BY <1>9 DEF RevokeRemove
    <2>9. QED
      BY <1>1, <1>2, <2>2, <2>3, <2>7, <2>8, OneMoves
  <1>10. QED
    BY <1>4, <1>5, <1>6, <1>7, <1>8, <1>9 DEF Admin

LEMMA RevokeServer ==
    ASSUME RevokeInv, Next, \A h \in Handlers : ~Admin(h)
    PROVE  RevokeInv'
  <1> USE DEF files, caches, history
  <1>1. TypeOK /\ TypeOK'
    BY ServerType DEF RevokeInv
  <1>2. ASSUME UNCHANGED <<active, retiring, minted, req, revoked>>
        PROVE  RevokeInv'
    BY <1>1, <1>2
       DEF RevokeInv, Generated, Unshared, Found, RevokedStaysInactive
  <1>3. ASSUME NEW k \in Kids, Restart(k)
        PROVE  RevokeInv'
    <2>1. Removes \/ Installs(Global, k)
      BY <1>1, <1>3 DEF Restart, Removes, Installs, TypeOK
    <2>2. Global \in Dirs /\ UNCHANGED <<retiring, revoked>>
      BY <1>3 DEF Restart, Dirs
    <2>3. \A h \in Handlers : req'[h] = Idle
      BY <1>3 DEF Restart
    <2>4. \A h \in Handlers : Found(h)'
      BY <2>3 DEF Found, Idle
    <2>5. /\ \A d \in Dirs : active'[d] \in minted' \cup {NoKey}
          /\ Unshared'
          /\ (revoked \subseteq minted /\ RevokedStaysInactive)'
          /\ minted \subseteq minted'
      BY <2>1, <2>2, KeysKept
    <2>6. Generated'
      BY <2>2, <2>3, <2>5 DEF RevokeInv, Generated, Idle
    <2>7. QED
      BY <1>1, <2>4, <2>5, <2>6 DEF RevokeInv
  <1>4. \A d \in Dirs : ServeJWKS(d) \/ PageAges(d)
                        => UNCHANGED <<active, retiring, minted, req, revoked>>
    BY DEF ServeJWKS, PageAges
  <1>5. \A k \in Kids : GraceEnds(k) => UNCHANGED <<active, retiring, minted, req, revoked>>
    BY DEF GraceEnds
  <1>6. SignGlobal \/ SignerAges \/ LastJWKSAges
            => UNCHANGED <<active, retiring, minted, req, revoked>>
    BY DEF SignGlobal, SignerAges, LastJWKSAges
  <1>7. QED
    BY <1>2, <1>3, <1>4, <1>5, <1>6 DEF Next

\* The invariant holds throughout.
LEMMA RevokeHolds == Spec => []RevokeInv
  <1>1. Init => RevokeInv
    <2> SUFFICES ASSUME Init
                 PROVE  RevokeInv
      OBVIOUS
    <2>1. Generated /\ Unshared
      BY DEF Init, Generated, Unshared, NoFile, Idle
    <2>2. \A h \in Handlers : Found(h)
      BY DEF Init, Found, Idle
    <2>3. revoked = {}
      BY DEF Init
    <2>4. QED
      BY <2>1, <2>2, <2>3, InitType DEF RevokeInv, RevokedStaysInactive
  <1>2. RevokeInv /\ [Next]_vars => RevokeInv'
    <2>1. RevokeInv /\ UNCHANGED vars => RevokeInv'
      BY StutterType DEF vars, files, caches, history,
         RevokeInv, Generated, Unshared, Found, RevokedStaysInactive
    <2>2. QED
      BY <2>1, RevokeAdmin, RevokeServer
  <1>3. QED
    BY <1>1, <1>2, PTL DEF Spec

\* A revoked key never becomes a directory's active key again: not by a
\* rotation, a failed write, a restart or a revocation of another key, in any
\* order and for any number of requests.
THEOREM RevokedInactive == Spec => []RevokedStaysInactive
  <1>1. RevokeInv => RevokedStaysInactive
    BY DEF RevokeInv
  <1>2. QED
    BY <1>1, RevokeHolds, PTL

-----------------------------------------------------------------------------
(* One request at a time.  What follows is about rotations and revocations   *)
(* that do not overlap, on file systems where a failed rename leaves its     *)
(* target; each assumption has its counterexample.                           *)

OneByOne == (\A g, h \in Handlers : g = h) /\ ~LockedFiles

\* A retiring key belongs to one directory, and signs for no other.
Owned ==
    \A d, e \in Dirs : retiring[d].kid # NoKey
        /\ (retiring[e].kid = retiring[d].kid \/ active[e] = retiring[d].kid) => d = e

\* What the files are while a rotation or a revocation is between its steps.
Rotating ==
    \A h \in Handlers :
        /\ req[h].step = "remove" =>
              LET d == req[h].dir IN
              req[h].kid = IF req[h].file = "active" THEN active[d] ELSE retiring[d].kid
        /\ req[h].step \in {"retire", "activate"} => req[h].cur = active[req[h].dir]
        /\ req[h].step = "activate" =>
              /\ retiring[req[h].dir] = [kid |-> req[h].cur, grace |-> req[h].grace]
              /\ LongGrace => req[h].cur \notin expired

RingInv == Owned /\ Rotating

\* With patience a key that a rotation replaced stays until its grace ends or it
\* is revoked.
Kept ==
    /\ \A d \in Dirs : replaced[d] \ (expired \cup revoked) \subseteq {retiring[d].kid}
    /\ \A d, e \in Dirs : active[e] \notin replaced[d]
    /\ \A d \in Dirs : replaced[d] \subseteq minted

\* A rotation that is about to replace a retiring key has found it useless.
Useless ==
    \A h \in Handlers : req[h].step = "retire" =>
        LET d == req[h].dir IN ~InGrace(retiring[d]) \/ retiring[d].kid = active[d]

\* What signs from the cache is active, in its grace period or revoked.
Signs ==
    signer.fresh =>
        /\ signer.kid # NoKey
        /\ \/ signer.kid \in revoked
           \/ signer.kid = active[Global]
           \/ signer.kid = retiring[Global].kid /\ InGrace(retiring[Global])

GraceInv == Kept /\ Useless /\ Signs

\* What a directory publishes of its own.
Published(d) == ({active[d]} \ {NoKey}) \cup Retiring(d)

\* What the rotation under way carries.
LEMMA Carried ==
    ASSUME RevokeInv, RingInv, NEW h \in Handlers, req[h].step \in {"retire", "activate"}
    PROVE  /\ req[h] \in Rotation /\ req[h].dir \in Dirs
           /\ req[h].cur \in Kids /\ req[h].cur # NoKey /\ req[h].cur = active[req[h].dir]
  <1>1. req[h] \in Rotation
    BY Fields DEF RevokeInv, TypeOK
  <1>2. req[h].dir \in Dirs /\ req[h].cur \in Kids
    BY <1>1 DEF Rotation
  <1>3. req[h].cur = active[req[h].dir]
    BY DEF RingInv, Rotating
  <1>4. QED
    BY <1>1, <1>2, <1>3, ConstantsAssumption

\* Starting a rotation shows nowhere.
LEMMA StartRing ==
    ASSUME OneByOne, RevokeInv, RingInv, NEW h \in Handlers, NEW d \in Dirs,
           NEW i \in Instances, NEW g \in Graces, RotateStart(h, d, i, g)
    PROVE  RingInv' /\ UNCHANGED <<active, retiring, expired>>
  <1>1. UNCHANGED <<active, retiring, expired>>
    BY DEF RotateStart, files
  <1>2. \/ req'[h].step = "retire" /\ req'[h].cur = active[d] /\ req'[h].dir = d
        \/ req'[h].step = "stuck"
    BY DEF RotateStart, Resume, RevokeInv, TypeOK
  <1>3. Rotating'
    BY <1>1, <1>2 DEF Rotating, OneByOne
  <1>4. QED
    BY <1>1, <1>3 DEF RingInv, Owned

\* Storing the retiring key replaces one whose grace is over for the ring.
LEMMA RetireRing ==
    ASSUME OneByOne, RevokeInv, RingInv, NEW h \in Handlers, SaveRetiring(h)
    PROVE  RingInv' /\ Ring!Next
  <1>1. req[h].step = "retire"
    BY DEF SaveRetiring
  <1>2. PICK d \in Dirs, k \in Kids, g \in {"timed", "zero"} :
           /\ d = req[h].dir /\ k = req[h].cur /\ g = req[h].grace
           /\ k # NoKey /\ k = active[d] /\ req[h] \in Rotation
    BY <1>1, Carried DEF Rotation
  <1>3. /\ retiring' = [retiring EXCEPT ![d] = [kid |-> k, grace |-> g]]
        /\ expired' = expired \ {k}
        /\ UNCHANGED active
        /\ req'[h] = [req[h] EXCEPT !.step = "activate"]
    BY <1>2 DEF SaveRetiring, Resume, RevokeInv, TypeOK
  <1>4. /\ req'[h].step = "activate" /\ req'[h].dir = d /\ req'[h].cur = k /\ req'[h].grace = g
    BY <1>2, <1>3 DEF Rotation
  <1>5. /\ retiring'[d] = [kid |-> k, grace |-> g] /\ retiring'[d].kid = k
        /\ \A e \in Dirs : e # d => retiring'[e] = retiring[e]
    BY <1>3 DEF RevokeInv, TypeOK
  <1>6. \A e \in Dirs : e # d => active[e] # k /\ retiring[e].kid # k
    BY <1>2 DEF RevokeInv, Unshared, RingInv, Owned
  <1>7. Owned'
    BY <1>3, <1>5, <1>6 DEF RingInv, Owned
  <1>8. Rotating'
    BY <1>2, <1>3, <1>4, <1>5 DEF Rotating, OneByOne
  <1>9. \A e \in Dirs : e # d => Retiring(e)' = Retiring(e)
    BY <1>3, <1>5, <1>6 DEF Retiring, InGrace
  <1>10. Published(d)' = {active[d]} \ {NoKey}
    BY <1>2, <1>3, <1>5 DEF Published, Retiring
  <1>11. [e \in Dirs |-> Published(e)]' = [[e \in Dirs |-> Published(e)] EXCEPT ![d] = {active[d]} \ {NoKey}]
    BY <1>3, <1>9, <1>10 DEF Published
  <1>12. Ring!Drop(d)
    BY <1>3, <1>11 DEF Ring!Drop, Published
  <1>13. QED
    BY <1>7, <1>8, <1>12 DEF RingInv, Ring!Next

\* The step that replaces active.json is the rotation.
LEMMA ActivateRing ==
    ASSUME OneByOne, LongGrace, RevokeInv, RingInv, NEW h \in Handlers, NEW new \in Kids,
           SaveActive(h, new)
    PROVE  RingInv' /\ Ring!Next
  <1>1. req[h].step = "activate"
    BY DEF SaveActive
  <1>2. PICK d \in Dirs, k \in Kids :
           d = req[h].dir /\ k = req[h].cur /\ k # NoKey /\ k = active[d]
    BY <1>1, Carried
  <1>3. retiring[d].kid = k /\ k \notin expired /\ retiring[d] # NoFile
    <2>1. retiring[d] = [kid |-> k, grace |-> req[h].grace] /\ k \notin expired
      BY <1>1, <1>2 DEF RingInv, Rotating
    <2>2. retiring[d].kid = k
      BY <2>1
    <2>3. QED
      BY <1>2, <2>1, <2>2 DEF NoFile
  <1>4. /\ active' = [active EXCEPT ![d] = new] /\ new \notin minted
        /\ UNCHANGED <<retiring, expired>> /\ req'[h].step = "idle"
    BY <1>2 DEF SaveActive, Finish, Resume, Idle, RevokeInv, TypeOK
  <1>5. /\ active'[d] = new
        /\ \A e \in Dirs : e # d => active'[e] = active[e]
    BY <1>4 DEF RevokeInv, TypeOK
  <1>6. \A e \in Dirs : retiring[e].kid # new /\ active[e] # new
    BY <1>4, ConstantsAssumption DEF RevokeInv, Generated
  <1>7. Owned'
    BY <1>4, <1>5, <1>6 DEF RingInv, Owned
  <1>8. Rotating'
    BY <1>4 DEF Rotating, OneByOne
  <1>9. \A e \in Dirs : Retiring(e)' = Retiring(e)
    BY <1>4 DEF Retiring, InGrace
  <1>10. Published(d) = {k} /\ Published(d)' = {k} \cup {new}
    BY <1>2, <1>3, <1>5, <1>9, ConstantsAssumption DEF Published, Retiring, InGrace
  <1>11. \A e \in Dirs : e # d => Published(e)' = Published(e)
    BY <1>5, <1>9 DEF Published
  <1>12. \A e \in Dirs : new \notin Published(e)
    BY <1>6 DEF Published, Retiring
  <1>13. [e \in Dirs |-> Published(e)]'
            = [[e \in Dirs |-> Published(e)] EXCEPT ![d] = @ \cup {new}]
    BY <1>10, <1>11
  <1>14. Ring!Rotate(d, new)
    BY <1>2, <1>4, <1>12, <1>13 DEF Ring!Rotate, Published
  <1>15. QED
    BY <1>7, <1>8, <1>14 DEF RingInv, Ring!Next

\* A rotation that fails shows nowhere.
LEMMA FailRing ==
    ASSUME OneByOne, RevokeInv, RingInv, NEW h \in Handlers, WriteFails(h)
    PROVE  RingInv' /\ UNCHANGED <<active, retiring, expired>>
  <1>1. UNCHANGED <<active, retiring, expired>> /\ req'[h].step = "idle"
    BY DEF WriteFails, OneByOne, files, Finish, Resume, Idle, RevokeInv, TypeOK
  <1>2. QED
    BY <1>1 DEF RingInv, Owned, Rotating, OneByOne

\* The end of a grace period drops the key from the one ring that had it.
LEMMA GraceRing ==
    ASSUME OneByOne, RevokeInv, RingInv, NEW k \in Kids, GraceEnds(k)
    PROVE  RingInv' /\ (Ring!Next \/ UNCHANGED Ring!vars)
  <1>1. /\ UNCHANGED <<active, retiring, req>> /\ expired' = expired \cup {k}
        /\ LongGrace => ~\E h \in Handlers : req[h].step = "activate" /\ req[h].cur = k
    BY DEF GraceEnds, files
  <1>2. RingInv'
    BY <1>1 DEF RingInv, Owned, Rotating
  <1>3. ASSUME NEW e \in Dirs, retiring[e].kid # k
        PROVE  Published(e)' = Published(e)
    <2>1. InGrace(retiring[e])' = InGrace(retiring[e])
      BY <1>1, <1>3 DEF InGrace
    <2>2. Retiring(e)' = Retiring(e)
      BY <1>1, <2>1 DEF Retiring
    <2>3. QED
      BY <1>1, <2>2 DEF Published
  <1>4. CASE \A e \in Dirs : Published(e)' = Published(e)
    BY <1>1, <1>2, <1>4 DEF Ring!vars, Published
  <1>5. ASSUME NEW d \in Dirs, Published(d)' # Published(d)
        PROVE  Ring!Drop(d)
    <2>1. retiring[d].kid = k
      BY <1>3, <1>5
    <2>2. \A e \in Dirs : e # d => Published(e)' = Published(e)
      BY <1>3, <2>1, ConstantsAssumption DEF RingInv, Owned
    <2>3. Published(d)' = {active[d]} \ {NoKey}
      <3>1. Retiring(d)' = {} \/ Retiring(d)' = Retiring(d)
        BY <1>1, <2>1 DEF Retiring, InGrace
      <3>2. QED
        BY <1>1, <1>5, <3>1 DEF Published
    <2>4. [e \in Dirs |-> Published(e)]'
             = [[e \in Dirs |-> Published(e)] EXCEPT ![d] = {active[d]} \ {NoKey}]
      BY <2>2, <2>3
    <2>5. QED
      BY <1>1, <2>4 DEF Ring!Drop, Published
  <1>6. QED
    BY <1>2, <1>4, <1>5 DEF Ring!Next

\* A restart at most makes the global directory's missing key.
LEMMA RestartRing ==
    ASSUME OneByOne, RevokeInv, RingInv, NEW new \in Kids, Restart(new)
    PROVE  RingInv' /\ (Ring!Next \/ UNCHANGED Ring!vars)
  <1>1. /\ UNCHANGED <<retiring, expired>> /\ \A h \in Handlers : req'[h].step = "idle"
        /\ Global \in Dirs
    BY DEF Restart, Idle, Dirs
  <1>2. Rotating'
    BY <1>1 DEF Rotating
  <1>3. \A e \in Dirs : Retiring(e)' = Retiring(e)
    BY <1>1 DEF Retiring, InGrace
  <1>4. CASE UNCHANGED active
    BY <1>1, <1>2, <1>3, <1>4 DEF RingInv, Owned, Ring!vars, Published
  <1>5. CASE /\ active[Global] = NoKey /\ new \notin minted
             /\ active' = [active EXCEPT ![Global] = new]
    <2>1. /\ active'[Global] = new
          /\ \A e \in Dirs : e # Global => active'[e] = active[e]
      BY <1>1, <1>5 DEF RevokeInv, TypeOK
    <2>2. \A e \in Dirs : retiring[e].kid # new
      BY <1>5, ConstantsAssumption DEF RevokeInv, Generated
    <2>3. Owned'
      BY <1>1, <2>1, <2>2 DEF RingInv, Owned
    <2>4. Published(Global)' = Published(Global) \cup {new}
      BY <1>1, <1>3, <1>5, <2>1, ConstantsAssumption DEF Published
    <2>5. \A e \in Dirs : e # Global => Published(e)' = Published(e)
      BY <1>3, <2>1 DEF Published
    <2>6. [e \in Dirs |-> Published(e)]'
             = [[e \in Dirs |-> Published(e)] EXCEPT ![Global] = @ \cup {new}]
      BY <2>4, <2>5
    <2>7. Ring!Create(Global, new)
      BY <1>5, <2>6 DEF Ring!Create, Published
    <2>8. QED
      BY <1>1, <1>2, <2>3, <2>7 DEF RingInv, Ring!Next
  <1>6. QED
    BY <1>4, <1>5 DEF Restart

LEMMA RingStart == Init => Ring!Init /\ RingInv
  <1> SUFFICES ASSUME Init
               PROVE  Ring!Init /\ RingInv
    OBVIOUS
  <1>1. RingInv
    BY DEF Init, RingInv, Owned, Rotating, NoFile, Idle
  <1>2. \A d \in Dirs : Retiring(d) = {}
    BY DEF Init, Retiring, InGrace
  <1>3. Ring!Init
    BY <1>2 DEF Init, Ring!Init
  <1>4. QED
    BY <1>1, <1>3

\* Looking for a key shows nowhere.
LEMMA FindRing ==
    ASSUME OneByOne, RevokeInv, RingInv, NEW h \in Handlers, NEW k \in Kids, RevokeFind(h, k)
    PROVE  RingInv' /\ UNCHANGED <<active, retiring, expired>>
  <1>1. UNCHANGED <<active, retiring, expired>>
    BY DEF RevokeFind, files
  <1>2. PICK r : /\ Resume(h, r) /\ r.step = "remove"
                 /\ r.kid = IF r.file = "active" THEN active[r.dir] ELSE retiring[r.dir].kid
    BY DEF RevokeFind
  <1>3. req'[h] = r
    BY <1>2 DEF Resume, RevokeInv, TypeOK
  <1>4. Rotating'
    BY <1>1, <1>2, <1>3 DEF Rotating, OneByOne
  <1>5. QED
    BY <1>1, <1>4 DEF RingInv, Owned

\* What a revocation removes, and that it reports it.
LEMMA Removed ==
    ASSUME RevokeInv, RingInv, NEW h \in Handlers, RevokeRemove(h)
    PROVE  \E d \in Dirs, k \in Kids :
              /\ k # NoKey /\ revoked' = revoked \cup {k}
              /\ \/ /\ active[d] = k /\ active' = [active EXCEPT ![d] = NoKey]
                    /\ UNCHANGED retiring
                 \/ /\ retiring[d].kid = k /\ retiring' = [retiring EXCEPT ![d] = NoFile]
                    /\ UNCHANGED active
  <1>1. req[h] \in Removal /\ req[h].step = "remove"
    BY Fields DEF RevokeRemove, RevokeInv, TypeOK
  <1>2. PICK d \in Dirs, k \in Kids : d = req[h].dir /\ k = req[h].kid /\ k # NoKey
    BY <1>1, ConstantsAssumption DEF Removal
  <1>3. k = IF req[h].file = "active" THEN active[d] ELSE retiring[d].kid
    BY <1>1, <1>2 DEF RingInv, Rotating
  <1>4. NoFile.kid = NoKey
    BY DEF NoFile
  <1>5. req[h].file \in {"active", "retiring"}
    BY <1>1 DEF Removal
  <1>6. CASE req[h].file = "active"
    BY <1>2, <1>3, <1>6 DEF RevokeRemove
  <1>7. CASE req[h].file = "retiring"
    BY <1>2, <1>3, <1>4, <1>7 DEF RevokeRemove
  <1>8. QED
    BY <1>5, <1>6, <1>7

\* A revocation is one of the ring's, or drops a key that was being replaced.
LEMMA RemoveRing ==
    ASSUME OneByOne, RevokeInv, RingInv, NEW h \in Handlers, RevokeRemove(h)
    PROVE  RingInv' /\ Ring!Next
  <1>1. PICK d \in Dirs, k \in Kids :
           /\ k # NoKey
           /\ \/ /\ active[d] = k /\ active' = [active EXCEPT ![d] = NoKey]
                 /\ UNCHANGED retiring
              \/ /\ retiring[d].kid = k /\ retiring' = [retiring EXCEPT ![d] = NoFile]
                 /\ UNCHANGED active
    BY Removed
  <1>2. UNCHANGED expired /\ req'[h].step = "idle"
    BY DEF RevokeRemove, Resume, Idle, RevokeInv, TypeOK
  <1>3. Rotating'
    BY <1>2 DEF Rotating, OneByOne
  <1>4. NoFile.kid = NoKey
    BY DEF NoFile
  <1>5. CASE /\ active[d] = k /\ active' = [active EXCEPT ![d] = NoKey]
             /\ UNCHANGED retiring
    <2>1. active'[d] = NoKey /\ \A e \in Dirs : e # d => active'[e] = active[e]
      BY <1>5 DEF RevokeInv, TypeOK
    <2>2. Owned'
      BY <1>5, <2>1 DEF RingInv, Owned
    <2>3. \A e \in Dirs : Retiring(e)' = Retiring(e)
      BY <1>2, <1>5 DEF Retiring, InGrace
    <2>4. Published(d) = {k} \cup Retiring(d) /\ Published(d)' = Retiring(d)
      BY <1>1, <1>5, <2>1, <2>3 DEF Published
    <2>5. \A e \in Dirs : e # d => Published(e)' = Published(e)
      BY <2>1, <2>3 DEF Published
    <2>6. \/ [e \in Dirs |-> Published(e)]' = [e \in Dirs |-> Published(e)]
          \/ [e \in Dirs |-> Published(e)]'
                = [[e \in Dirs |-> Published(e)] EXCEPT ![d] = @ \ {k}]
      <3>1. CASE k \in Retiring(d)
        BY <2>4, <2>5, <3>1
      <3>2. CASE k \notin Retiring(d)
        <4>1. Published(d)' = Published(d) \ {k}
          BY <2>4, <3>2
        <4>2. QED
          BY <2>5, <4>1
      <3>3. QED
        BY <3>1, <3>2
    <2>7. Ring!Revoke(d)
      BY <1>1, <1>5, <2>6 DEF Ring!Revoke, Published
    <2>8. QED
      BY <1>3, <2>2, <2>7 DEF RingInv, Ring!Next
  <1>6. CASE /\ retiring[d].kid = k /\ retiring' = [retiring EXCEPT ![d] = NoFile]
             /\ UNCHANGED active
    <2>1. retiring'[d] = NoFile /\ \A e \in Dirs : e # d => retiring'[e] = retiring[e]
      BY <1>6 DEF RevokeInv, TypeOK
    <2>2. Owned'
      BY <1>4, <1>6, <2>1 DEF RingInv, Owned
    <2>3. Published(d)' = {active[d]} \ {NoKey}
      BY <1>6, <2>1 DEF Published, Retiring, InGrace
    <2>4. \A e \in Dirs : e # d => Published(e)' = Published(e)
      BY <1>2, <1>6, <2>1 DEF Published, Retiring, InGrace
    <2>5. [e \in Dirs |-> Published(e)]'
             = [[e \in Dirs |-> Published(e)] EXCEPT ![d] = {active[d]} \ {NoKey}]
      BY <2>3, <2>4
    <2>6. Ring!Drop(d)
      BY <1>6, <2>5 DEF Ring!Drop, Published
    <2>7. QED
      BY <1>3, <2>2, <2>6 DEF RingInv, Ring!Next
  <1>7. QED
    BY <1>1, <1>5, <1>6

\* Every step of KeyStore is a step of KeyRing or shows nowhere.
LEMMA RingStep ==
    ASSUME OneByOne, LongGrace, RevokeInv, RingInv, [Next]_vars
    PROVE  [Ring!Next]_Ring!vars /\ RingInv'
  <1>q. ASSUME UNCHANGED <<active, retiring, expired>>
        PROVE  UNCHANGED Ring!vars
    <2>1. \A d \in Dirs : Retiring(d)' = Retiring(d)
      BY <1>q DEF Retiring, InGrace
    <2>2. QED
      BY <1>q, <2>1 DEF Ring!vars
  <1>u. ASSUME UNCHANGED <<active, retiring, expired, req>>
        PROVE  RingInv'
    BY <1>u DEF RingInv, Owned, Rotating
  <1>1. CASE UNCHANGED vars
    BY <1>1, <1>q, <1>u DEF vars, files
  <1>2. ASSUME NEW h \in Handlers, Admin(h)
        PROVE  [Ring!Next]_Ring!vars /\ RingInv'
    BY <1>2, <1>q, StartRing, RetireRing, ActivateRing, FailRing, FindRing, RemoveRing
       DEF Admin
  <1>3. ASSUME NEW k \in Kids, GraceEnds(k) \/ Restart(k)
        PROVE  [Ring!Next]_Ring!vars /\ RingInv'
    BY <1>3, GraceRing, RestartRing
  <1>4. ASSUME \/ \E d \in Dirs : ServeJWKS(d) \/ PageAges(d)
               \/ SignGlobal \/ SignerAges \/ LastJWKSAges
        PROVE  UNCHANGED <<active, retiring, expired, req>>
    BY <1>4 DEF ServeJWKS, PageAges, SignGlobal, SignerAges, LastJWKSAges, files
  <1>5. QED
    BY <1>1, <1>2, <1>3, <1>4, <1>q, <1>u DEF Next

\* While admin requests do not overlap and a grace period outlasts the rotation
\* that starts it, every directory is a key ring, whatever crashes, fails and is
\* revoked: the new key is published before anything is signed with it, and the
\* old one is until its grace ends.
THEOREM Refines ==
    ASSUME OneByOne, LongGrace
    PROVE  Spec => RotationIsAtomic
  <1>1. Init => Ring!Init /\ RingInv
    BY RingStart
  <1>2. RevokeInv /\ RingInv /\ [Next]_vars => [Ring!Next]_Ring!vars /\ RingInv'
    BY RingStep
  <1>3. QED
    BY <1>1, <1>2, RevokeHolds, PTL DEF Spec, RotationIsAtomic, Ring!Spec

\* The files are a ring throughout.
LEMMA RingHolds ==
    ASSUME OneByOne, LongGrace
    PROVE  Spec => []RingInv
  <1>1. Init => RingInv
    BY RingStart
  <1>2. RevokeInv /\ RingInv /\ [Next]_vars => RingInv'
    BY RingStep
  <1>3. QED
    BY <1>1, <1>2, RevokeHolds, PTL DEF Spec

\* Steps that leave files, clock and cache alone and begin no rotation.
LEMMA GraceSame ==
    ASSUME GraceInv, UNCHANGED <<active, retiring, expired, minted, replaced, revoked>>,
           UNCHANGED signer \/ ~signer'.fresh,
           \A h \in Handlers : req'[h].step = "retire" =>
              req'[h] = req[h] \/ ~GraceLeft(req'[h].dir)
    PROVE  GraceInv'
  <1>1. Kept'
    BY DEF GraceInv, Kept
  <1>2. \A r : InGrace(r)' = InGrace(r)
    BY DEF InGrace
  <1>3. Signs'
    BY <1>2 DEF GraceInv, Signs
  <1>4. Useless'
    BY <1>2 DEF GraceInv, Useless, GraceLeft
  <1>5. QED
    BY <1>1, <1>3, <1>4 DEF GraceInv

LEMMA GraceStart ==
    ASSUME Patient, OneByOne, RevokeInv, GraceInv, NEW h \in Handlers, NEW d \in Dirs,
           NEW i \in Instances, NEW g \in Graces, RotateStart(h, d, i, g)
    PROVE  GraceInv'
  <1>1. /\ UNCHANGED <<active, retiring, expired, minted, replaced, revoked, signer>>
        /\ ~GraceLeft(d)
    BY DEF RotateStart, files, caches, history
  <1>2. req'[h].step = "retire" => req'[h].dir = d
    BY DEF RotateStart, Resume, RevokeInv, TypeOK
  <1>3. \A f \in Handlers : f = h
    BY DEF OneByOne
  <1>4. QED
    BY <1>1, <1>2, <1>3, GraceSame

\* The key that takes the place in retiring.json still signs; the one that
\* loses it was no longer kept.
LEMMA GraceRetire ==
    ASSUME OneByOne, RevokeInv, RingInv, GraceInv, NEW h \in Handlers, SaveRetiring(h)
    PROVE  GraceInv'
  <1>1. req[h].step = "retire"
    BY DEF SaveRetiring
  <1>2. PICK d \in Dirs, k \in Kids :
           d = req[h].dir /\ k = req[h].cur /\ k # NoKey /\ k = active[d]
    BY <1>1, Carried
  <1>3. /\ retiring'[d].kid = k
        /\ \A e \in Dirs : e # d => retiring'[e] = retiring[e]
        /\ expired' = expired \ {k}
        /\ UNCHANGED <<active, minted, replaced, revoked, signer>>
    BY <1>2 DEF SaveRetiring, caches, history, RevokeInv, TypeOK
  <1>4. req'[h].step = "activate"
    <2>1. req[h] \in Rotation
      BY <1>1, Carried
    <2>2. [req[h] EXCEPT !.step = "activate"].step = "activate"
      BY <2>1 DEF Rotation
    <2>3. QED
      BY <2>2 DEF SaveRetiring, Resume, RevokeInv, TypeOK
  <1>5. ~InGrace(retiring[d]) \/ retiring[d].kid = k
    BY <1>1, <1>2 DEF GraceInv, Useless
  <1>6. replaced[d] \ (expired \cup revoked) = {}
    <2>1. retiring[d].kid \in Kids => retiring[d] # NoFile
      BY ConstantsAssumption DEF NoFile
    <2>2. replaced[d] \subseteq Kids
      BY DEF RevokeInv, TypeOK
    <2>3. retiring[d].kid \in replaced[d] => retiring[d].kid \in expired
      BY <1>2, <1>5, <2>1, <2>2 DEF GraceInv, Kept, InGrace
    <2>4. QED
      BY <2>3 DEF GraceInv, Kept
  <1>7. \A e \in Dirs : k \notin replaced[e]
    BY <1>2 DEF GraceInv, Kept
  <1>8. Kept'
    BY <1>3, <1>6, <1>7 DEF GraceInv, Kept
  <1>9. Useless'
    BY <1>4 DEF Useless, OneByOne
  <1>10. Global \in Dirs
    BY DEF Dirs
  <1>11. Signs'
    <2>1. CASE d = Global
      BY <1>2, <1>3, <1>5, <2>1 DEF GraceInv, Signs
    <2>2. CASE d # Global
      BY <1>3, <1>10, <2>2 DEF GraceInv, Signs, InGrace
    <2>3. QED
      BY <2>1, <2>2
  <1>12. QED
    BY <1>8, <1>9, <1>11 DEF GraceInv

\* The replaced key is the one in retiring.json, and its grace has not ended.
LEMMA GraceActivate ==
    ASSUME OneByOne, LongGrace, RevokeInv, RingInv, GraceInv, NEW h \in Handlers,
           NEW new \in Kids, SaveActive(h, new)
    PROVE  GraceInv'
  <1>1. req[h].step = "activate"
    BY DEF SaveActive
  <1>2. PICK d \in Dirs, k \in Kids :
           d = req[h].dir /\ k = req[h].cur /\ k # NoKey /\ k = active[d]
    BY <1>1, Carried
  <1>3. /\ retiring[d].kid = k /\ k \notin expired /\ retiring[d] # NoFile
        /\ InGrace(retiring[d])
    <2>1. retiring[d] = [kid |-> k, grace |-> req[h].grace] /\ k \notin expired
      BY <1>1, <1>2 DEF RingInv, Rotating
    <2>2. retiring[d].kid = k
      BY <2>1
    <2>3. QED
      BY <1>2, <2>1, <2>2 DEF NoFile, InGrace
  <1>4. /\ active'[d] = new /\ new \notin minted /\ minted' = minted \cup {new}
        /\ \A e \in Dirs : e # d => active'[e] = active[e]
        /\ UNCHANGED <<retiring, expired, revoked, signer>> /\ req'[h].step = "idle"
    BY <1>2 DEF SaveActive, Finish, Resume, Idle, caches, RevokeInv, TypeOK
  <1>5. /\ replaced'[d] \subseteq replaced[d] \cup {k}
        /\ \A e \in Dirs : e # d => replaced'[e] = replaced[e]
    BY <1>2 DEF SaveActive, RevokeInv, TypeOK
  <1>6. k \in minted /\ \A e \in Dirs : e # d => active[e] # k
    BY <1>2 DEF RevokeInv, Generated, Unshared
  <1>7. Kept'
    <2>1. \A e \in Dirs : (replaced[e] \ (expired \cup revoked) \subseteq {retiring[e].kid})'
      BY <1>3, <1>4, <1>5 DEF GraceInv, Kept
    <2>3. \A e \in Dirs : (replaced[e] \subseteq minted)'
      BY <1>4, <1>5, <1>6 DEF GraceInv, Kept
    <2>4. \A e \in Dirs : new \notin replaced'[e]
      BY <1>4, <1>5, <1>6 DEF GraceInv, Kept
    <2>5. \A e, f \in Dirs : (active[f] \notin replaced[e])'
      BY <1>4, <1>5, <1>6, <2>4 DEF GraceInv, Kept
    <2>6. QED
      BY <2>1, <2>3, <2>5 DEF Kept
  <1>8. Useless'
    BY <1>4 DEF Useless, OneByOne
  <1>9. \A r : InGrace(r)' = InGrace(r)
    BY <1>4 DEF InGrace
  <1>10. Global \in Dirs
    BY DEF Dirs
  <1>11. Signs'
    BY <1>2, <1>3, <1>4, <1>9, <1>10 DEF GraceInv, Signs
  <1>12. QED
    BY <1>7, <1>8, <1>11 DEF GraceInv

\* A grace period outlasts the cached signer.
LEMMA GraceOver ==
    ASSUME LongGrace, GraceInv, NEW k \in Kids, GraceEnds(k)
    PROVE  GraceInv'
  <1>1. /\ UNCHANGED <<active, retiring, req, signer, minted, replaced, revoked>>
        /\ expired' = expired \cup {k}
        /\ ~(signer.fresh /\ signer.kid = k)
    BY DEF GraceEnds, files, caches, history
  <1>2. Kept'
    BY <1>1 DEF GraceInv, Kept
  <1>3. Useless'
    BY <1>1 DEF GraceInv, Useless, InGrace
  <1>4. Signs'
    BY <1>1 DEF GraceInv, Signs, InGrace
  <1>5. QED
    BY <1>2, <1>3, <1>4 DEF GraceInv

LEMMA GraceRestart ==
    ASSUME RevokeInv, GraceInv, NEW new \in Kids, Restart(new)
    PROVE  GraceInv'
  <1>1. /\ UNCHANGED <<retiring, expired, replaced, revoked>> /\ ~signer'.fresh
        /\ \A h \in Handlers : req'[h].step = "idle"
        /\ Global \in Dirs
    BY DEF Restart, Idle, Dirs, history
  <1>2. Useless' /\ Signs'
    BY <1>1 DEF Useless, Signs
  <1>3. CASE UNCHANGED <<active, minted>>
    BY <1>1, <1>2, <1>3 DEF GraceInv, Kept
  <1>4. CASE /\ new \notin minted /\ minted' = minted \cup {new}
             /\ active' = [active EXCEPT ![Global] = new]
    <2>1. /\ active'[Global] = new
          /\ \A e \in Dirs : e # Global => active'[e] = active[e]
      BY <1>1, <1>4 DEF RevokeInv, TypeOK
    <2>2. Kept'
      BY <1>1, <1>4, <2>1, ConstantsAssumption DEF GraceInv, Kept
    <2>3. QED
      BY <1>2, <2>2 DEF GraceInv
  <1>5. QED
    BY <1>3, <1>4 DEF Restart

LEMMA GraceServer ==
    ASSUME GraceInv,
           \/ \E d \in Dirs : ServeJWKS(d) \/ PageAges(d)
           \/ SignGlobal \/ SignerAges \/ LastJWKSAges
    PROVE  GraceInv'
  <1>1. UNCHANGED <<active, retiring, expired, minted, replaced, revoked, req>>
    BY DEF ServeJWKS, PageAges, SignGlobal, SignerAges, LastJWKSAges, files, history
  <1>2. CASE SignGlobal
    <2>1. signer' = [kid |-> active[Global], fresh |-> TRUE] /\ active[Global] # NoKey
      BY <1>2 DEF SignGlobal
    <2>2. Signs'
      BY <1>1, <2>1 DEF Signs
    <2>3. QED
      BY <1>1, <2>2 DEF GraceInv, Kept, Useless, InGrace
  <1>3. CASE SignerAges
    <2>1. ~signer'.fresh
      BY <1>3 DEF SignerAges
    <2>2. QED
      BY <1>1, <2>1, GraceSame
  <1>4. CASE LastJWKSAges \/ \E d \in Dirs : ServeJWKS(d) \/ PageAges(d)
    <2>1. UNCHANGED signer
      BY <1>4 DEF LastJWKSAges, ServeJWKS, PageAges
    <2>2. QED
      BY <1>1, <2>1, GraceSame
  <1>5. QED
    BY <1>2, <1>3, <1>4

LEMMA GraceFind ==
    ASSUME OneByOne, RevokeInv, GraceInv, NEW h \in Handlers, NEW k \in Kids, RevokeFind(h, k)
    PROVE  GraceInv'
  <1>1. UNCHANGED <<active, retiring, expired, minted, replaced, revoked, signer>>
    BY DEF RevokeFind, files, caches, history
  <1>2. PICK r : Resume(h, r) /\ r.step = "remove"
    BY DEF RevokeFind
  <1>3. \A g \in Handlers : req'[g].step = "remove"
    BY <1>2 DEF OneByOne, Resume, RevokeInv, TypeOK
  <1>4. QED
    BY <1>1, <1>3, GraceSame

\* A key that was kept, or that signs from the cache, may go: as a revoked one.
LEMMA GraceRemove ==
    ASSUME OneByOne, RevokeInv, RingInv, GraceInv, NEW h \in Handlers, RevokeRemove(h)
    PROVE  GraceInv'
  <1>1. PICK d \in Dirs, k \in Kids :
           /\ k # NoKey /\ revoked' = revoked \cup {k}
           /\ \/ /\ active[d] = k /\ active' = [active EXCEPT ![d] = NoKey]
                 /\ UNCHANGED retiring
              \/ /\ retiring[d].kid = k /\ retiring' = [retiring EXCEPT ![d] = NoFile]
                 /\ UNCHANGED active
    BY Removed
  <1>2. UNCHANGED <<expired, minted, replaced, signer>> /\ req'[h].step = "idle"
    BY DEF RevokeRemove, Resume, Idle, caches, RevokeInv, TypeOK
  <1>3. /\ \A e \in Dirs : active'[e] = active[e] \/ (active[e] = k /\ active'[e] = NoKey)
        /\ \A e \in Dirs : retiring'[e] = retiring[e] \/ retiring[e].kid = k
    BY <1>1 DEF RevokeInv, TypeOK
  <1>4. \A e \in Dirs : NoKey \notin replaced[e]
    BY ConstantsAssumption DEF RevokeInv, TypeOK
  <1>5. Kept'
    BY <1>1, <1>2, <1>3, <1>4 DEF GraceInv, Kept
  <1>6. Useless'
    BY <1>2 DEF Useless, OneByOne
  <1>7. Global \in Dirs
    BY DEF Dirs
  <1>8. Signs'
    BY <1>1, <1>2, <1>3, <1>7 DEF GraceInv, Signs, InGrace
  <1>9. QED
    BY <1>5, <1>6, <1>8 DEF GraceInv

LEMMA GraceStep ==
    ASSUME OneByOne, LongGrace, Patient, RevokeInv, RingInv, GraceInv, [Next]_vars
    PROVE  GraceInv'
  <1>1. CASE UNCHANGED vars
    BY <1>1, GraceSame DEF vars, files, caches, history
  <1>2. ASSUME NEW h \in Handlers, WriteFails(h)
        PROVE  GraceInv'
    <2>1. UNCHANGED <<active, retiring, expired, minted, replaced, revoked, signer>>
      BY <1>2 DEF WriteFails, OneByOne, files, caches, history
    <2>2. \A g \in Handlers : req'[g].step = "idle"
      BY <1>2 DEF WriteFails, Finish, Resume, Idle, OneByOne, RevokeInv, TypeOK
    <2>3. QED
      BY <2>1, <2>2, GraceSame
  <1>3. ASSUME NEW h \in Handlers, Admin(h)
        PROVE  GraceInv'
    BY <1>2, <1>3, GraceStart, GraceRetire, GraceActivate, GraceFind, GraceRemove DEF Admin
  <1>4. QED
    BY <1>1, <1>3, GraceOver, GraceRestart, GraceServer DEF Next

LEMMA GraceHolds ==
    ASSUME OneByOne, LongGrace, Patient
    PROVE  Spec => []GraceInv
  <1>1. Init => GraceInv
    <2> SUFFICES ASSUME Init
                 PROVE  GraceInv
      OBVIOUS
    <2>1. Kept
      BY DEF Init, Kept
    <2>2. Useless /\ Signs
      BY DEF Init, Useless, Signs, Idle
    <2>3. QED
      BY <2>1, <2>2 DEF GraceInv
  <1>2. RevokeInv /\ RingInv /\ GraceInv /\ [Next]_vars => GraceInv'
    BY GraceStep
  <1>3. QED
    BY <1>1, <1>2, RevokeHolds, RingHolds, PTL DEF Spec

\* While admin requests do not overlap and administrators wait for a grace period
\* to end before the next rotation, a replaced key is published until then,
\* through failed writes, restarts and the revocation of other keys; only the
\* revocation of the key that replaced it hides it.
THEOREM GraceKept ==
    ASSUME OneByOne, LongGrace, Patient
    PROVE  Spec => []KeptForGrace
  <1>1. RevokeInv /\ GraceInv => KeptForGrace
    <2> SUFFICES ASSUME RevokeInv, GraceInv, NEW d \in Dirs,
                        active[d] # NoKey, NEW k \in replaced[d] \ (expired \cup revoked)
                 PROVE  k \in JWKS(d)
      BY DEF KeptForGrace
    <2>1. k \in Kids /\ k = retiring[d].kid
      BY DEF RevokeInv, TypeOK, GraceInv, Kept
    <2>2. retiring[d] # NoFile
      BY <2>1, ConstantsAssumption DEF NoFile
    <2>3. QED
      BY <2>1, <2>2 DEF JWKS, Retiring, InGrace
  <1>2. QED
    BY <1>1, RevokeHolds, GraceHolds, PTL

\* Under the same assumptions the key the server signs with from its cache of
\* 30 seconds is always one that it publishes, or one that was revoked.
THEOREM SignerKnown ==
    ASSUME OneByOne, LongGrace, Patient
    PROVE  Spec => []SignerPublished
  <1>1. RevokeInv /\ GraceInv => SignerPublished
    <2> SUFFICES ASSUME RevokeInv, GraceInv, signer.fresh
                 PROVE  signer.kid \in JWKS(Global) \cup revoked
      BY DEF SignerPublished
    <2>1. /\ signer.kid # NoKey
          /\ \/ signer.kid \in revoked
             \/ signer.kid = active[Global]
             \/ signer.kid = retiring[Global].kid /\ InGrace(retiring[Global])
      BY DEF GraceInv, Signs
    <2>2. QED
      BY <2>1 DEF JWKS, Retiring
  <1>2. QED
    BY <1>1, RevokeHolds, GraceHolds, PTL

-----------------------------------------------------------------------------
(* Which active key a revocation removes                                    *)

\* Requests of one kind may overlap, a rotation and a revocation do not.
Unmixed == (\A g, h \in Handlers : g = h) \/ ~({"rotate", "revoke"} \subseteq Operations)

Removing(h) == req[h].step = "remove"
Rotates(h)  == req[h].step \in {"retire", "activate"}

\* What a revocation found active is still there, or gone.
Aimed ==
    \A h \in Handlers :
        /\ Removing(h) => "revoke" \in Operations
        /\ Rotates(h) => "rotate" \in Operations
        /\ Removing(h) /\ req[h].file = "active" => active[req[h].dir] \in {req[h].kid, NoKey}

\* No step but a rotation's, a revocation's and a restart's writes active.json.
LEMMA ActiveSame ==
    ASSUME ~LockedFiles, [Next]_vars,
           \A h \in Handlers : ~RevokeRemove(h) /\ \A k \in Kids : ~SaveActive(h, k),
           \A k \in Kids : ~Restart(k)
    PROVE  UNCHANGED active
  <1>1. ASSUME NEW h \in Handlers, Admin(h)
        PROVE  UNCHANGED active
    BY <1>1 DEF Admin, RotateStart, SaveRetiring, RevokeFind, WriteFails, files
  <1>2. QED
    BY <1>1
    DEF Next, vars, files, GraceEnds, ServeJWKS, PageAges, SignGlobal, SignerAges, LastJWKSAges

\* A request goes on without touching active.json.
LEMMA AimedResume ==
    ASSUME RevokeInv, Aimed, NEW h \in Handlers, NEW r, Resume(h, r), UNCHANGED active,
           r.step = "remove" => /\ "revoke" \in Operations
                                /\ r.file = "active" => active[r.dir] = r.kid,
           r.step \in {"retire", "activate"} => "rotate" \in Operations
    PROVE  Aimed'
  BY DEF Resume, RevokeInv, TypeOK, Aimed, Removing, Rotates

LEMMA AimedAdmin ==
    ASSUME Unmixed, ~LockedFiles, RevokeInv, Aimed, NEW h \in Handlers, Admin(h)
    PROVE  Aimed'
  <1>1. ASSUME NEW d \in Dirs, NEW i \in Instances, NEW g \in Graces, RotateStart(h, d, i, g)
        PROVE  Aimed'
    <2>1. PICK r : Resume(h, r) /\ r.step \in {"retire", "stuck"}
      BY <1>1 DEF RotateStart
    <2>2. "rotate" \in Operations /\ UNCHANGED active
      BY <1>1 DEF RotateStart, files
    <2>3. QED
      BY <2>1, <2>2, AimedResume
  <1>2. CASE SaveRetiring(h)
    <2>1. req[h] \in Rotation
      BY <1>2, Fields DEF SaveRetiring, RevokeInv, TypeOK
    <2>2. [req[h] EXCEPT !.step = "activate"].step = "activate"
      BY <2>1 DEF Rotation
    <2>3. PICK r : Resume(h, r) /\ r.step = "activate"
      BY <1>2, <2>2 DEF SaveRetiring
    <2>4. "rotate" \in Operations /\ UNCHANGED active
      BY <1>2 DEF SaveRetiring, Aimed, Rotates
    <2>5. QED
      BY <2>3, <2>4, AimedResume
  <1>3. ASSUME NEW k \in Kids, SaveActive(h, k)
        PROVE  Aimed'
    <2>1. "rotate" \in Operations
      BY <1>3 DEF SaveActive, Aimed, Rotates
    <2>2. \A g \in Handlers : Removing(g) => g = h
      BY <2>1 DEF Unmixed, Aimed
    <2>3. ~Removing(h)' /\ ~Rotates(h)'
      BY <1>3 DEF SaveActive, Finish, Resume, Idle, RevokeInv, TypeOK, Removing, Rotates
    <2>4. \A g \in Handlers \ {h} : req'[g] = req[g]
      BY <1>3 DEF SaveActive, Finish, Resume, RevokeInv, TypeOK
    <2>5. QED
      BY <2>2, <2>3, <2>4 DEF Aimed, Removing, Rotates
  <1>4. ASSUME NEW k \in Kids, RevokeFind(h, k)
        PROVE  Aimed'
    <2>1. PICK r : Resume(h, r) /\ r.step = "remove" /\ (r.file = "active" => active[r.dir] = r.kid)
      BY <1>4 DEF RevokeFind
    <2>2. "revoke" \in Operations /\ UNCHANGED active
      BY <1>4 DEF RevokeFind, files
    <2>3. QED
      BY <2>1, <2>2, AimedResume
  <1>5. CASE WriteFails(h)
    <2>1. UNCHANGED active /\ Resume(h, Idle)
      BY <1>5 DEF WriteFails, files, Finish
    <2>2. QED
      BY <2>1, AimedResume DEF Idle
  <1>6. CASE RevokeRemove(h)
    <2>1. ~Removing(h)' /\ ~Rotates(h)'
      BY <1>6 DEF RevokeRemove, Resume, Idle, RevokeInv, TypeOK, Removing, Rotates
    <2>2. \A g \in Handlers \ {h} : req'[g] = req[g]
      BY <1>6 DEF RevokeRemove, Resume, RevokeInv, TypeOK
    <2>3. \A d \in Dirs : active'[d] \in {active[d], NoKey}
      BY <1>6 DEF RevokeRemove, RevokeInv, TypeOK
    <2>4. \A g \in Handlers : Removing(g) => req[g].dir \in Dirs
      BY Fields DEF Removing, Removal, RevokeInv, TypeOK
    <2>5. QED
      BY <2>1, <2>2, <2>3, <2>4 DEF Aimed, Removing, Rotates
  <1>7. QED
    BY <1>1, <1>2, <1>3, <1>4, <1>5, <1>6 DEF Admin

LEMMA AimedHolds ==
    ASSUME Unmixed, ~LockedFiles
    PROVE  Spec => []Aimed
  <1>1. Init => Aimed
    BY DEF Init, Aimed, Removing, Rotates, Idle
  <1>2. RevokeInv /\ Aimed /\ [Next]_vars => Aimed'
    <2> SUFFICES ASSUME RevokeInv, Aimed, [Next]_vars
                 PROVE  Aimed'
      OBVIOUS
    <2>1. ASSUME NEW h \in Handlers, Admin(h)
          PROVE  Aimed'
      BY <2>1, AimedAdmin
    <2>2. ASSUME NEW k \in Kids, Restart(k)
          PROVE  Aimed'
      BY <2>2 DEF Restart, Aimed, Removing, Rotates, Idle
    <2>3. ASSUME \A h \in Handlers : ~Admin(h), \A k \in Kids : ~Restart(k)
          PROVE  UNCHANGED <<active, req>>
      BY <2>3
      DEF Next, vars, files, GraceEnds, ServeJWKS, PageAges, SignGlobal, SignerAges, LastJWKSAges
    <2>4. QED
      BY <2>1, <2>2, <2>3 DEF Aimed, Removing, Rotates
  <1>3. QED
    BY <1>1, <1>2, RevokeHolds, PTL DEF Spec

\* As long as no rotation overlaps with a revocation and a failed rename
\* leaves its target, a directory's active key goes only when that very key is
\* revoked: no error, crash, restart or overlapping rotation takes it, and of
\* revocations that overlap none removes a key other than the one it found.
THEOREM NoneDisappears ==
    ASSUME Unmixed, ~LockedFiles
    PROVE  Spec => OnlyRevokedDisappear
  <1>1. ASSUME RevokeInv, Aimed, [Next]_vars, NEW d \in Dirs,
               active[d] # NoKey, active'[d] = NoKey
        PROVE  active[d] \in revoked'
    <2>1. ASSUME NEW h \in Handlers, NEW k \in Kids, SaveActive(h, k)
          PROVE  FALSE
      <3>1. active' = [active EXCEPT ![req[h].dir] = k] /\ k # NoKey
        BY <2>1, ConstantsAssumption DEF SaveActive
      <3>2. QED
        BY <1>1, <3>1 DEF RevokeInv, TypeOK
    <2>2. ASSUME NEW k \in Kids, Restart(k)
          PROVE  FALSE
      <3>1. k # NoKey
        BY ConstantsAssumption
      <3>2. UNCHANGED active \/ active' = [active EXCEPT ![Global] = k]
        BY <2>2 DEF Restart
      <3>3. QED
        BY <1>1, <3>1, <3>2 DEF RevokeInv, TypeOK
    <2>3. ASSUME NEW h \in Handlers, RevokeRemove(h)
          PROVE  active[d] \in revoked'
      <3>1. /\ req[h].step = "remove" /\ req[h].file = "active"
            /\ active' = [active EXCEPT ![req[h].dir] = NoKey]
        BY <1>1, <2>3 DEF RevokeRemove
      <3>2. req[h].dir = d
        BY <1>1, <3>1 DEF RevokeInv, TypeOK
      <3>3. active[d] = req[h].kid
        BY <1>1, <3>1, <3>2 DEF Aimed, Removing
      <3>4. QED
        BY <1>1, <2>3, <3>1, <3>2, <3>3 DEF RevokeRemove
    <2>4. QED
      BY <1>1, <2>1, <2>2, <2>3, ActiveSame
  <1>2. RevokeInv /\ Aimed /\ [Next]_vars
          => [\A d \in Dirs : active[d] # NoKey /\ active'[d] = NoKey
                              => active[d] \in revoked']_vars
    BY <1>1
  <1>3. QED
    BY <1>2, RevokeHolds, AimedHolds, PTL DEF Spec, OnlyRevokedDisappear
=============================================================================
