------------------------------ MODULE KeyStore ------------------------------
(***************************************************************************)
(* The signing keys: the files active.json and retiring.json of the global *)
(* directory and of each tenant's directory, the admin operations that     *)
(* rotate and revoke them, and the caches through which the server signs,  *)
(* verifies and publishes.                                                 *)
(*                                                                         *)
(* The issuer keeps one keyRepo for the life of the process, guarded by    *)
(* its RWMutex ("shared"); the admin key service asks the connection for a *)
(* keyRepo on every request and gets a new one with a mutex of its own     *)
(* ("private").  A rotation is three steps because nothing keeps a request *)
(* on another keyRepo, or a crash, from coming between them; a reading     *)
(* request is one, since whatever comes between its two file reads gives   *)
(* an answer that an atomic read could have given.                         *)
(*                                                                         *)
(* The size of Kids bounds how many keys a behaviour generates.            *)
(***************************************************************************)
EXTENDS Naturals, FiniteSets

CONSTANTS
    Tenants,      \* slugs of the tenants
    Global,       \* the name of the global key directory
    Keyed,        \* directories with an active key at first start
    Kids,         \* key ids
    Handlers,     \* admin requests being served
    Instances,    \* the keyRepos rotations go through: "shared", "private"
    Graces,       \* graceSeconds of a rotation: "timed" or "zero"
    Operations,   \* the admin operations in use: "rotate", "revoke"
    Readers,      \* directories whose JWKS endpoint is polled
    Faults,       \* TRUE when writing a file may fail
    LockedFiles,  \* TRUE when a failed rename may have removed its target
    Patient,      \* TRUE when nobody rotates while a replaced key has grace left
    LongGrace,    \* TRUE when the grace period outlasts the signer cache (30 s)
                  \* and the rest of the rotation that starts it
    NoKey, None   \* no key; no request

Dirs == Tenants \cup {Global}

ASSUME ConstantsAssumption ==
    /\ Global \notin Tenants
    /\ Keyed \subseteq Dirs
    /\ Instances \subseteq {"shared", "private"}
    /\ Graces \subseteq {"timed", "zero"}
    /\ Operations \subseteq {"rotate", "revoke"}
    /\ Readers \subseteq Dirs
    /\ NoKey \notin Kids
    /\ None \notin Handlers
    /\ {Faults, LockedFiles, Patient, LongGrace} \subseteq BOOLEAN

VARIABLES
    active,     \* active.json of each directory
    retiring,   \* retiring.json of each directory, with its grace period
    expired,    \* keys whose grace period has run out
    lock,       \* the request that holds the shared keyRepo's write lock
    req,        \* what each admin request still has to do
    signer,     \* PersistentKeystore: the global active key it has cached
    lastJWKS,   \* PersistentKeystore: the global JWKS it has cached
    page,       \* JWKSCache: what the JWKS endpoint serves
    minted,     \* every key generated so far
    replaced,   \* history: keys that a rotation with a grace period replaced
    revoked     \* history: keys that a revocation reported as revoked

files   == <<active, retiring>>
caches  == <<signer, lastJWKS, page>>
history == <<replaced, revoked>>
vars    == <<files, expired, lock, req, caches, minted, history>>

Retired == [kid: Kids, grace: {"timed", "zero"}]
NoFile == [kid |-> NoKey, grace |-> "timed"]

Idle == [step |-> "idle"]
Rotation == [step: {"retire", "activate"}, dir: Dirs, shared: BOOLEAN,
             grace: {"timed", "zero"}, cur: Kids]
Waiting  == [step: {"stuck"}, dir: Dirs, shared: BOOLEAN]
Removal  == [step: {"remove"}, dir: Dirs, file: {"active", "retiring"}, kid: Kids]
Request  == {Idle} \cup Rotation \cup Waiting \cup Removal

Cached == [keys: SUBSET Kids, fresh: BOOLEAN]
Empty == [keys |-> {}, fresh |-> FALSE]

TypeOK ==
    /\ active \in [Dirs -> Kids \cup {NoKey}]
    /\ retiring \in [Dirs -> Retired \cup {NoFile}]
    /\ expired \subseteq Kids
    /\ lock \in Handlers \cup {None}
    /\ req \in [Handlers -> Request]
    /\ signer \in [kid: Kids \cup {NoKey}, fresh: BOOLEAN]
    /\ lastJWKS \in Cached
    /\ page \in [Dirs -> Cached]
    /\ minted \subseteq Kids
    /\ replaced \in [Dirs -> SUBSET Kids]
    /\ revoked \subseteq Kids

\* The first start: the directories of Keyed have a key each (the global one
\* from EnsureBootstrap, a tenant's from the V1 layout the format keeps to).
Init ==
    /\ active \in {f \in [Dirs -> Kids \cup {NoKey}] :
                      /\ \A d \in Dirs : f[d] # NoKey <=> d \in Keyed
                      /\ \A d, e \in Keyed : f[d] = f[e] => d = e}
    /\ minted = {active[d] : d \in Keyed}
    /\ retiring = [d \in Dirs |-> NoFile]
    /\ expired = {}
    /\ lock = None
    /\ req = [h \in Handlers |-> Idle]
    /\ signer = [kid |-> NoKey, fresh |-> FALSE]
    /\ lastJWKS = Empty
    /\ page = [d \in Dirs |-> Empty]
    /\ replaced = [d \in Dirs |-> {}]
    /\ revoked = {}

-----------------------------------------------------------------------------
(* Reading the files                                                        *)

\* isWithinGracePeriod: without grace metadata the key counts as within.
InGrace(r) == r # NoFile /\ (r.grace = "zero" \/ r.kid \notin expired)

Retiring(d) == IF InGrace(retiring[d]) THEN {retiring[d].kid} ELSE {}

\* Mutant: the retiring key is left out of the JWKS.
JWKSActiveOnly(d) ==
    IF active[d] # NoKey THEN {active[d]} ELSE {active[Global]} \ {NoKey}

\* keyRepo.GetJWKS: a tenant without an active key shows the global keys.
JWKS(d) ==
    LET from == IF active[d] # NoKey THEN d ELSE Global
    IN  ({active[from]} \ {NoKey}) \cup Retiring(from)

\* keyRepo.GetActive, with the same fallback.
ActiveKey(d) == IF active[d] # NoKey THEN active[d] ELSE active[Global]

\* KeyfuncFromTokenClaims: the keystore's cached key, the tenant's JWKS and
\* then the global one.  Keyfunc, and so every bearer check and userinfo, is
\* the same for the global directory.
AcceptedFor(d) == ({signer.kid} \ {NoKey}) \cup JWKS(d) \cup JWKS(Global)

-----------------------------------------------------------------------------
(* Rotation                                                                 *)

Resume(h, r) == req' = [req EXCEPT ![h] = r]

\* The end of a request: a shared rotation unlocks.
Finish(h) ==
    /\ Resume(h, Idle)
    /\ lock' = IF lock = h THEN None ELSE lock

\* What Patient asks of the administrators.
GraceLeft(d) == InGrace(retiring[d]) /\ retiring[d].kid # active[d]

\* Mutant: a directory without an active key is rotated like any other.
RotateStartAnyDir(h, d, instance, grace) ==
    /\ "rotate" \in Operations
    /\ req[h] = Idle
    /\ instance = "shared" => d \in Tenants /\ lock = None
    /\ instance = "private" => grace = "timed"
    /\ lock' = IF instance = "shared" THEN h ELSE lock
    /\ Resume(h, [step |-> "retire", dir |-> d, grace |-> grace,
                  shared |-> instance = "shared", cur |-> active[d]])
    /\ UNCHANGED <<files, expired, caches, minted, history>>

\* The tenant service rotates a tenant's directory through the issuer's
\* keyRepo and may pass graceSeconds = 0; the key service rotates any
\* directory, and its controller replaces 0 by 24 hours.
RotateStart(h, d, instance, grace) ==
    /\ "rotate" \in Operations
    /\ req[h] = Idle
    /\ instance = "shared" => d \in Tenants /\ lock = None
    /\ instance = "private" => grace = "timed"
    /\ Patient => ~GraceLeft(d)
    /\ lock' = IF instance = "shared" THEN h ELSE lock
    /\ \/ /\ active[d] # NoKey
          /\ Resume(h, [step |-> "retire", dir |-> d, grace |-> grace,
                        shared |-> instance = "shared", cur |-> active[d]])
       \* No active key: Rotate calls Generate, which locks the same mutex.
       \/ /\ active[d] = NoKey
          /\ Resume(h, [step |-> "stuck", dir |-> d, shared |-> instance = "shared"])
    /\ UNCHANGED <<files, expired, caches, minted, history>>

\* Mutant: the rotation goes on to the new key without the old one's file.
SaveRetiringSkipped(h) ==
    LET r == req[h] IN
    /\ r.step = "retire"
    /\ Resume(h, [r EXCEPT !.step = "activate"])
    /\ UNCHANGED <<files, expired, lock, caches, minted, history>>

\* saveRetiringWithGrace replaces the one retiring file.
SaveRetiring(h) ==
    LET r == req[h] IN
    /\ r.step = "retire"
    /\ retiring' = [retiring EXCEPT ![r.dir] = [kid |-> r.cur, grace |-> r.grace]]
    /\ expired' = expired \ {r.cur}
    /\ Resume(h, [r EXCEPT !.step = "activate"])
    /\ UNCHANGED <<active, lock, caches, minted, history>>

\* Mutant: active.json is replaced before the old key is in retiring.json.
SaveActiveFirst(h, new) ==
    LET r == req[h] IN
    /\ r.step \in {"retire", "activate"}
    /\ new \notin minted
    /\ minted' = minted \cup {new}
    /\ active' = [active EXCEPT ![r.dir] = new]
    /\ replaced' = [replaced EXCEPT ![r.dir] = @ \cup ({active[r.dir]} \ {NoKey})]
    /\ Finish(h)
    /\ UNCHANGED <<retiring, expired, caches, revoked>>

\* generateNewKey and saveKeyToFile.
SaveActive(h, new) ==
    LET r == req[h] IN
    /\ r.step = "activate"
    /\ new \notin minted
    /\ minted' = minted \cup {new}
    /\ active' = [active EXCEPT ![r.dir] = new]
    /\ replaced' = IF r.grace = "timed"
                   THEN [replaced EXCEPT ![r.dir] = @ \cup ({active[r.dir]} \ {NoKey})]
                   ELSE replaced
    /\ Finish(h)
    /\ UNCHANGED <<retiring, expired, caches, revoked>>

\* Mutant: a failed rotation puts the key it read back.
WriteFailsRollback(h) ==
    LET r == req[h] IN
    /\ Faults
    /\ r.step \in {"retire", "activate"}
    /\ active' = [active EXCEPT ![r.dir] = r.cur]
    /\ UNCHANGED retiring
    /\ Finish(h)
    /\ UNCHANGED <<expired, caches, minted, history>>

\* Mutant: the file is removed before the new one is renamed to it.
WriteFailsRemoved(h) ==
    LET r == req[h] IN
    /\ Faults
    /\ r.step \in {"retire", "activate"}
    /\ IF r.step = "retire"
       THEN /\ retiring' = [retiring EXCEPT ![r.dir] = NoFile]
            /\ UNCHANGED active
       ELSE /\ active' = [active EXCEPT ![r.dir] = NoKey]
            /\ UNCHANGED retiring
    /\ Finish(h)
    /\ UNCHANGED <<expired, caches, minted, history>>

\* AtomicWriteFile fails and the rotation returns the error.  When rename
\* fails it removes the target and tries once more.
WriteFails(h) ==
    LET r == req[h] IN
    /\ Faults
    /\ r.step \in {"retire", "activate"}
    /\ \/ UNCHANGED files
       \/ /\ LockedFiles
          /\ IF r.step = "retire"
             THEN /\ retiring' = [retiring EXCEPT ![r.dir] = NoFile]
                  /\ UNCHANGED active
             ELSE /\ active' = [active EXCEPT ![r.dir] = NoKey]
                  /\ UNCHANGED retiring
    /\ Finish(h)
    /\ UNCHANGED <<expired, caches, minted, history>>

-----------------------------------------------------------------------------
(* Revocation, through a keyRepo of the request's own                       *)

\* keyRepo.Revoke looks for the first file with the key id ...
RevokeFind(h, k) ==
    /\ "revoke" \in Operations
    /\ req[h] = Idle
    /\ \E d \in Dirs :
          \/ /\ active[d] = k
             /\ Resume(h, [step |-> "remove", dir |-> d, file |-> "active", kid |-> k])
          \/ /\ \A e \in Dirs : active[e] # k
             /\ retiring[d].kid = k
             /\ Resume(h, [step |-> "remove", dir |-> d, file |-> "retiring", kid |-> k])
    /\ UNCHANGED <<files, expired, lock, caches, minted, history>>

\* ... and removes it by its path; a file that is gone by then is an error.
RevokeRemove(h) ==
    LET r == req[h]
        gone == IF r.file = "active" THEN active[r.dir] = NoKey
                                     ELSE retiring[r.dir] = NoFile
    IN
    /\ r.step = "remove"
    /\ active' = IF r.file = "active" THEN [active EXCEPT ![r.dir] = NoKey] ELSE active
    /\ retiring' = IF r.file = "retiring" THEN [retiring EXCEPT ![r.dir] = NoFile]
                                          ELSE retiring
    /\ revoked' = IF gone THEN revoked ELSE revoked \cup {r.kid}
    /\ Resume(h, Idle)
    /\ UNCHANGED <<expired, lock, caches, minted, replaced>>

-----------------------------------------------------------------------------
(* Signing and publishing                                                   *)

\* ActiveForTenant(""): the cached key while it is fresh, else a read of the
\* shared keyRepo.  A tenant's key is read every time and cached nowhere.
SignGlobal ==
    /\ ~signer.fresh
    /\ lock = None
    /\ active[Global] # NoKey
    /\ signer' = [kid |-> active[Global], fresh |-> TRUE]
    /\ UNCHANGED <<files, expired, lock, req, lastJWKS, page, minted, history>>

SignerAges ==
    /\ signer.fresh
    /\ signer' = [signer EXCEPT !.fresh = FALSE]
    /\ UNCHANGED <<files, expired, lock, req, lastJWKS, page, minted, history>>

\* JWKSCache.Get; the global entry is loaded through the keystore's own cache.
ServeJWKS(d) ==
    /\ d \in Readers
    /\ ~page[d].fresh
    /\ IF d = Global /\ lastJWKS.fresh
       THEN /\ page' = [page EXCEPT ![d] = [keys |-> lastJWKS.keys, fresh |-> TRUE]]
            /\ UNCHANGED lastJWKS
       ELSE /\ lock = None
            /\ page' = [page EXCEPT ![d] = [keys |-> JWKS(d), fresh |-> TRUE]]
            /\ lastJWKS' = IF d = Global THEN page'[d] ELSE lastJWKS
    /\ UNCHANGED <<files, expired, lock, req, signer, minted, history>>

PageAges(d) ==
    /\ page[d].fresh
    /\ page' = [page EXCEPT ![d].fresh = FALSE]
    /\ UNCHANGED <<files, expired, lock, req, signer, lastJWKS, minted, history>>

LastJWKSAges ==
    /\ lastJWKS.fresh
    /\ lastJWKS' = [lastJWKS EXCEPT !.fresh = FALSE]
    /\ UNCHANGED <<files, expired, lock, req, signer, page, minted, history>>

\* The clock passes retired_at + grace_seconds of a key.
GraceEnds(k) ==
    /\ k \notin expired
    /\ \E d \in Dirs : retiring[d].kid = k \/ k \in replaced[d]
    /\ LongGrace => /\ ~(signer.fresh /\ signer.kid = k)
                    /\ ~\E h \in Handlers : req[h].step = "activate" /\ req[h].cur = k
    /\ expired' = expired \cup {k}
    /\ UNCHANGED <<files, lock, req, caches, minted, history>>

-----------------------------------------------------------------------------
\* The process dies and starts again; EnsureBootstrap generates a global key
\* when there is none.
Restart(new) ==
    /\ Faults
    /\ req' = [h \in Handlers |-> Idle]
    /\ lock' = None
    /\ signer' = [kid |-> NoKey, fresh |-> FALSE]
    /\ lastJWKS' = Empty
    /\ page' = [d \in Dirs |-> Empty]
    /\ IF active[Global] = NoKey
       THEN /\ new \notin minted
            /\ minted' = minted \cup {new}
            /\ active' = [active EXCEPT ![Global] = new]
       ELSE UNCHANGED <<minted, active>>
    /\ UNCHANGED <<retiring, expired, history>>

Admin(h) ==
    \/ \E d \in Dirs, i \in Instances, g \in Graces : RotateStart(h, d, i, g)
    \/ SaveRetiring(h)
    \/ \E k \in Kids : SaveActive(h, k) \/ RevokeFind(h, k)
    \/ WriteFails(h)
    \/ RevokeRemove(h)

Next ==
    \/ \E h \in Handlers : Admin(h)
    \/ \E d \in Dirs : ServeJWKS(d) \/ PageAges(d)
    \/ \E k \in Kids : GraceEnds(k) \/ Restart(k)
    \/ SignGlobal
    \/ SignerAges
    \/ LastJWKSAges

Spec == Init /\ [][Next]_vars

-----------------------------------------------------------------------------
(* Properties                                                               *)

\* A key that a rotation replaced is published until its grace period ends
\* or it is revoked, or the key in its place is.
KeptForGrace ==
    \A d \in Dirs :
       active[d] # NoKey => replaced[d] \ (expired \cup revoked) \subseteq JWKS(d)

\* The key the server would sign with from its cache is one it publishes, but
\* for a key revoked since it was cached.
SignerPublished ==
    signer.fresh => signer.kid \in JWKS(Global) \cup revoked

\* A directory loses its active key only when that key is revoked: not by
\* an error, a crash or another request in the middle of a rotation.
OnlyRevokedDisappear ==
    [][\A d \in Dirs : active[d] # NoKey /\ active'[d] = NoKey
                       => active[d] \in revoked']_vars

\* A revoked key is never again the key a directory signs with, whatever
\* rotation, failed write or restart comes after or between.
RevokedStaysInactive ==
    \A k \in revoked, d \in Dirs : active[d] # k

\* Each directory is a key ring: crashes and failed writes included, a
\* rotation takes effect in the one step that replaces active.json.
Ring == INSTANCE KeyRing WITH
           signing   <- active,
           published <- [d \in Dirs |-> ({active[d]} \ {NoKey}) \cup Retiring(d)]

RotationIsAtomic == Ring!Spec

-----------------------------------------------------------------------------
(* What the code does not promise: TLC refutes each of these, in a run or   *)
(* with the constants the README names.                                     *)

\* No request waits for a lock that it holds itself.
NoSelfWait == \A h \in Handlers : req[h].step # "stuck"

\* A revoked key is accepted by no verification.
RevokedRejected ==
    \A k \in revoked, d \in Dirs : k \notin AcceptedFor(d)

\* A revoked key is in no file.
RevokedGone ==
    \A k \in revoked, d \in Dirs : active[d] # k /\ retiring[d].kid # k

\* A key that was retired with a grace of zero seconds is not published.
ZeroGraceDrops ==
    \A d \in Dirs : retiring[d] # NoFile /\ retiring[d].grace = "zero"
                    /\ retiring[d].kid # active[d]
                    => retiring[d].kid \notin JWKS(d)

\* The keys the JWKS endpoint serves include the one that signs.
EndpointKnowsSigner ==
    \A d \in Tenants : page[d].fresh => ActiveKey(d) \in page[d].keys
=============================================================================
