-------------------------- MODULE ConfigStoreProof --------------------------
(***************************************************************************)
(* Invariants of ConfigStore, proved for every set of tenants, items and   *)
(* concurrent requests, with and without crashes and failing writes.       *)
(***************************************************************************)
EXTENDS ConfigStore, TLAPS

\* The step of a request determines what it carries.
LEMMA RequestShape ==
    ASSUME NEW r \in Request
    PROVE  /\ r.step \in {"truncate", "fill"} => r \in Rewrite
           /\ r.step \in {"dependents", "drop"} => r \in Scoped
           /\ r.step \in {"update", "open", "write"} => r \in Settled
           /\ r.step = "remove" => r \in Removal
  <1>1. CASE r = Idle
    BY <1>1 DEF Idle
  <1>2. CASE r \in Rewrite
    BY <1>2 DEF Rewrite
  <1>3. CASE r \in Waiting
    BY <1>3 DEF Waiting
  <1>4. CASE r \in Scoped
    BY <1>4 DEF Scoped
  <1>5. CASE r \in Settled
    BY <1>5 DEF Settled
  <1>6. CASE r \in Removal
    BY <1>6 DEF Removal
  <1>7. QED
    BY <1>1, <1>2, <1>3, <1>4, <1>5, <1>6 DEF Request

\* Whatever a request is made to do next is a request again.
LEMMA ResumeType ==
    ASSUME TypeOK, NEW h \in Handlers, NEW r \in Request, Resume(h, r)
    PROVE  req' \in [Handlers -> Request]
  BY DEF Resume, TypeOK

\* A request at rest is one.
LEMMA IdleType == Idle \in Request
  BY DEF Request

\* The names of a kind are names.
LEMMA NamedType == \A k \in Kinds : Named(k) \subseteq Names
  BY DEF Named, Names, Kinds

\* A file with one item changed is a file.
LEMMA ChangedType ==
    ASSUME TypeOK, NEW s \in Slugs, NEW k \in Kinds, NEW n \in Names,
           NEW item \in Items \cup {NoItem}
    PROVE  [yaml[s][k] EXCEPT ![n] = item] \in File
  <1>1. yaml[s][k] \in File
    BY DEF TypeOK
  <1>2. QED
    BY <1>1 DEF File

\* Taking the lock for a rewrite keeps the types.
LEMMA RewritingType ==
    ASSUME TypeOK, NEW h \in Handlers, NEW s \in Slugs, NEW k \in Kinds,
           NEW n \in Names, NEW item \in Items \cup {NoItem}, NEW get \in BOOLEAN,
           Rewriting(h, s, k, n, item, get), kept' \subseteq kept
    PROVE  TypeOK'
  <1>1. [step |-> "truncate", slug |-> s, kind |-> k, name |-> n,
         new |-> [yaml[s][k] EXCEPT ![n] = item], get |-> get] \in Request
    BY ChangedType DEF Request, Rewrite
  <1>2. req' \in [Handlers -> Request]
    BY <1>1, ResumeType DEF Rewriting
  <1>3. QED
    BY <1>2 DEF Rewriting, TypeOK
-----------------------------------------------------------------------------
\* The first state is well typed.
LEMMA TypeInit == Init => TypeOK
  BY IdleType DEF Init, TypeOK, NoFiles, Empty, File

\* Each action of a request keeps the type invariant.
LEMMA StepType ==
    ASSUME TypeOK, NEW h \in Handlers, Step(h)
    PROVE  TypeOK'
  <1>r. req[h] \in Request
    BY DEF TypeOK
  <1>e. Empty \in File
    BY DEF Empty, File
  <1>1. ASSUME NEW s \in Slugs, NEW k \in Kinds, NEW n \in Named(k), NEW item \in Items,
               CreateItem(h, s, k, n, item) \/ UpdateItem(h, s, k, n, item)
        PROVE  TypeOK'
    BY <1>1, RewritingType, NamedType DEF CreateItem, UpdateItem
  <1>2. ASSUME NEW s \in Slugs, NEW k \in Kinds, NEW n \in Named(k), DeleteItem(h, s, k, n)
        PROVE  TypeOK'
    BY <1>2, RewritingType, NamedType DEF DeleteItem
  <1>3. ASSUME NEW s \in Slugs, NEW n \in Scopes, ScopeClients(h, s, n)
        PROVE  TypeOK'
    <2>1. [step |-> "dependents", slug |-> s, name |-> n] \in Request
      BY DEF Request, Scoped
    <2>2. QED
      BY <1>3, <2>1, ResumeType DEF ScopeClients, TypeOK
  <1>4. ASSUME NEW s \in Slugs, CreateTenant(h, s)
        PROVE  TypeOK'
    <2>1. [step |-> "open", slug |-> s, was |-> "ok"] \in Request
      BY DEF Request, Settled
    <2>2. QED
      BY <1>4, <2>1, ResumeType DEF CreateTenant, TypeOK
  <1>5. ASSUME NEW s \in Slugs, ReadTenant(h, s)
        PROVE  TypeOK'
    <2>1. tenant[s] \in {"blank", "ok"}
      BY <1>5 DEF ReadTenant, TypeOK
    <2>2. [step |-> "update", slug |-> s, was |-> tenant[s]] \in Request
      BY <2>1 DEF Request, Settled
    <2>3. QED
      BY <1>5, <2>2, ResumeType DEF ReadTenant, TypeOK
  <1>6. ASSUME NEW s \in Slugs, DeleteTenant(h, s)
        PROVE  TypeOK'
    <2>1. [step |-> "remove", slug |-> s] \in Request
      BY DEF Request, Removal
    <2>2. QED
      BY <1>6, <2>1, ResumeType DEF DeleteTenant, TypeOK
  <1>7. ASSUME Truncate(h)
        PROVE  TypeOK'
    <2>1. req[h] \in Rewrite
      BY <1>7, <1>r, RequestShape DEF Truncate
    <2>2. [req[h] EXCEPT !.step = "fill"] \in Request
      BY <2>1 DEF Rewrite, Request
    <2>3. yaml' \in [Slugs -> [Kinds -> File]]
      BY <1>7, <1>e, <2>1 DEF Truncate, TypeOK, Rewrite
    <2>4. QED
      BY <1>7, <2>2, <2>3, ResumeType DEF Truncate, TypeOK
  <1>8. ASSUME Fill(h)
        PROVE  TypeOK'
    <2>1. req[h] \in Rewrite
      BY <1>8, <1>r, RequestShape DEF Fill
    <2>2. /\ req[h].slug \in Slugs /\ req[h].kind \in Kinds
          /\ req[h].name \in Names /\ req[h].new \in File
      BY <2>1 DEF Rewrite
    <2>3. [step |-> "stuck", slug |-> req[h].slug] \in Request
      BY <2>2 DEF Request, Waiting
    <2>4. yaml' \in [Slugs -> [Kinds -> File]]
      BY <1>8, <2>2 DEF Fill, TypeOK
    <2>5. kept' \subseteq Slugs \X Kinds \X Names
      BY <1>8, <2>2 DEF Fill, TypeOK
    <2>6. req' \in [Handlers -> Request] /\ lock' \in Handlers \cup {None}
      BY <1>8, <2>3, ResumeType, IdleType DEF Fill, TypeOK
    <2>7. late' \in [Handlers -> SUBSET Clients]
      BY <1>8 DEF Fill
    <2>8. QED
      BY <1>8, <2>4, <2>5, <2>6, <2>7 DEF Fill, TypeOK
  <1>9. ASSUME Fails(h)
        PROVE  TypeOK'
    BY <1>9, ResumeType, IdleType DEF Fails, TypeOK
  <1>10. ASSUME ScopeDependents(h)
         PROVE  TypeOK'
    <2>1. req[h] \in Scoped
      BY <1>10, <1>r, RequestShape DEF ScopeDependents
    <2>2. [req[h] EXCEPT !.step = "drop"] \in Request
      BY <2>1 DEF Scoped, Request
    <2>3. QED
      BY <1>10, <2>2, ResumeType, IdleType DEF ScopeDependents, TypeOK
  <1>11. ASSUME ScopeDrop(h)
         PROVE  TypeOK'
    <2>1. req[h] \in Scoped
      BY <1>11, <1>r, RequestShape DEF ScopeDrop
    <2>2. /\ req[h].slug \in Slugs /\ req[h].name \in Names
          /\ "scopes" \in Kinds
      BY <2>1 DEF Scoped, Names, Kinds
    <2>3. CASE yaml[req[h].slug]["scopes"][req[h].name] = NoItem
      BY <1>11, <2>3, ResumeType, IdleType DEF ScopeDrop, TypeOK
    <2>4. CASE yaml[req[h].slug]["scopes"][req[h].name] # NoItem
      BY <1>11, <2>2, <2>4, RewritingType DEF ScopeDrop
    <2>5. QED
      BY <2>3, <2>4
  <1>12. ASSUME UpdateTenant(h)
         PROVE  TypeOK'
    <2>1. req[h] \in Settled
      BY <1>12, <1>r, RequestShape DEF UpdateTenant
    <2>2. [req[h] EXCEPT !.step = "open"] \in Request
      BY <2>1 DEF Settled, Request
    <2>3. QED
      BY <1>12, <2>2, ResumeType, IdleType DEF UpdateTenant, TypeOK
  <1>13. ASSUME OpenTenant(h)
         PROVE  TypeOK'
    <2>1. req[h] \in Settled
      BY <1>13, <1>r, RequestShape DEF OpenTenant
    <2>2. [req[h] EXCEPT !.step = "write"] \in Request
      BY <2>1 DEF Settled, Request
    <2>3. QED
      BY <1>13, <2>2, ResumeType DEF OpenTenant, TypeOK
  <1>14. ASSUME WriteTenant(h)
         PROVE  TypeOK'
    <2>1. req[h].was \in {"blank", "ok"}
      BY <1>14, <1>r, RequestShape DEF WriteTenant, Settled
    <2>2. QED
      BY <1>14, <2>1, ResumeType, IdleType DEF WriteTenant, TypeOK
  <1>15. ASSUME RemoveFile(h)
         PROVE  TypeOK'
    <2>1. UNCHANGED <<dir, lock, req, kept, late>>
      BY <1>15 DEF RemoveFile
    <2>2. /\ tenant' \in [Slugs -> {"missing", "blank", "ok"}]
          /\ yaml' \in [Slugs -> [Kinds -> File]]
      <3>1. CASE UNCHANGED yaml
        BY <1>15, <3>1 DEF RemoveFile, TypeOK
      <3>2. ASSUME NEW k \in Kinds, UNCHANGED tenant,
                   yaml' = [yaml EXCEPT ![req[h].slug][k] = Empty]
            PROVE  yaml' \in [Slugs -> [Kinds -> File]]
        BY <3>2, <1>e DEF TypeOK
      <3>3. QED
        BY <1>15, <3>1, <3>2 DEF RemoveFile, TypeOK
    <2>3. QED
      BY <2>1, <2>2 DEF TypeOK
  <1>16. ASSUME RemoveDir(h)
         PROVE  TypeOK'
    BY <1>16, ResumeType, IdleType DEF RemoveDir, TypeOK
  <1>17. QED
    BY <1>1, <1>2, <1>3, <1>4, <1>5, <1>6, <1>7, <1>8, <1>9, <1>10, <1>11, <1>12,
       <1>13, <1>14, <1>15, <1>16 DEF Step

\* So does every step.
LEMMA TypeStep == TypeOK /\ [Next]_vars => TypeOK'
  <1> SUFFICES ASSUME TypeOK, [Next]_vars
               PROVE  TypeOK'
    OBVIOUS
  <1>1. CASE Restart
    BY <1>1, IdleType DEF Restart, TypeOK
  <1>2. ASSUME NEW h \in Handlers, Step(h)
        PROVE  TypeOK'
    BY <1>2, StepType
  <1>3. CASE UNCHANGED vars
    BY <1>3 DEF vars, TypeOK
  <1>4. QED
    BY <1>1, <1>2, <1>3 DEF Next

\* Every reachable state is well typed: the files, the lock, what each
\* request holds and the history variables.
THEOREM TypeCorrect == Spec => []TypeOK
  BY TypeInit, TypeStep, PTL DEF Spec
-----------------------------------------------------------------------------
(* Answered items are kept.  AnsweredKept is not inductive: the request that *)
(* has read the file must know every answered item already before it         *)
(* truncates, which it does because it holds the lock from its read to the   *)
(* end of its write.                                                         *)

\* The steps of a request that holds the write lock.
LockedSteps == {"truncate", "fill", "stuck", "open", "write", "remove"}

Exclusion == \A h \in Handlers : req[h].step \in LockedSteps => lock = h

\* A rewrite puts every answered item of its file back.
Rewriter(h) ==
    req[h].step \in {"truncate", "fill"} =>
        \A n \in Names : <<req[h].slug, req[h].kind, n>> \in kept
                        => req[h].new[n] # NoItem

\* A tenant that is being removed has no items anybody counts on.
Remover(h) ==
    req[h].step = "remove" =>
        \A k \in Kinds, n \in Names : <<req[h].slug, k, n>> \notin kept

KeptInv ==
    /\ Exclusion
    /\ \A h \in Handlers : Rewriter(h)
    /\ \A h \in Handlers : Remover(h)
    /\ AnsweredKept

\* While nobody holds the lock, every answered item is in its file.
LEMMA KeptAtRest ==
    ASSUME KeptInv, TypeOK, lock = None,
           NEW s \in Slugs, NEW k \in Kinds, NEW n \in Names, <<s, k, n>> \in kept
    PROVE  yaml[s][k][n] # NoItem
  <1>1. ASSUME NEW h \in Handlers
        PROVE  req[h].step # "fill"
    BY ConstantsAssumption DEF KeptInv, Exclusion, LockedSteps
  <1>2. QED
    BY <1>1 DEF KeptInv, AnsweredKept

\* Taking the lock for a rewrite that deletes at most the named item.
LEMMA RewritingKept ==
    ASSUME TypeOK, KeptInv, NEW h \in Handlers, lock = None,
           NEW s \in Slugs, NEW k \in Kinds, NEW n \in Names,
           NEW item \in Items \cup {NoItem}, NEW get \in BOOLEAN,
           Rewriting(h, s, k, n, item, get),
           \/ item # NoItem /\ kept' = kept
           \/ kept' = kept \ {<<s, k, n>>}
    PROVE  KeptInv'
  <1>1. req' = [req EXCEPT ![h] = [step |-> "truncate", slug |-> s, kind |-> k,
                 name |-> n, new |-> [yaml[s][k] EXCEPT ![n] = item], get |-> get]]
    BY DEF Rewriting, Resume
  <1>2. \A g \in Handlers : req[g].step \notin LockedSteps
    BY ConstantsAssumption DEF KeptInv, Exclusion
  <1>3. Exclusion'
    BY <1>1, <1>2 DEF Exclusion, TypeOK, Rewriting
  <1>4. ASSUME NEW g \in Handlers
        PROVE  Rewriter(g)' /\ Remover(g)'
    <2>1. CASE g # h
      BY <1>1, <1>2, <2>1 DEF Rewriter, Remover, TypeOK, LockedSteps
    <2>2. CASE g = h
      <3>1. ASSUME NEW m \in Names, <<s, k, m>> \in kept'
            PROVE  [yaml[s][k] EXCEPT ![n] = item][m] # NoItem
        <4>1. yaml[s][k][m] # NoItem
          BY <3>1, KeptAtRest
        <4>2. yaml[s][k] \in [Names -> Items \cup {NoItem}]
          BY DEF TypeOK, File
        <4>3. m = n => item # NoItem
          BY <3>1
        <4>4. QED
          BY <4>1, <4>2, <4>3
      <3>2. req'[h].step = "truncate" /\ req'[h].slug = s /\ req'[h].kind = k
            /\ req'[h].new = [yaml[s][k] EXCEPT ![n] = item]
        BY <1>1 DEF TypeOK
      <3>3. QED
        BY <2>2, <3>1, <3>2 DEF Rewriter, Remover
    <2>3. QED
      BY <2>1, <2>2
  <1>5. AnsweredKept'
    BY KeptAtRest DEF AnsweredKept, Rewriting
  <1>6. QED
    BY <1>3, <1>4, <1>5 DEF KeptInv

\* Steps that leave the item files and the answered items alone, and let
\* nobody into a rewrite or a removal.
LEMMA OtherKept ==
    ASSUME TypeOK, KeptInv, NEW h \in Handlers, UNCHANGED <<yaml, kept>>,
           \A g \in Handlers : g # h => req'[g] = req[g],
           req'[h].step \notin {"truncate", "fill", "remove"},
           req[h].step # "fill",
           \A g \in Handlers : req'[g].step \in LockedSteps => lock' = g
    PROVE  KeptInv'
  <1>1. ASSUME NEW g \in Handlers
        PROVE  Rewriter(g)' /\ Remover(g)'
    BY DEF Rewriter, Remover, KeptInv
  <1>2. AnsweredKept'
    BY DEF AnsweredKept, KeptInv
  <1>3. QED
    BY <1>1, <1>2 DEF KeptInv, Exclusion

\* Each action of a request keeps the invariant.
LEMMA StepKept ==
    ASSUME TypeOK, KeptInv, NEW h \in Handlers, Step(h)
    PROVE  KeptInv'
  <1>r. req[h] \in Request /\ \A g \in Handlers : req'[g] \in Request
    BY StepType DEF TypeOK
  <1>n. lock = None => \A g \in Handlers : req[g].step \notin LockedSteps
    BY ConstantsAssumption DEF KeptInv, Exclusion
  <1>h. req[h].step \in LockedSteps =>
           \A g \in Handlers : g # h => req[g].step \notin LockedSteps
    BY DEF KeptInv, Exclusion
  <1>1. ASSUME NEW s \in Slugs, NEW k \in Kinds, NEW n \in Named(k), NEW item \in Items,
               CreateItem(h, s, k, n, item) \/ UpdateItem(h, s, k, n, item)
        PROVE  KeptInv'
    <2>1. item # NoItem /\ n \in Names
      BY ConstantsAssumption, NamedType
    <2>2. QED
      BY <1>1, <2>1, RewritingKept DEF CreateItem, UpdateItem
  <1>2. ASSUME NEW s \in Slugs, NEW k \in Kinds, NEW n \in Named(k), DeleteItem(h, s, k, n)
        PROVE  KeptInv'
    BY <1>2, NamedType, RewritingKept DEF DeleteItem
  <1>3. CASE ScopeDrop(h)
    <2>1. req[h] \in Scoped
      BY <1>3, <1>r, RequestShape DEF ScopeDrop
    <2>2. req[h].slug \in Slugs /\ req[h].name \in Names /\ "scopes" \in Kinds
      BY <2>1 DEF Scoped, Names, Kinds
    <2>3. CASE yaml[req[h].slug]["scopes"][req[h].name] = NoItem
      <3>1. /\ \A g \in Handlers : g # h => req'[g] = req[g]
            /\ req'[h] = Idle /\ req[h].step = "drop" /\ lock = None
            /\ UNCHANGED <<yaml, kept>>
        BY <1>3, <2>3 DEF ScopeDrop, Resume, TypeOK
      <3>2. QED
        BY <1>n, <3>1, OtherKept DEF Idle, LockedSteps
    <2>4. CASE yaml[req[h].slug]["scopes"][req[h].name] # NoItem
      BY <1>3, <2>2, <2>4, RewritingKept DEF ScopeDrop
    <2>5. QED
      BY <2>3, <2>4
  <1>4. ASSUME NEW s \in Slugs, NEW n \in Scopes, ScopeClients(h, s, n)
        PROVE  KeptInv'
    BY <1>4, <1>n, OtherKept DEF ScopeClients, Resume, Idle, LockedSteps, TypeOK
  <1>5. CASE ScopeDependents(h)
    <2>1. req[h] \in Scoped
      BY <1>5, <1>r, RequestShape DEF ScopeDependents
    <2>2. /\ \A g \in Handlers : g # h => req'[g] = req[g]
          /\ req'[h] = Idle \/ req'[h] = [req[h] EXCEPT !.step = "drop"]
          /\ req[h].step = "dependents" /\ lock = None
          /\ UNCHANGED <<yaml, kept>>
      BY <1>5 DEF ScopeDependents, Resume, TypeOK
    <2>3. req'[h].step \in {"idle", "drop"}
      BY <2>1, <2>2 DEF Idle, Scoped
    <2>4. QED
      BY <1>n, <2>2, <2>3, OtherKept DEF LockedSteps
  <1>6. ASSUME NEW s \in Slugs, CreateTenant(h, s)
        PROVE  KeptInv'
    BY <1>6, <1>n, OtherKept DEF CreateTenant, Resume, Idle, LockedSteps, TypeOK
  <1>7. ASSUME NEW s \in Slugs, ReadTenant(h, s)
        PROVE  KeptInv'
    BY <1>7, <1>n, OtherKept DEF ReadTenant, Resume, Idle, LockedSteps, TypeOK
  <1>8. CASE UpdateTenant(h)
    <2>1. req[h] \in Settled
      BY <1>8, <1>r, RequestShape DEF UpdateTenant
    <2>2. /\ \A g \in Handlers : g # h => req'[g] = req[g]
          /\ \/ req'[h] = Idle
             \/ req'[h] = [req[h] EXCEPT !.step = "open"] /\ lock' = h
          /\ req[h].step = "update" /\ lock = None
          /\ UNCHANGED <<yaml, kept>>
      BY <1>8 DEF UpdateTenant, Resume, TypeOK
    <2>3. req'[h].step = "idle" \/ (req'[h].step = "open" /\ lock' = h)
      BY <2>1, <2>2 DEF Idle, Settled
    <2>4. QED
      BY <1>n, <2>2, <2>3, OtherKept DEF LockedSteps
  <1>9. CASE OpenTenant(h)
    <2>1. req[h] \in Settled
      BY <1>9, <1>r, RequestShape DEF OpenTenant
    <2>2. /\ \A g \in Handlers : g # h => req'[g] = req[g]
          /\ req'[h] = [req[h] EXCEPT !.step = "write"]
          /\ req[h].step = "open"
          /\ UNCHANGED <<yaml, kept, lock>>
      BY <1>9 DEF OpenTenant, Resume, TypeOK
    <2>3. req'[h].step = "write" /\ lock = h
      BY <2>1, <2>2 DEF Settled, KeptInv, Exclusion, LockedSteps
    <2>4. QED
      BY <1>h, <2>2, <2>3, OtherKept DEF LockedSteps
  <1>10. CASE WriteTenant(h)
    BY <1>10, <1>h, OtherKept DEF WriteTenant, Resume, Idle, LockedSteps, TypeOK
  <1>11. CASE RemoveDir(h)
    BY <1>11, <1>h, OtherKept DEF RemoveDir, Resume, Idle, LockedSteps, TypeOK
  <1>12. ASSUME NEW s \in Slugs, DeleteTenant(h, s)
         PROVE  KeptInv'
    <2>1. \A g \in Handlers : req'[g] = IF g = h THEN [step |-> "remove", slug |-> s]
                                                 ELSE req[g]
      BY <1>12 DEF DeleteTenant, Resume, TypeOK
    <2>2. Exclusion'
      BY <1>12, <1>n, <2>1 DEF Exclusion, DeleteTenant
    <2>3. ASSUME NEW g \in Handlers
          PROVE  Rewriter(g)' /\ Remover(g)'
      BY <1>12, <1>n, <2>1 DEF DeleteTenant, Rewriter, Remover, LockedSteps
    <2>4. AnsweredKept'
      BY <1>12, KeptAtRest DEF DeleteTenant, AnsweredKept
    <2>5. QED
      BY <2>2, <2>3, <2>4 DEF KeptInv
  <1>13. CASE RemoveFile(h)
    <2>1. UNCHANGED <<req, lock, kept>> /\ req[h].step = "remove"
      BY <1>13 DEF RemoveFile
    <2>2. \A t \in Slugs : t # req[h].slug => yaml'[t] = yaml[t]
      BY <1>13 DEF RemoveFile, TypeOK
    <2>3. AnsweredKept'
      BY <2>1, <2>2 DEF KeptInv, AnsweredKept, Remover
    <2>4. QED
      BY <2>1, <2>3 DEF KeptInv, Exclusion, Rewriter, Remover
  <1>14. CASE Truncate(h)
    <2>1. req[h] \in Rewrite /\ req[h].step = "truncate"
      BY <1>14, <1>r, RequestShape DEF Truncate
    <2>2. /\ \A g \in Handlers : req'[g] = IF g = h THEN [req[h] EXCEPT !.step = "fill"]
                                                  ELSE req[g]
          /\ UNCHANGED <<lock, kept>>
      BY <1>14 DEF Truncate, Resume, TypeOK
    <2>3. /\ req'[h].step = "fill" /\ req'[h].slug = req[h].slug
          /\ req'[h].kind = req[h].kind /\ req'[h].new = req[h].new
      BY <2>1, <2>2 DEF Rewrite
    <2>4. Exclusion'
      BY <2>1, <2>2 DEF Exclusion, KeptInv, LockedSteps
    <2>5. ASSUME NEW g \in Handlers
          PROVE  Rewriter(g)' /\ Remover(g)'
      BY <2>1, <2>2, <2>3 DEF Rewriter, Remover, KeptInv
    <2>6. ASSUME NEW s \in Slugs, NEW k \in Kinds, s # req[h].slug \/ k # req[h].kind
          PROVE  yaml'[s][k] = yaml[s][k]
      BY <1>14, <2>1, <2>6 DEF Truncate, TypeOK, Rewrite
    <2>7. AnsweredKept'
      <3> SUFFICES ASSUME NEW s \in Slugs, NEW k \in Kinds, NEW n \in Names,
                          <<s, k, n>> \in kept
                   PROVE  \/ yaml'[s][k][n] # NoItem
                          \/ \E g \in Handlers : /\ req'[g].step = "fill"
                                                 /\ req'[g].slug = s /\ req'[g].kind = k
                                                 /\ req'[g].new[n] # NoItem
        BY <2>2 DEF AnsweredKept
      <3>1. CASE s = req[h].slug /\ k = req[h].kind
        BY <2>1, <2>3, <3>1 DEF KeptInv, Rewriter
      <3>2. CASE s # req[h].slug \/ k # req[h].kind
        BY <1>h, <2>1, <2>6, <3>2 DEF KeptInv, AnsweredKept, LockedSteps
      <3>3. QED
        BY <3>1, <3>2
    <2>8. QED
      BY <2>4, <2>5, <2>7 DEF KeptInv
  <1>15. CASE Fill(h)
    <2>1. req[h] \in Rewrite /\ req[h].step = "fill"
      BY <1>15, <1>r, RequestShape DEF Fill
    <2>2. \A g \in Handlers : g # h => req'[g] = req[g] /\ req[g].step \notin LockedSteps
      BY <1>15, <1>h, <2>1 DEF Fill, Resume, TypeOK, LockedSteps
    <2>3. /\ req'[h].step \notin {"truncate", "fill", "remove"}
          /\ req'[h].step \in LockedSteps => lock' = h
      BY <1>15, <2>1 DEF Fill, Resume, TypeOK, Idle, LockedSteps, KeptInv, Exclusion
    <2>4. Exclusion' /\ \A g \in Handlers : Rewriter(g)' /\ Remover(g)'
      BY <2>2, <2>3 DEF Exclusion, Rewriter, Remover, LockedSteps
    <2>5. ASSUME NEW s \in Slugs, NEW k \in Kinds, NEW n \in Names, <<s, k, n>> \in kept'
          PROVE  yaml'[s][k][n] # NoItem
      <3>1. CASE s = req[h].slug /\ k = req[h].kind
        <4>1. yaml'[s][k] = req[h].new
          BY <1>15, <3>1 DEF Fill, TypeOK
        <4>2. <<s, k, n>> \in kept \/ req[h].new[n] # NoItem
          BY <1>15, <2>5, <3>1 DEF Fill
        <4>3. QED
          BY <2>1, <3>1, <4>1, <4>2 DEF KeptInv, Rewriter
      <3>2. CASE s # req[h].slug \/ k # req[h].kind
        <4>1. yaml'[s][k] = yaml[s][k]
          BY <1>15, <2>1, <3>2 DEF Fill, TypeOK, Rewrite
        <4>2. <<s, k, n>> \in kept
          BY <1>15, <2>5, <3>2 DEF Fill
        <4>3. QED
          BY <2>1, <2>2, <3>2, <4>1, <4>2 DEF KeptInv, AnsweredKept, LockedSteps
      <3>3. QED
        BY <3>1, <3>2
    <2>6. QED
      BY <2>4, <2>5 DEF KeptInv, AnsweredKept
  <1>16. CASE Fails(h)
    <2>1. req[h].step \in LockedSteps
      BY <1>16 DEF Fails, LockedSteps
    <2>2. \A g \in Handlers : g # h => req'[g] = req[g] /\ req[g].step \notin LockedSteps
      BY <1>16, <1>h, <2>1 DEF Fails, Resume, TypeOK
    <2>3. req'[h].step = "idle"
      BY <1>16 DEF Fails, Resume, TypeOK, Idle
    <2>4. Exclusion' /\ \A g \in Handlers : Rewriter(g)' /\ Remover(g)'
      BY <2>2, <2>3 DEF Exclusion, Rewriter, Remover, LockedSteps
    <2>5. ASSUME NEW s \in Slugs, NEW k \in Kinds, NEW n \in Names, <<s, k, n>> \in kept'
          PROVE  yaml'[s][k][n] # NoItem
      <3>1. yaml' = yaml /\ <<s, k, n>> \in kept /\ <<s, k, n>> \notin Lost(h)
        BY <1>16, <2>5 DEF Fails
      <3>2. req[h].step = "fill" => s # req[h].slug \/ k # req[h].kind
        BY <3>1 DEF Lost
      <3>3. QED
        BY <2>2, <3>1, <3>2 DEF KeptInv, AnsweredKept, LockedSteps
    <2>6. QED
      BY <2>4, <2>5 DEF KeptInv, AnsweredKept
  <1>17. QED
    BY <1>1, <1>2, <1>3, <1>4, <1>5, <1>6, <1>7, <1>8, <1>9, <1>10, <1>11, <1>12,
       <1>13, <1>14, <1>15, <1>16 DEF Step

\* A restart loses what was being written and nothing else.
LEMMA RestartKept ==
    ASSUME TypeOK, KeptInv, Restart
    PROVE  KeptInv'
  <1>1. /\ \A g \in Handlers : req'[g].step = "idle"
        /\ yaml' = yaml
    BY DEF Restart, Idle
  <1>2. ASSUME NEW s \in Slugs, NEW k \in Kinds, NEW n \in Names, <<s, k, n>> \in kept'
        PROVE  yaml'[s][k][n] # NoItem
    <2>1. <<s, k, n>> \in kept /\ \A h \in Handlers : <<s, k, n>> \notin Lost(h)
      BY <1>2 DEF Restart
    <2>2. ASSUME NEW h \in Handlers, req[h].step = "fill",
                 req[h].slug = s, req[h].kind = k
          PROVE  FALSE
      BY <2>1, <2>2 DEF Lost
    <2>3. QED
      BY <1>1, <2>1, <2>2 DEF KeptInv, AnsweredKept
  <1>3. QED
    BY <1>1, <1>2 DEF KeptInv, Exclusion, Rewriter, Remover, AnsweredKept, LockedSteps

\* The invariant holds throughout.
LEMMA KeptHolds == Spec => []KeptInv
  <1>1. Init => KeptInv
    BY DEF Init, KeptInv, Exclusion, Rewriter, Remover, AnsweredKept, Idle, LockedSteps
  <1>2. TypeOK /\ KeptInv /\ [Next]_vars => KeptInv'
    <2> SUFFICES ASSUME TypeOK, KeptInv, [Next]_vars
                 PROVE  KeptInv'
      OBVIOUS
    <2>1. CASE UNCHANGED vars
      BY <2>1 DEF vars, KeptInv, Exclusion, Rewriter, Remover, AnsweredKept
    <2>2. CASE Restart
      BY <2>2, RestartKept
    <2>3. ASSUME NEW h \in Handlers, Step(h)
          PROVE  KeptInv'
      BY <2>3, StepKept
    <2>4. QED
      BY <2>1, <2>2, <2>3 DEF Next
  <1>3. QED
    BY <1>1, <1>2, TypeCorrect, PTL DEF Spec

\* An item whose creation was answered is in its file until it is deleted or
\* a crash or an error hits the file while it is truncated, for any number of
\* concurrent requests of any kind.
THEOREM AnsweredItemsKept == Spec => []AnsweredKept
  <1>1. KeptInv => AnsweredKept
    BY DEF KeptInv
  <1>2. QED
    BY <1>1, KeptHolds, PTL
-----------------------------------------------------------------------------
(* A scope in use is kept.  DeleteScope knows who used the scope when it     *)
(* looked; since then a client can use it only by being written, which late  *)
(* records, or by being put back by a request that read the file before,     *)
(* which the lock rules out.                                                 *)

Deleting == {"dependents", "drop"}
Writing  == {"truncate", "fill"}

\* Whoever uses scope n of tenant s, now or once a write has ended, is in L
\* or is what that write changes.
Known(s, n, L) ==
    /\ UsedBy(s, "clients", n) \subseteq L
    /\ \A g \in Handlers :
          (req[g].step \in Writing /\ req[g].slug = s /\ req[g].kind = "clients") =>
              \A c \in Clients :
                  (c # req[g].name /\ req[g].new[c] # NoItem /\ n \in req[g].new[c]) => c \in L

KnownInv ==
    \A h \in Handlers : req[h].step \in Deleting => Known(req[h].slug, req[h].name, late[h])

\* Starting to rewrite a file: it will have what is there but for one item.
LEMMA RewritingKnown ==
    ASSUME TypeOK, NEW h \in Handlers, NEW s \in Slugs, NEW k \in Kinds, NEW m \in Names,
           NEW item, NEW get, Rewriting(h, s, k, m, item, get),
           NEW t \in Slugs, NEW n \in Scopes, NEW L, Known(t, n, L)
    PROVE  Known(t, n, L)'
  <1>1. /\ \A g \in Handlers : g # h => req'[g] = req[g]
        /\ req'[h] = [step |-> "truncate", slug |-> s, kind |-> k, name |-> m,
                      new |-> [yaml[s][k] EXCEPT ![m] = item], get |-> get]
        /\ yaml' = yaml
    BY DEF Rewriting, Resume, TypeOK
  <1>2. \A c \in Clients : c \in Names /\ c # m => [yaml[s][k] EXCEPT ![m] = item][c] = yaml[s][k][c]
    BY DEF TypeOK, File
  <1>3. UsedBy(t, "clients", n)' = UsedBy(t, "clients", n)
    BY <1>1 DEF UsedBy
  <1>4. \A c \in Clients : yaml[t]["clients"][c] # NoItem /\ n \in yaml[t]["clients"][c] => c \in L
    BY DEF Known, UsedBy, Named
  <1>5. ASSUME NEW g \in Handlers, req'[g].step \in Writing, req'[g].slug = t,
               req'[g].kind = "clients",
               NEW c \in Clients, c # req'[g].name, req'[g].new[c] # NoItem, n \in req'[g].new[c]
        PROVE  c \in L
    <2>1. CASE g # h
      BY <1>1, <1>5, <2>1 DEF Known
    <2>2. CASE g = h
      <3>1. /\ req'[h].slug = s /\ req'[h].kind = k /\ req'[h].name = m
            /\ req'[h].new = [yaml[s][k] EXCEPT ![m] = item]
        BY <1>1
      <3>2. req'[h].new[c] = yaml[t]["clients"][c]
        BY <1>2, <1>5, <2>2, <3>1 DEF Names
      <3>3. QED
        BY <1>4, <1>5, <2>2, <3>2
    <2>3. QED
      BY <2>1, <2>2
  <1>6. QED
    BY <1>3, <1>5 DEF Known

\* Steps that write no item file and begin no rewrite.
LEMMA OtherKnown ==
    ASSUME TypeOK, NEW h \in Handlers, \A g \in Handlers : g # h => req'[g] = req[g],
           \/ req'[h].step \notin Writing
           \/ req'[h] = req[h]
           \/ /\ req[h].step \in Writing /\ req'[h].slug = req[h].slug
              /\ req'[h].kind = req[h].kind /\ req'[h].name = req[h].name
              /\ req'[h].new = req[h].new,
           NEW t \in Slugs, NEW n \in Scopes, NEW L, Known(t, n, L),
           \/ yaml'[t]["clients"] = yaml[t]["clients"]
           \/ yaml'[t]["clients"] = Empty
    PROVE  Known(t, n, L)'
  <1>1. UsedBy(t, "clients", n)' \subseteq UsedBy(t, "clients", n)
    BY DEF UsedBy, Empty, Named, Names
  <1>2. QED
    BY <1>1 DEF Known

\* Every step but the end of a write keeps what is known of a scope ...
LEMMA StepKnown ==
    ASSUME TypeOK, NEW h \in Handlers, Step(h), ~Fill(h),
           NEW t \in Slugs, NEW n \in Scopes, NEW L, Known(t, n, L)
    PROVE  Known(t, n, L)'
  <1>r. req[h] \in Request
    BY DEF TypeOK
  <1>o. ASSUME NEW r, Resume(h, r)
        PROVE  req'[h] = r /\ \A g \in Handlers : g # h => req'[g] = req[g]
    BY <1>o DEF Resume, TypeOK
  <1>1. ASSUME NEW s \in Slugs, NEW k \in Kinds, NEW m \in Named(k),
               \/ DeleteItem(h, s, k, m)
               \/ \E item \in Items : CreateItem(h, s, k, m, item) \/ UpdateItem(h, s, k, m, item)
        PROVE  Known(t, n, L)'
    BY <1>1, NamedType, RewritingKnown DEF DeleteItem, CreateItem, UpdateItem
  <1>2. ASSUME NEW r, Resume(h, r), r.step \notin Writing, UNCHANGED yaml
        PROVE  Known(t, n, L)'
    BY <1>2, <1>o, OtherKnown
  <1>i. Idle.step \notin Writing
    BY DEF Idle, Writing
  <1>3. ASSUME NEW s \in Slugs, CreateTenant(h, s) \/ ReadTenant(h, s) \/ DeleteTenant(h, s)
        PROVE  Known(t, n, L)'
    <2>1. req'[h].step \in {"open", "update", "remove"}
      BY <1>3, <1>o DEF CreateTenant, ReadTenant, DeleteTenant
    <2>2. (\A g \in Handlers : g # h => req'[g] = req[g]) /\ UNCHANGED yaml
      BY <1>3, <1>o DEF CreateTenant, ReadTenant, DeleteTenant
    <2>3. QED
      BY <2>1, <2>2, OtherKnown DEF Writing
  <1>s. ASSUME NEW s \in Slugs, NEW m \in Scopes, ScopeClients(h, s, m)
        PROVE  Known(t, n, L)'
    BY <1>2, <1>s DEF ScopeClients, Writing
  <1>4. CASE WriteTenant(h) \/ RemoveDir(h) \/ Fails(h)
    BY <1>2, <1>4, <1>i DEF WriteTenant, RemoveDir, Fails
  <1>5. CASE ScopeDependents(h) \/ UpdateTenant(h) \/ OpenTenant(h)
    <2>1. req[h] \in Scoped \/ req[h] \in Settled
      BY <1>5, <1>r, RequestShape DEF ScopeDependents, UpdateTenant, OpenTenant
    <2>2. \A x \in {"drop", "open", "write"} : [req[h] EXCEPT !.step = x].step \notin Writing
      BY <2>1 DEF Scoped, Settled, Writing
    <2>3. UNCHANGED yaml /\ \E x \in {"drop", "open", "write"} :
             Resume(h, Idle) \/ Resume(h, [req[h] EXCEPT !.step = x])
      BY <1>5 DEF ScopeDependents, UpdateTenant, OpenTenant
    <2>4. QED
      BY <1>2, <1>i, <2>2, <2>3
  <1>6. CASE ScopeDrop(h)
    <2>1. req[h] \in Scoped
      BY <1>6, <1>r, RequestShape DEF ScopeDrop
    <2>2. req[h].slug \in Slugs /\ req[h].name \in Names /\ "scopes" \in Kinds
      BY <2>1 DEF Scoped, Names, Kinds
    <2>3. \/ Resume(h, Idle) /\ UNCHANGED yaml
          \/ Rewriting(h, req[h].slug, "scopes", req[h].name, NoItem, FALSE)
      BY <1>6 DEF ScopeDrop
    <2>4. CASE Resume(h, Idle) /\ UNCHANGED yaml
      BY <1>2, <1>i, <2>4
    <2>5. CASE Rewriting(h, req[h].slug, "scopes", req[h].name, NoItem, FALSE)
      BY <2>2, <2>5, RewritingKnown
    <2>6. QED
      BY <2>3, <2>4, <2>5
  <1>7. CASE Truncate(h)
    <2>1. req[h] \in Rewrite /\ req[h].step = "truncate"
      BY <1>7, <1>r, RequestShape DEF Truncate
    <2>2. /\ req'[h] = [req[h] EXCEPT !.step = "fill"]
          /\ \A g \in Handlers : g # h => req'[g] = req[g]
      BY <1>7, <1>o DEF Truncate
    <2>3. /\ req'[h].slug = req[h].slug /\ req'[h].kind = req[h].kind
          /\ req'[h].name = req[h].name /\ req'[h].new = req[h].new
      BY <2>1, <2>2 DEF Rewrite
    <2>4. yaml'[t]["clients"] = yaml[t]["clients"] \/ yaml'[t]["clients"] = Empty
      BY <1>7, <2>1 DEF Truncate, TypeOK, Rewrite, Kinds
    <2>5. QED
      BY <2>1, <2>2, <2>3, <2>4, OtherKnown DEF Writing
  <1>8. CASE RemoveFile(h)
    <2>1. UNCHANGED req
      BY <1>8 DEF RemoveFile
    <2>2. yaml'[t]["clients"] = yaml[t]["clients"] \/ yaml'[t]["clients"] = Empty
      BY <1>8 DEF RemoveFile, TypeOK, Kinds
    <2>3. QED
      BY <2>1, <2>2, OtherKnown
  <1>9. QED
    BY <1>1, <1>3, <1>s, <1>4, <1>5, <1>6, <1>7, <1>8 DEF Step

\* ... and the end of a write adds what it wrote.
LEMMA FillKnown ==
    ASSUME TypeOK, NEW h \in Handlers, Fill(h), NEW t \in Slugs, NEW n \in Scopes,
           NEW L, Known(t, n, L),
           NEW M, \A c \in Clients : c \in L \/ (req[h].kind = "clients" /\ c = req[h].name)
                                     => c \in M
    PROVE  Known(t, n, M)'
  <1>1. req[h] \in Rewrite /\ req[h].step = "fill"
    BY RequestShape DEF Fill, TypeOK
  <1>2. /\ \A g \in Handlers : g # h => req'[g] = req[g]
        /\ req'[h].step \notin Writing
    BY DEF Fill, Resume, TypeOK, Idle, Writing
  <1>3. ASSUME NEW c \in Clients, yaml'[t]["clients"][c] # NoItem, n \in yaml'[t]["clients"][c]
        PROVE  c \in M
    <2>1. CASE req[h].slug = t /\ req[h].kind = "clients"
      <3>1. yaml'[t]["clients"] = req[h].new
        BY <1>1, <2>1 DEF Fill, TypeOK, Rewrite
      <3>2. QED
        BY <1>1, <1>3, <2>1, <3>1 DEF Known, Writing
    <2>2. CASE ~(req[h].slug = t /\ req[h].kind = "clients")
      <3>1. yaml'[t]["clients"] = yaml[t]["clients"]
        BY <1>1, <2>2 DEF Fill, TypeOK, Rewrite, Kinds
      <3>2. QED
        BY <1>3, <3>1 DEF Known, UsedBy, Named
    <2>3. QED
      BY <2>1, <2>2
  <1>4. UsedBy(t, "clients", n)' \subseteq M
    BY <1>3 DEF UsedBy, Named
  <1>5. QED
    BY <1>2, <1>4 DEF Known

\* A deletion begins with the lock free: what it sees is what there is.
LEMMA FirstKnown ==
    ASSUME TypeOK, KeptInv, NEW h \in Handlers, NEW s \in Slugs, NEW n \in Scopes,
           ScopeClients(h, s, n)
    PROVE  Known(s, n, {})'
  <1>1. \A g \in Handlers : req[g].step \notin Writing
    BY ConstantsAssumption DEF ScopeClients, KeptInv, Exclusion, LockedSteps, Writing
  <1>2. \A g \in Handlers : req'[g].step \notin Writing
    BY <1>1 DEF ScopeClients, Resume, TypeOK, Writing
  <1>3. UsedBy(s, "clients", n)' = {}
    BY DEF ScopeClients, UsedBy
  <1>4. QED
    BY <1>2, <1>3 DEF Known

\* A step is of one request; of those of a deletion only the first two go on
\* with it, and only the end of a write tells it of more users.
LEMMA StepLate ==
    ASSUME TypeOK, NEW h \in Handlers, Step(h)
    PROVE  /\ \A g \in Handlers : g # h => req'[g] = req[g] /\ (~Fill(h) => late'[g] = late[g])
           /\ req'[h].step \in Deleting =>
                 ScopeDependents(h) \/ \E s \in Slugs, n \in Scopes : ScopeClients(h, s, n)
  <1> DEFINE Alone == \A g \in Handlers : g # h => req'[g] = req[g]
             Leaves == req'[h].step \notin Deleting
  <1>r. req[h] \in Request
    BY DEF TypeOK
  <1>o. ASSUME NEW r, Resume(h, r)
        PROVE  req'[h] = r /\ Alone
    BY <1>o DEF Resume, TypeOK
  <1>i. Idle.step \notin Deleting
    BY DEF Idle, Deleting
  <1>w. ASSUME NEW s, NEW k, NEW n, NEW item, NEW get, Rewriting(h, s, k, n, item, get)
        PROVE  Alone /\ Leaves /\ UNCHANGED late
    BY <1>o, <1>w DEF Rewriting, Deleting
  <1>1. ASSUME NEW s \in Slugs, NEW k \in Kinds, NEW n \in Named(k),
               \/ DeleteItem(h, s, k, n)
               \/ \E item \in Items : CreateItem(h, s, k, n, item) \/ UpdateItem(h, s, k, n, item)
        PROVE  Alone /\ Leaves /\ UNCHANGED late
    BY <1>1, <1>w DEF DeleteItem, CreateItem, UpdateItem
  <1>2. ASSUME NEW s \in Slugs, NEW n \in Scopes, ScopeClients(h, s, n)
        PROVE  Alone /\ \A g \in Handlers : g # h => late'[g] = late[g]
    BY <1>2, <1>o DEF ScopeClients, TypeOK
  <1>3. ASSUME NEW s \in Slugs, CreateTenant(h, s) \/ ReadTenant(h, s) \/ DeleteTenant(h, s)
        PROVE  Alone /\ Leaves /\ UNCHANGED late
    <2>1. Alone /\ req'[h].step \in {"open", "update", "remove"}
      BY <1>3, <1>o DEF CreateTenant, ReadTenant, DeleteTenant
    <2>2. QED
      BY <1>3, <2>1 DEF CreateTenant, ReadTenant, DeleteTenant, Deleting
  <1>4. ASSUME ScopeDependents(h)
        PROVE  Alone /\ UNCHANGED late
    BY <1>4, <1>o DEF ScopeDependents
  <1>5. ASSUME ScopeDrop(h)
        PROVE  Alone /\ Leaves /\ UNCHANGED late
    BY <1>5, <1>o, <1>i, <1>w DEF ScopeDrop
  <1>6. ASSUME WriteTenant(h) \/ RemoveDir(h) \/ Fails(h)
        PROVE  Alone /\ Leaves /\ UNCHANGED late
    BY <1>6, <1>o, <1>i DEF WriteTenant, RemoveDir, Fails
  <1>7. ASSUME Truncate(h) \/ UpdateTenant(h) \/ OpenTenant(h)
        PROVE  Alone /\ Leaves /\ UNCHANGED late
    <2>1. req[h] \in Rewrite \/ req[h] \in Settled
      BY <1>7, <1>r, RequestShape DEF Truncate, UpdateTenant, OpenTenant
    <2>2. \A x \in {"fill", "open", "write"} : [req[h] EXCEPT !.step = x].step \notin Deleting
      BY <2>1 DEF Rewrite, Settled, Deleting
    <2>3. UNCHANGED late /\ \E x \in {"fill", "open", "write"} :
             Resume(h, Idle) \/ Resume(h, [req[h] EXCEPT !.step = x])
      BY <1>7 DEF Truncate, UpdateTenant, OpenTenant
    <2>4. QED
      BY <1>o, <1>i, <2>2, <2>3
  <1>8. ASSUME RemoveFile(h)
        PROVE  Alone /\ Leaves /\ UNCHANGED late
    BY <1>8 DEF RemoveFile, Deleting
  <1>9. ASSUME Fill(h)
        PROVE  Alone /\ Leaves
    BY <1>9, <1>o, <1>i DEF Fill, Deleting
  <1> HIDE DEF Alone, Leaves
  <1>10. Alone
    BY <1>1, <1>2, <1>3, <1>4, <1>5, <1>6, <1>7, <1>8, <1>9 DEF Step
  <1>11. Fill(h) \/ \A g \in Handlers : g # h => late'[g] = late[g]
    BY <1>1, <1>2, <1>3, <1>4, <1>5, <1>6, <1>7, <1>8 DEF Step
  <1>12. Leaves \/ ScopeDependents(h) \/ \E s \in Slugs, n \in Scopes : ScopeClients(h, s, n)
    BY <1>1, <1>3, <1>5, <1>6, <1>7, <1>8, <1>9 DEF Step
  <1>13. QED
    BY <1>10, <1>11, <1>12 DEF Alone, Leaves

\* Every step keeps what deletions know.
LEMMA KnownStep ==
    ASSUME TypeOK, TypeOK', KeptInv, KnownInv, [Next]_vars
    PROVE  KnownInv'
  <1> SUFFICES ASSUME NEW g \in Handlers, req'[g].step \in Deleting
               PROVE  Known(req[g].slug, req[g].name, late[g])'
    BY DEF KnownInv
  <1>g. req'[g].slug \in Slugs /\ req'[g].name \in Scopes
    BY RequestShape DEF TypeOK, Scoped, Deleting
  <1>i. Idle.step \notin Deleting
    BY DEF Idle, Deleting
  <1>1. CASE UNCHANGED vars
    BY <1>1 DEF vars, KnownInv, Known, UsedBy
  <1>2. ASSUME Restart
        PROVE  FALSE
    BY <1>2, <1>i DEF Restart
  <1>3. ASSUME NEW h \in Handlers, Step(h)
        PROVE  Known(req[g].slug, req[g].name, late[g])'
    <2>1. PICK t, n, L : t = req'[g].slug /\ n = req'[g].name /\ L = late'[g]
      OBVIOUS
    <2>2. \/ /\ req[g].step \in Deleting /\ req[g].slug = t /\ req[g].name = n
             /\ ~Fill(h) => late[g] = L
          \/ g = h /\ ScopeClients(g, t, n) /\ L = {}
      <3>1. \A f \in Handlers : f # h => req'[f] = req[f] /\ (~Fill(h) => late'[f] = late[f])
        BY <1>3, StepLate
      <3>2. ASSUME req'[h].step \in Deleting
            PROVE  ScopeDependents(h) \/ \E s \in Slugs, m \in Scopes : ScopeClients(h, s, m)
        BY <1>3, <3>2, StepLate
      <3>o. \A r : Resume(h, r) => req'[h] = r
        BY DEF Resume, TypeOK
      <3>3. ASSUME g = h, ScopeDependents(h)
            PROVE  /\ req[g].step \in Deleting /\ req[g].slug = t /\ req[g].name = n
                   /\ late[g] = L
        <4>1. req[h] \in Scoped /\ req[h].step = "dependents" /\ UNCHANGED late
          BY <3>3, RequestShape DEF ScopeDependents, TypeOK
        <4>2. req'[h] = [req[h] EXCEPT !.step = "drop"]
          BY <1>i, <3>o, <3>3 DEF ScopeDependents
        <4>3. QED
          BY <2>1, <3>3, <4>1, <4>2 DEF Scoped, Deleting
      <3>4. ASSUME g = h, NEW s \in Slugs, NEW m \in Scopes, ScopeClients(h, s, m)
            PROVE  ScopeClients(g, t, n) /\ L = {}
        <4>1. /\ req'[h] = [step |-> "dependents", slug |-> s, name |-> m]
              /\ late'[h] = {}
          BY <3>o, <3>4 DEF ScopeClients, TypeOK
        <4>2. QED
          BY <2>1, <3>4, <4>1
      <3>5. QED
        BY <2>1, <3>1, <3>2, <3>3, <3>4
    <2>3. CASE g = h /\ ScopeClients(g, t, n) /\ L = {}
      BY <1>g, <2>1, <2>3, FirstKnown
    <2>4. CASE req[g].step \in Deleting /\ req[g].slug = t /\ req[g].name = n
      <3>1. Known(t, n, late[g])
        BY <2>4 DEF KnownInv
      <3>2. CASE ~Fill(h)
        BY <1>3, <1>g, <2>1, <2>2, <2>3, <3>1, <3>2, StepKnown
      <3>3. CASE Fill(h)
        <4>1. \A c \in Clients : c \in late[g] \/ (req[h].kind = "clients" /\ c = req[h].name)
                                 => c \in L
          BY <2>1, <2>4, <3>3 DEF Fill, Deleting
        <4>2. QED
          BY <1>g, <2>1, <3>1, <3>3, <4>1, FillKnown
      <3>4. QED
        BY <3>2, <3>3
    <2>5. QED
      BY <2>1, <2>2, <2>3, <2>4
  <1>4. QED
    BY <1>1, <1>2, <1>3 DEF Next

\* DeleteScope removes a scope that a client uses only if that client was
\* written while the deletion was being served, whatever other requests,
\* failures and restarts come between its three sections.
THEOREM ScopesInUseKept == Spec => ScopeInUseKept
  <1>1. Init => KnownInv
    BY DEF Init, KnownInv, Idle, Deleting
  <1>2. TypeOK /\ TypeOK' /\ KeptInv /\ KnownInv /\ [Next]_vars => KnownInv'
    BY KnownStep
  <1>3. KnownInv => \A h \in Handlers : (req[h].step = "drop" /\ req'[h].step = "truncate")
          => UsedBy(req[h].slug, "clients", req[h].name) \subseteq late[h]
    BY DEF KnownInv, Known, Deleting
  <1>4. QED
    BY <1>1, <1>2, <1>3, TypeCorrect, KeptHolds, PTL DEF Spec, ScopeInUseKept
-----------------------------------------------------------------------------
(* Writes are atomic.  Between its lock and its truncation a request knows   *)
(* what the rest of its file holds; a directory that is gone has no files.   *)

Prepared(h) ==
    LET r == req[h] IN
    /\ r.step \in {"truncate", "fill"} => dir[r.slug]
    /\ r.step = "truncate" =>
          \A m \in Names : m # r.name => r.new[m] = yaml[r.slug][r.kind][m]
    /\ r.step = "fill" => yaml[r.slug][r.kind] = Empty

Housed == \A s \in Slugs : ~dir[s] => yaml[s] = NoFiles

StoreInv == Housed /\ \A h \in Handlers : Prepared(h)

\* What ItemStore sees.
Tenants == {s \in Slugs : dir[s]}
Files   == [s \in Slugs |-> [k \in Kinds |-> Contents(s, k)]]
Busy    == CASE Holds("fill")   -> {<<req[lock].slug, req[lock].kind>>}
             [] Holds("remove") -> {req[lock].slug} \X Kinds
             [] OTHER           -> {}

\* What a step of h leaves to the others, and that it waits for the lock
\* unless it holds it.
LEMMA Waits ==
    ASSUME TypeOK, KeptInv, NEW h \in Handlers, Step(h)
    PROVE  /\ lock = None \/ (lock = h /\ req[h].step \in LockedSteps)
           /\ \A g \in Handlers : g # h => req'[g] = req[g]
  <1> DEFINE Waited == lock = None \/ req[h].step \in LockedSteps
  <1>i. ASSUME NEW s \in Slugs, NEW k \in Kinds, NEW n \in Named(k),
               \/ DeleteItem(h, s, k, n)
               \/ \E item \in Items : CreateItem(h, s, k, n, item) \/ UpdateItem(h, s, k, n, item)
        PROVE  Waited
    BY <1>i DEF CreateItem, UpdateItem, DeleteItem
  <1>t. ASSUME NEW s \in Slugs, CreateTenant(h, s) \/ ReadTenant(h, s) \/ DeleteTenant(h, s)
        PROVE  Waited
    BY <1>t DEF CreateTenant, ReadTenant, DeleteTenant
  <1>s. ASSUME NEW s \in Slugs, NEW n \in Scopes, ScopeClients(h, s, n)
        PROVE  Waited
    BY <1>s DEF ScopeClients
  <1>d. ScopeDependents(h) \/ ScopeDrop(h) \/ UpdateTenant(h) => Waited
    BY DEF ScopeDependents, ScopeDrop, UpdateTenant
  <1>l. ASSUME \/ Truncate(h) \/ Fill(h) \/ OpenTenant(h) \/ WriteTenant(h)
               \/ RemoveFile(h) \/ RemoveDir(h) \/ Fails(h)
        PROVE  Waited
    BY <1>l DEF Truncate, Fill, OpenTenant, WriteTenant, RemoveFile, RemoveDir, Fails, LockedSteps
  <1> HIDE DEF Waited
  <1>w. Waited
    BY <1>i, <1>t, <1>s, <1>d, <1>l DEF Step
  <1>1. lock = None \/ req[h].step \in LockedSteps
    BY <1>w DEF Waited
  <1>2. \A g \in Handlers : g # h => req'[g] = req[g]
    BY StepLate
  <1>3. QED
    BY <1>1, <1>2 DEF KeptInv, Exclusion

\* While the lock is in nobody's hands, or in those of a request that has no
\* file open and removes none, the files are what they are.
LEMMA Plain ==
    ASSUME ~Holds("fill"), ~Holds("remove")
    PROVE  Files = [s \in Slugs |-> [k \in Kinds |-> yaml[s][k]]] /\ Busy = {}
  BY DEF Files, Contents, Busy

LEMMA PlainNext ==
    ASSUME ~Holds("fill")', ~Holds("remove")'
    PROVE  Files' = [s \in Slugs |-> [k \in Kinds |-> yaml'[s][k]]] /\ Busy' = {}
  BY DEF Files, Contents, Busy

LEMMA Stutters ==
    ASSUME ~Holds("fill"), ~Holds("remove"), ~Holds("fill")', ~Holds("remove")',
           UNCHANGED <<dir, yaml>>
    PROVE  UNCHANGED Store!vars
  BY Plain, PlainNext DEF Store!vars, Tenants, Files, Busy

\* The lock is taken for a rewrite.
LEMMA RewritingStore ==
    ASSUME TypeOK, StoreInv, NEW h \in Handlers, lock = None,
           NEW s \in Slugs, NEW k \in Kinds, NEW n \in Names,
           NEW item \in Items \cup {NoItem}, NEW get \in BOOLEAN,
           dir[s] \/ yaml[s][k][n] # NoItem,
           Rewriting(h, s, k, n, item, get)
    PROVE  Prepared(h)' /\ Housed' /\ UNCHANGED Store!vars
  <1>1. /\ req'[h] = [step |-> "truncate", slug |-> s, kind |-> k, name |-> n,
                      new |-> [yaml[s][k] EXCEPT ![n] = item], get |-> get]
        /\ lock' = h /\ UNCHANGED <<dir, yaml>>
    BY DEF Rewriting, Resume, TypeOK
  <1>2. dir[s]
    BY DEF StoreInv, Housed, NoFiles, Empty
  <1>3. \A m \in Names : m # n => [yaml[s][k] EXCEPT ![n] = item][m] = yaml[s][k][m]
    BY DEF TypeOK, File
  <1>4. Prepared(h)'
    BY <1>1, <1>2, <1>3 DEF Prepared
  <1>5. Housed'
    BY <1>1 DEF StoreInv, Housed
  <1>6. UNCHANGED Store!vars
    BY <1>1, Stutters DEF Holds
  <1>7. QED
    BY <1>4, <1>5, <1>6

\* A step that opens no file and removes none, of a request that has none in
\* its hands.
LEMMA RestStore ==
    ASSUME TypeOK, StoreInv, NEW h \in Handlers, lock \in {None, h}, lock' \in {None, h},
           req[h].step \notin {"fill", "remove"},
           req'[h].step \notin {"truncate", "fill", "remove"},
           UNCHANGED <<dir, yaml>>
    PROVE  Prepared(h)' /\ Housed' /\ UNCHANGED Store!vars
  <1>1. UNCHANGED Store!vars
    BY Stutters DEF Holds
  <1>2. QED
    BY <1>1 DEF StoreInv, Housed, Prepared

\* The lock is given up over an open file: what it held is lost.
LEMMA FillGivenUp ==
    ASSUME TypeOK, StoreInv, Holds("fill"), lock' = None, UNCHANGED <<dir, yaml>>
    PROVE  Store!Next
  <1>1. PICK h \in Handlers : lock = h /\ req[h].step = "fill"
    BY DEF Holds, TypeOK
  <1>2. req[h] \in Rewrite
    BY <1>1, RequestShape DEF TypeOK
  <1> DEFINE s == req[h].slug
             k == req[h].kind
  <1>3. s \in Slugs /\ k \in Kinds
    BY <1>2 DEF Rewrite
  <1>4. Busy = {<<s, k>>} /\ Busy' = {}
    BY <1>1, PlainNext DEF Busy, Holds
  <1>5. yaml[s][k] = Empty
    BY <1>1 DEF StoreInv, Prepared
  <1>6. Files' = [Files EXCEPT ![s][k] = Empty]
    <2>1. Files' = [t \in Slugs |-> [j \in Kinds |-> yaml[t][j]]]
      BY PlainNext DEF Holds
    <2>2. \A t \in Slugs, j \in Kinds :
             Contents(t, j) = IF t = s /\ j = k THEN req[h].new ELSE yaml[t][j]
      BY <1>1 DEF Contents
    <2>3. [Files EXCEPT ![s][k] = Empty]
            = [t \in Slugs |-> [j \in Kinds |-> IF t = s /\ j = k THEN Empty ELSE yaml[t][j]]]
      <3>1. Files = [t \in Slugs |-> [j \in Kinds |->
                       IF t = s /\ j = k THEN req[h].new ELSE yaml[t][j]]]
        BY <2>2 DEF Files
      <3>2. QED
        BY <1>3, <3>1
    <2>4. QED
      BY <1>5, <2>1, <2>3
  <1> HIDE DEF s, k
  <1>7. Store!Lose(s, k)
    BY <1>4, <1>6 DEF Store!Lose, Store!Empty, Empty, Tenants, Files, Busy
  <1>8. QED
    BY <1>3, <1>7 DEF Store!Next

\* The lock is given up in a removal.
LEMMA RemovalGivenUp ==
    ASSUME TypeOK, StoreInv, Holds("remove"), lock' = None, UNCHANGED <<dir, yaml>>
    PROVE  Store!Next
  <1>1. ~Holds("fill")
    BY DEF Holds
  <1>2. Busy = {req[lock].slug} \X Kinds /\ Busy' = {}
    BY <1>1, PlainNext DEF Busy, Holds
  <1>3. UNCHANGED <<Tenants, Files>>
    BY <1>1, PlainNext DEF Tenants, Files, Contents, Holds
  <1>4. <<req[lock].slug, "clients">> \in Busy
    BY <1>2 DEF Kinds
  <1>5. Store!Finish
    BY <1>2, <1>3, <1>4 DEF Store!Finish, Tenants, Files, Busy
  <1>6. QED
    BY <1>5 DEF Store!Next

\* Opening a file is the write: of one item, the rest being what it was.
LEMMA TruncateStore ==
    ASSUME TypeOK, KeptInv, StoreInv, NEW h \in Handlers, Truncate(h)
    PROVE  Prepared(h)' /\ Housed' /\ Store!Next
  <1>1. req[h] \in Rewrite /\ req[h].step = "truncate" /\ lock = h /\ lock # None
    BY RequestShape, ConstantsAssumption
       DEF Truncate, TypeOK, KeptInv, Exclusion, LockedSteps
  <1> DEFINE s == req[h].slug
             k == req[h].kind
             n == req[h].name
             new == req[h].new
  <1>2. s \in Slugs /\ k \in Kinds /\ n \in Names /\ new \in File
    BY <1>1 DEF Rewrite
  <1>3. /\ req'[h].step = "fill" /\ req'[h].slug = s /\ req'[h].kind = k
        /\ req'[h].new = new
        /\ yaml' = [yaml EXCEPT ![s][k] = Empty] /\ UNCHANGED <<dir, lock>>
    BY <1>1 DEF Truncate, Resume, TypeOK, Rewrite
  <1>4. dir[s] /\ \A m \in Names : m # n => new[m] = yaml[s][k][m]
    BY <1>1 DEF StoreInv, Prepared
  <1>5. new = [yaml[s][k] EXCEPT ![n] = new[n]]
    <2>1. yaml[s][k] \in File
      BY <1>2 DEF TypeOK
    <2>2. QED
      BY <1>2, <1>4, <2>1 DEF File
  <1>6. Files = [t \in Slugs |-> [j \in Kinds |-> yaml[t][j]]] /\ Busy = {}
    BY <1>1, Plain DEF Holds
  <1>7. Busy' = {<<s, k>>}
    BY <1>1, <1>3 DEF Busy, Holds
  <1>8. \A t \in Slugs, j \in Kinds :
           Contents(t, j)' = IF t = s /\ j = k THEN new ELSE yaml[t][j]
    BY <1>1, <1>2, <1>3 DEF Contents, Holds, TypeOK
  <1>9. Files' = [Files EXCEPT ![s][k][n] = new[n]]
    <2>1. Files' = [t \in Slugs |-> [j \in Kinds |->
                      IF t = s /\ j = k THEN new ELSE yaml[t][j]]]
      BY <1>8 DEF Files
    <2>2. QED
      BY <1>2, <1>5, <1>6, <2>1
  <1>10. new[n] \in Items \cup {NoItem} /\ s \in Tenants
    BY <1>2, <1>4 DEF File, Tenants
  <1>11. Prepared(h)'
    BY <1>2, <1>3, <1>4 DEF Prepared, TypeOK
  <1>12. Housed'
    BY <1>2, <1>3, <1>4 DEF StoreInv, Housed, TypeOK
  <1>13. UNCHANGED Tenants
    BY <1>3 DEF Tenants
  <1> HIDE DEF s, k, n, new
  <1>14. Store!Change(s, k, n, new[n])
    BY <1>6, <1>7, <1>9, <1>10, <1>13 DEF Store!Change, Tenants, Files, Busy
  <1>15. QED
    BY <1>2, <1>10, <1>11, <1>12, <1>14 DEF Store!Next

\* The contents then change nothing any more.
LEMMA FillStore ==
    ASSUME TypeOK, KeptInv, StoreInv, NEW h \in Handlers, Fill(h)
    PROVE  Prepared(h)' /\ Housed' /\ Store!Next
  <1>1. req[h] \in Rewrite /\ req[h].step = "fill" /\ lock = h /\ lock # None
    BY RequestShape, ConstantsAssumption
       DEF Fill, TypeOK, KeptInv, Exclusion, LockedSteps
  <1> DEFINE s == req[h].slug
             k == req[h].kind
  <1>2. s \in Slugs /\ k \in Kinds
    BY <1>1 DEF Rewrite
  <1>3. /\ req'[h].step \in {"idle", "stuck"} /\ lock' \in {None, h}
        /\ yaml' = [yaml EXCEPT ![s][k] = req[h].new] /\ UNCHANGED dir
    BY <1>1 DEF Fill, Resume, TypeOK, Idle
  <1>4. dir[s]
    BY <1>1 DEF StoreInv, Prepared
  <1>5. Files' = [t \in Slugs |-> [j \in Kinds |-> yaml'[t][j]]] /\ Busy' = {}
    BY <1>3, PlainNext DEF Holds
  <1>6. \A t \in Slugs, j \in Kinds :
           Contents(t, j) = IF t = s /\ j = k THEN req[h].new ELSE yaml[t][j]
    BY <1>1 DEF Contents, Holds
  <1>7. Files' = Files
    BY <1>2, <1>3, <1>5, <1>6 DEF Files, TypeOK
  <1>8. Busy # {}
    BY <1>1 DEF Busy, Holds
  <1>9. Store!Finish
    BY <1>3, <1>5, <1>7, <1>8 DEF Store!Finish, Tenants, Files, Busy
  <1>10. Housed'
    BY <1>2, <1>3, <1>4 DEF StoreInv, Housed, TypeOK
  <1>11. QED
    BY <1>3, <1>9, <1>10 DEF Store!Next, Prepared

\* Tenants come without files ...
LEMMA CreateTenantStore ==
    ASSUME TypeOK, StoreInv, NEW h \in Handlers, NEW s \in Slugs, CreateTenant(h, s)
    PROVE  Prepared(h)' /\ Housed' /\ Store!Next
  <1>1. /\ req'[h].step = "open" /\ lock = None /\ lock' = h /\ UNCHANGED yaml
        /\ dir' = [dir EXCEPT ![s] = TRUE] /\ ~dir[s]
    BY DEF CreateTenant, Resume, TypeOK
  <1>2. UNCHANGED <<Files, Busy>>
    BY <1>1, Plain, PlainNext DEF Holds
  <1>3. Tenants' = Tenants \cup {s} /\ s \notin Tenants
    BY <1>1 DEF Tenants, TypeOK
  <1>4. Store!Add(s)
    BY <1>2, <1>3 DEF Store!Add, Tenants, Files, Busy
  <1>5. Housed'
    BY <1>1 DEF StoreInv, Housed, TypeOK
  <1>6. QED
    BY <1>1, <1>4, <1>5 DEF Store!Next, Prepared

\* ... and go when theirs are gone.
LEMMA DeleteTenantStore ==
    ASSUME TypeOK, StoreInv, NEW h \in Handlers, NEW s \in Slugs, DeleteTenant(h, s)
    PROVE  Prepared(h)' /\ Housed' /\ Store!Next
  <1>1. /\ req'[h] = [step |-> "remove", slug |-> s] /\ lock = None /\ lock' = h
        /\ dir[s] /\ UNCHANGED <<dir, yaml>>
    BY DEF DeleteTenant, Resume, TypeOK
  <1>2. h # None
    BY ConstantsAssumption
  <1>3. ~Holds("fill") /\ ~Holds("remove") /\ ~Holds("fill")' /\ Holds("remove")'
    BY <1>1, <1>2 DEF Holds
  <1>4. Busy = {} /\ Busy' = {s} \X Kinds
    BY <1>1, <1>3, Plain DEF Busy
  <1>5. UNCHANGED <<Tenants, Files>> /\ s \in Tenants
    BY <1>1, <1>3 DEF Tenants, Files, Contents
  <1>6. Store!Remove(s)
    BY <1>4, <1>5 DEF Store!Remove, Tenants, Files, Busy
  <1>7. QED
    BY <1>1, <1>6 DEF Store!Next, Prepared, StoreInv, Housed

LEMMA RemoveFileStore ==
    ASSUME TypeOK, KeptInv, StoreInv, NEW h \in Handlers, RemoveFile(h)
    PROVE  Prepared(h)' /\ Housed' /\ [Store!Next]_Store!vars
  <1>1. /\ req[h] \in Removal /\ req[h].step = "remove" /\ lock = h /\ lock # None
        /\ UNCHANGED <<dir, lock, req>>
    BY RequestShape, ConstantsAssumption
       DEF RemoveFile, TypeOK, KeptInv, Exclusion, LockedSteps
  <1>2. req[h].slug \in Slugs
    BY <1>1 DEF Removal
  <1>3. ~Holds("fill") /\ ~Holds("fill")' /\ Holds("remove") /\ Holds("remove")'
    BY <1>1 DEF Holds
  <1>4. UNCHANGED <<Tenants, Busy>> /\ Busy = {req[h].slug} \X Kinds
    BY <1>1, <1>3 DEF Tenants, Busy
  <1>5. /\ Files = [t \in Slugs |-> [j \in Kinds |-> yaml[t][j]]]
        /\ Files' = [t \in Slugs |-> [j \in Kinds |-> yaml'[t][j]]]
    BY <1>3 DEF Files, Contents
  <1>6. CASE UNCHANGED yaml
    <2>1. UNCHANGED Store!vars
      BY <1>4, <1>5, <1>6 DEF Store!vars, Tenants, Files, Busy
    <2>2. QED
      BY <1>1, <1>6, <2>1 DEF Prepared, StoreInv, Housed
  <1>7. ASSUME NEW k \in Kinds, yaml' = [yaml EXCEPT ![req[h].slug][k] = Empty]
        PROVE  Prepared(h)' /\ Housed' /\ Store!Next
    <2>1. Files' = [Files EXCEPT ![req[h].slug][k] = Empty]
      BY <1>2, <1>5, <1>7 DEF TypeOK
    <2>2. <<req[h].slug, k>> \in Busy /\ Busy' \in {Busy, {}}
      BY <1>4
    <2>3. Store!Lose(req[h].slug, k)
      BY <1>4, <2>1, <2>2 DEF Store!Lose, Store!Empty, Empty, Tenants, Files, Busy
    <2>4. Housed'
      BY <1>1, <1>2, <1>7 DEF StoreInv, Housed, NoFiles, TypeOK
    <2>5. QED
      BY <1>1, <1>2, <2>3, <2>4 DEF Store!Next, Prepared
  <1>8. QED
    BY <1>6, <1>7 DEF RemoveFile

LEMMA RemoveDirStore ==
    ASSUME TypeOK, KeptInv, StoreInv, NEW h \in Handlers, RemoveDir(h)
    PROVE  Prepared(h)' /\ Housed' /\ Store!Next
  <1>s. PICK slug \in Slugs : slug = req[h].slug
    BY RequestShape DEF RemoveDir, TypeOK, Removal
  <1>1. /\ req[h] \in Removal /\ req[h].step = "remove" /\ lock = h /\ lock # None
        /\ yaml[slug] = NoFiles /\ dir' = [dir EXCEPT ![slug] = FALSE]
        /\ req'[h] = Idle /\ lock' = None /\ UNCHANGED yaml
    BY <1>s, RequestShape, ConstantsAssumption
       DEF RemoveDir, Resume, TypeOK, KeptInv, Exclusion, LockedSteps
  <1>3. ~Holds("fill") /\ Holds("remove") /\ ~Holds("fill")' /\ ~Holds("remove")'
    BY <1>1 DEF Holds
  <1>4. Busy = {slug} \X Kinds /\ Busy' = {}
    BY <1>s, <1>1, <1>3, PlainNext DEF Busy
  <1>5. UNCHANGED Files /\ Files[slug] = [k \in Kinds |-> Empty]
    BY <1>1, <1>3 DEF Files, Contents, NoFiles
  <1>6. Tenants' = Tenants \ {slug}
    BY <1>1 DEF Tenants, TypeOK
  <1>7. Housed'
    BY <1>1 DEF StoreInv, Housed, TypeOK
  <1>8. Store!Removed(slug)
    BY <1>4, <1>5, <1>6 DEF Store!Removed, Store!Empty, Empty, Tenants, Files, Busy
  <1>9. Prepared(h)'
    BY <1>1 DEF Prepared, Idle
  <1>10. QED
    BY <1>7, <1>8, <1>9 DEF Store!Next

\* A failing step gives the lock up and leaves the files as they are; so does
\* a crash.
LEMMA GivenUp ==
    ASSUME TypeOK, StoreInv, lock' = None, UNCHANGED <<dir, yaml>>
    PROVE  [Store!Next]_Store!vars
  <1>1. CASE ~Holds("fill") /\ ~Holds("remove")
    BY <1>1, Stutters DEF Holds
  <1>2. QED
    BY <1>1, FillGivenUp, RemovalGivenUp

\* Each action of a request is a step of the store, or none.
LEMMA StepStore ==
    ASSUME TypeOK, KeptInv, StoreInv, NEW h \in Handlers, Step(h)
    PROVE  Prepared(h)' /\ Housed' /\ [Store!Next]_Store!vars
  <1> DEFINE Goal == Prepared(h)' /\ Housed' /\ [Store!Next]_Store!vars
  <1>r. req[h] \in Request
    BY DEF TypeOK
  <1>o. ASSUME NEW r, Resume(h, r)
        PROVE  req'[h] = r
    BY <1>o DEF Resume, TypeOK
  <1>l. lock \in {None, h}
    BY Waits
  <1>1. ASSUME NEW s \in Slugs, NEW k \in Kinds, NEW n \in Named(k), NEW item \in Items,
               CreateItem(h, s, k, n, item) \/ UpdateItem(h, s, k, n, item)
        PROVE  Goal
    BY <1>1, NamedType, RewritingStore DEF CreateItem, UpdateItem
  <1>2. ASSUME NEW s \in Slugs, NEW k \in Kinds, NEW n \in Named(k), DeleteItem(h, s, k, n)
        PROVE  Goal
    BY <1>2, NamedType, RewritingStore DEF DeleteItem
  <1>3. ASSUME NEW r, Resume(h, r), r.step \notin {"truncate", "fill", "remove"},
               req[h].step \notin {"fill", "remove"}, lock' \in {None, h},
               UNCHANGED <<dir, yaml>>
        PROVE  Goal
    BY <1>3, <1>o, <1>l, RestStore
  <1>i. Idle.step = "idle"
    BY DEF Idle
  <1>4. ASSUME NEW s \in Slugs, NEW n \in Scopes, ScopeClients(h, s, n)
        PROVE  Goal
    BY <1>3, <1>4, <1>i DEF ScopeClients
  <1>5. ASSUME NEW s \in Slugs, ReadTenant(h, s)
        PROVE  Goal
    BY <1>3, <1>5, <1>i DEF ReadTenant
  <1>6. CASE ScopeDependents(h) \/ UpdateTenant(h) \/ OpenTenant(h)
    <2>1. req[h] \in Scoped \/ req[h] \in Settled
      BY <1>6, <1>r, RequestShape DEF ScopeDependents, UpdateTenant, OpenTenant
    <2>2. \A x \in {"drop", "open", "write"} : [req[h] EXCEPT !.step = x].step = x
      BY <2>1 DEF Scoped, Settled
    <2>3. /\ UNCHANGED <<dir, yaml>> /\ lock' \in {None, h}
          /\ req[h].step \notin {"fill", "remove"}
          /\ \E x \in {"drop", "open", "write"} :
                Resume(h, Idle) \/ Resume(h, [req[h] EXCEPT !.step = x])
      BY <1>6, <1>l DEF ScopeDependents, UpdateTenant, OpenTenant
    <2>4. QED
      BY <1>3, <1>i, <2>2, <2>3
  <1>7. CASE WriteTenant(h)
    BY <1>3, <1>7, <1>i DEF WriteTenant
  <1>8. CASE ScopeDrop(h)
    <2>1. req[h] \in Scoped
      BY <1>8, <1>r, RequestShape DEF ScopeDrop
    <2>2. req[h].slug \in Slugs /\ req[h].name \in Names /\ "scopes" \in Kinds
      BY <2>1 DEF Scoped, Names, Kinds
    <2>3. CASE Resume(h, Idle) /\ UNCHANGED <<dir, yaml, lock>>
      BY <1>3, <1>8, <1>i, <1>l, <2>3 DEF ScopeDrop
    <2>4. CASE /\ yaml[req[h].slug]["scopes"][req[h].name] # NoItem
               /\ Rewriting(h, req[h].slug, "scopes", req[h].name, NoItem, FALSE)
      BY <1>8, <2>2, <2>4, RewritingStore DEF ScopeDrop
    <2>5. QED
      BY <1>8, <2>3, <2>4 DEF ScopeDrop
  <1>9. CASE Truncate(h)
    BY <1>9, TruncateStore
  <1>10. CASE Fill(h)
    BY <1>10, FillStore
  <1>11. ASSUME NEW s \in Slugs, CreateTenant(h, s)
         PROVE  Goal
    BY <1>11, CreateTenantStore
  <1>12. ASSUME NEW s \in Slugs, DeleteTenant(h, s)
         PROVE  Goal
    BY <1>12, DeleteTenantStore
  <1>13. CASE RemoveFile(h)
    BY <1>13, RemoveFileStore
  <1>14. CASE RemoveDir(h)
    BY <1>14, RemoveDirStore
  <1>15. CASE Fails(h)
    <2>1. req'[h] = Idle /\ lock' = None /\ UNCHANGED <<dir, yaml>>
      BY <1>15, <1>o DEF Fails
    <2>2. Prepared(h)' /\ Housed'
      BY <2>1 DEF Prepared, Idle, StoreInv, Housed
    <2>3. QED
      BY <2>1, <2>2, GivenUp
  <1>16. ASSUME \/ Truncate(h) \/ Fill(h) \/ ScopeDependents(h) \/ ScopeDrop(h)
                \/ UpdateTenant(h) \/ OpenTenant(h) \/ WriteTenant(h)
                \/ RemoveFile(h) \/ RemoveDir(h) \/ Fails(h)
         PROVE  Goal
    BY <1>6, <1>7, <1>8, <1>9, <1>10, <1>13, <1>14, <1>15, <1>16
  <1> HIDE DEF Goal
  <1>17. Goal
    BY <1>1, <1>2, <1>4, <1>5, <1>11, <1>12, <1>16 DEF Step
  <1>18. QED
    BY <1>17 DEF Goal

LEMMA StoreStep ==
    ASSUME TypeOK, KeptInv, StoreInv, [Next]_vars
    PROVE  StoreInv' /\ [Store!Next]_Store!vars
  <1>1. CASE UNCHANGED vars
    BY <1>1 DEF vars, StoreInv, Housed, Prepared, Store!vars, Contents, Holds
  <1>2. CASE Restart
    <2>1. StoreInv'
      BY <1>2 DEF Restart, StoreInv, Housed, Prepared, Idle
    <2>2. [Store!Next]_Store!vars
      BY <1>2, GivenUp DEF Restart
    <2>3. QED
      BY <2>1, <2>2
  <1>3. ASSUME NEW h \in Handlers, Step(h)
        PROVE  StoreInv' /\ [Store!Next]_Store!vars
    <2>1. ASSUME NEW g \in Handlers, g # h
          PROVE  Prepared(g)'
      <3>1. req'[g] = req[g] /\ lock \in {None, h}
        BY <1>3, <2>1, Waits
      <3>2. req[g].step \notin {"truncate", "fill"}
        BY <2>1, <3>1, ConstantsAssumption DEF KeptInv, Exclusion, LockedSteps
      <3>3. QED
        BY <3>1, <3>2 DEF Prepared
    <2>2. QED
      BY <1>3, <2>1, StepStore DEF StoreInv
  <1>4. QED
    BY <1>1, <1>2, <1>3 DEF Next

(***************************************************************************)
(* ConfigStore implements ItemStore, for any number of tenants, items and  *)
(* requests, with crashes and errors at any point: a write changes its     *)
(* item in the file as it is at the moment it is truncated, in one step.   *)
(***************************************************************************)
THEOREM Refines == Spec => WritesAreAtomic
  <1>1. Init => StoreInv
    BY DEF Init, StoreInv, Housed, Prepared, Idle
  <1>2. Init => Store!Init
    BY DEF Init, Store!Init, Store!Empty, Contents, Holds, NoFiles, Empty
  <1>3. TypeOK /\ KeptInv /\ StoreInv /\ [Next]_vars
          => StoreInv' /\ [Store!Next]_Store!vars
    BY StoreStep
  <1>4. QED
    BY <1>1, <1>2, <1>3, TypeCorrect, KeptHolds, PTL
       DEF Spec, WritesAreAtomic, Store!Spec
=============================================================================
