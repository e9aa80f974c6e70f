-------------------------- MODULE EmailTokensProof ---------------------------
(* EmailTokens is well typed, and its tokens are of one use. *)
EXTENDS EmailTokens, TLAPS

(***************************************************************************)
(* The variables keep their types, and a request past the lookup holds a   *)
(* token that has been stored.                                             *)
(***************************************************************************)
THEOREM TypeCorrect == Spec => []TypeOK
<1>1. Init => TypeOK
  BY ConstantsAssumption DEF Init, TypeOK, User, Request, Idle
<1>2. TypeOK /\ [Next]_vars => TypeOK'
  <2> SUFFICES ASSUME TypeOK, [Next]_vars PROVE TypeOK'
    OBVIOUS
  <2> USE DEF TypeOK, Resume
  <2>1. ASSUME NEW h \in Handlers, NEW u \in Users, NEW way \in Ways, Start(h, u, way)
        PROVE TypeOK'
    <3>1. [step |-> "invalidate", user |-> u, way |-> way] \in Request
      BY DEF Request, Asking
    <3> QED BY <2>1, <3>1 DEF Start
  <2>2. ASSUME NEW h \in Handlers, Invalidate(h) PROVE TypeOK'
    <3>1. req[h].user \in Users /\ req[h].way \in Ways
      BY <2>2 DEF Invalidate, Request, Idle, Asking, Mailing, Redeem
    <3>2. [step |-> "insert", user |-> req[h].user, way |-> req[h].way,
           before |-> Stored(req[h].user, Kind(req[h].way))] \in Request
      BY <3>1 DEF Request, Asking, Stored
    <3>3. \A t \in Tokens : db[t] \in Row => [db[t] EXCEPT !.state = "used"] \in Row
      BY DEF Row
    <3>4. db' \in [Tokens -> Row \cup {NoRow}]
      BY <2>2, <3>3 DEF Invalidate, Stored
    <3>5. \A t \in Tokens : db[t] \in Row => db'[t] \in Row
      BY <2>2, <3>3 DEF Invalidate
    <3>6. \A g \in Handlers : req'[g].step \in {"mail", "use", "apply"} => req'[g] = req[g]
      BY <2>2, <3>2 DEF Invalidate, Inserts
    <3>7. \A g \in Handlers : req[g].step \in {"mail", "use", "apply"} => req[g].token \in Tokens
      BY DEF Request, Idle, Asking, Mailing, Redeem
    <3> QED BY <2>2, <3>2, <3>4, <3>5, <3>6, <3>7 DEF Invalidate, Inserts
  <2>3. ASSUME NEW h \in Handlers, NEW t \in Tokens, Insert(h, t) PROVE TypeOK'
    <3>1. req[h].user \in Users /\ req[h].before \subseteq Tokens
      BY <2>3 DEF Insert, Request, Idle, Asking, Mailing, Redeem
    <3>2. db'[t] \in Row /\ db' = [db EXCEPT ![t] = db'[t]]
      BY <2>3, <3>1 DEF Insert, Row, Kind, Kinds
    <3>3. [step |-> "mail", token |-> t] \in Request
      BY DEF Request, Mailing
    <3>4. db' \in [Tokens -> Row \cup {NoRow}] /\ \A w \in Tokens : db[w] \in Row => db'[w] \in Row
      BY <3>2
    <3>5. req' \in [Handlers -> Request]
      BY <2>3, <3>3 DEF Insert
    <3>6. \A g \in Handlers : req'[g].step \in {"mail", "use", "apply"} =>
             (req'[g] = req[g] /\ req[g].token \in Tokens) \/ req'[g].token = t
      BY <2>3 DEF Insert, Request, Idle, Asking, Mailing, Redeem
    <3> QED BY <2>3, <3>1, <3>2, <3>4, <3>5, <3>6 DEF Insert
  <2>4. ASSUME NEW h \in Handlers, NEW t \in Tokens, Read(h, t) PROVE TypeOK'
    <3>1. [step |-> "use", token |-> t] \in Request
      BY DEF Request, Redeem
    <3> QED BY <2>4, <3>1 DEF Read, Valid
  <2>5. ASSUME NEW h \in Handlers, Mail(h) PROVE TypeOK'
    <3>1. req[h].token \in Tokens
      BY <2>5 DEF Mail, Request, Idle, Asking, Mailing, Redeem
    <3> QED BY <2>5, <3>1 DEF Mail, Request, Idle
  <2>6. ASSUME NEW h \in Handlers, Use(h) PROVE TypeOK'
    <3>1. req[h].token \in Tokens /\ [req[h] EXCEPT !.step = "apply"] \in Request
      BY <2>6 DEF Use, Request, Idle, Asking, Mailing, Redeem
    <3>2. [req[h] EXCEPT !.step = "apply"].token = req[h].token
      BY <2>6 DEF Use, Request, Idle, Asking, Mailing, Redeem
    <3>3. [db[req[h].token] EXCEPT !.state = "used"] \in Row
      BY <2>6, <3>1 DEF Use, Row
    <3> QED BY <2>6, <3>1, <3>2, <3>3 DEF Use
  <2>7. ASSUME NEW h \in Handlers, Apply(h) PROVE TypeOK'
    <3>1. req[h].token \in Tokens /\ db[req[h].token] \in Row
      BY <2>7 DEF Apply, Request, Idle, Asking, Mailing, Redeem
    <3>2. PICK t \in Tokens : t = req[h].token
      BY <3>1
    <3>3. PICK u \in Users : u = db[t].user
      BY <3>1, <3>2 DEF Row
    <3>4. user' = [user EXCEPT ![u] = user'[u]] /\ user'[u] \in User
      BY <2>7, <3>2, <3>3 DEF Apply, User
    <3>5. redeemed' = [redeemed EXCEPT ![t] = redeemed[t] + 1]
      BY <2>7, <3>2 DEF Apply
    <3>6. user' \in [Users -> User]
      BY <3>4
    <3>7. redeemed' \in [Tokens -> Nat]
      BY <3>5
    <3>8. req' = [req EXCEPT ![h] = Idle] /\ UNCHANGED <<db, mailed, replaced>>
      BY <2>7 DEF Apply
    <3> QED BY <3>6, <3>7, <3>8 DEF Request, Idle
  <2>8. ASSUME NEW h \in Handlers, GivesUp(h) PROVE TypeOK'
    BY <2>8 DEF GivesUp, Request, Idle
  <2>9. ASSUME NEW t \in Tokens, Expire(t) PROVE TypeOK'
    <3>1. [db[t] EXCEPT !.expired = TRUE] \in Row
      BY <2>9 DEF Expire, Valid, Row
    <3>2. db' \in [Tokens -> Row \cup {NoRow}] /\ \A w \in Tokens : db[w] \in Row => db'[w] \in Row
      BY <2>9, <3>1 DEF Expire
    <3>3. \A h \in Handlers : req[h].step \in {"mail", "use", "apply"} => req[h].token \in Tokens
      BY DEF Request, Idle, Asking, Mailing, Redeem
    <3> QED BY <2>9, <3>2, <3>3 DEF Expire
  <2>10. ASSUME NEW u \in Users, DeleteUser(u) PROVE TypeOK'
    <3>1. \A t \in Tokens : db[t] \in Row => [db[t] EXCEPT !.state = "deleted"] \in Row
      BY DEF Row
    <3>2. db' \in [Tokens -> Row \cup {NoRow}]
      BY <2>10, <3>1 DEF DeleteUser
    <3>3. \A t \in Tokens : db[t] \in Row => db'[t] \in Row
      BY <2>10, <3>1 DEF DeleteUser
    <3>4. \A h \in Handlers : req[h].step \in {"mail", "use", "apply"} => req[h].token \in Tokens
      BY DEF Request, Idle, Asking, Mailing, Redeem
    <3> QED BY <2>10, <3>2, <3>3, <3>4 DEF DeleteUser, User
  <2>11. ASSUME NEW u \in Users, SetPassword(u) PROVE TypeOK'
    BY <2>11 DEF SetPassword, User
  <2>12. ASSUME NEW u \in Users, NEW b \in BOOLEAN, SetEmailVerified(u, b) PROVE TypeOK'
    BY <2>12 DEF SetEmailVerified, User
  <2>13. CASE Restart
    BY <2>13 DEF Restart, Request, Idle
  <2>14. CASE UNCHANGED vars
    BY <2>14 DEF vars
  <2> QED
    BY <2>1, <2>2, <2>3, <2>4, <2>5, <2>6, <2>7, <2>8, <2>9, <2>10, <2>11, <2>12,
       <2>13, <2>14 DEF Next, Serve
<1> QED BY <1>1, <1>2, PTL DEF Spec

-----------------------------------------------------------------------------
(* A token that was stored and is used up or deleted stays so, since only a *)
(* token that was never stored can be inserted.                             *)
Spent(t) == db[t] # NoRow /\ db[t].state # "live"

LEMMA SpentStays ==
  ASSUME TypeOK, [Next]_vars, NEW t \in Tokens, Spent(t)
  PROVE  Spent(t)'
<1> USE NoRowAssumption DEF Spent
<1>1. db[t] \in Row
  BY DEF TypeOK
<1>2. CASE db'[t] = db[t]
  BY <1>2
<1>3. CASE db'[t] = [db[t] EXCEPT !.state = "used"] \/ db'[t] = [db[t] EXCEPT !.state = "deleted"]
  <2>1. db'[t] \in Row /\ db'[t].state # "live"
    BY <1>1, <1>3 DEF Row
  <2> QED BY <2>1
<1>4. CASE db'[t] = [db[t] EXCEPT !.expired = TRUE]
  <2>1. db'[t] \in Row /\ db'[t].state = db[t].state
    BY <1>1, <1>4 DEF Row
  <2> QED BY <2>1
<1>5. ASSUME NEW h \in Handlers, Invalidate(h) PROVE Spent(t)'
  BY <1>2, <1>3, <1>5 DEF Invalidate
<1>6. ASSUME NEW h \in Handlers, NEW w \in Tokens, Insert(h, w) PROVE Spent(t)'
  BY <1>2, <1>6 DEF Insert, TypeOK
<1>7. ASSUME NEW h \in Handlers, Use(h) PROVE Spent(t)'
  BY <1>2, <1>3, <1>7 DEF Use, TypeOK
<1>8. ASSUME NEW w \in Tokens, Expire(w) PROVE Spent(t)'
  BY <1>2, <1>4, <1>8 DEF Expire, TypeOK
<1>9. ASSUME NEW u \in Users, DeleteUser(u) PROVE Spent(t)'
  BY <1>2, <1>3, <1>9 DEF DeleteUser
<1> QED
  BY <1>2, <1>5, <1>6, <1>7, <1>8, <1>9
     DEF Next, Serve, vars, Start, Read, Mail, Apply, GivesUp, SetPassword,
         SetEmailVerified, Restart

(***************************************************************************)
(* Why a token changes something once: a request that will change it holds *)
(* a token used up, is the only one holding it, and nothing was changed    *)
(* with it yet.                                                            *)
(***************************************************************************)
Applies(h, t) == req[h].step = "apply" /\ req[h].token = t

OnceInv ==
    /\ TypeOK
    /\ \A t \in Tokens : redeemed[t] # 0 => Spent(t)
    /\ \A t \in Tokens, h \in Handlers : Applies(h, t) => Spent(t) /\ redeemed[t] = 0
    /\ \A t \in Tokens, g, h \in Handlers : Applies(g, t) /\ Applies(h, t) => g = h
    /\ RedeemedOnce

\* A step after which nothing was changed with a token and no request is newly
\* to do so.
LEMMA OnceKept ==
  ASSUME OnceInv, TypeOK', [Next]_vars, redeemed' = redeemed,
         \A t \in Tokens, h \in Handlers : Applies(h, t)' => Applies(h, t)
  PROVE  OnceInv'
<1>1. \A t \in Tokens : Spent(t) => Spent(t)'
  BY SpentStays DEF OnceInv
<1> QED BY <1>1 DEF OnceInv, RedeemedOnce

(***************************************************************************)
(* However many requests present a token at the same time, it verifies an  *)
(* address or changes a password at most once.                             *)
(***************************************************************************)
THEOREM OneUse == Spec => []RedeemedOnce
<1>1. Init => OnceInv
  <2> SUFFICES ASSUME Init PROVE OnceInv
    OBVIOUS
  <2>1. TypeOK
    BY ConstantsAssumption DEF Init, TypeOK, User, Request, Idle
  <2> QED BY <2>1 DEF OnceInv, Init, Applies, Idle, RedeemedOnce
<1>2. OnceInv /\ TypeOK' /\ [Next]_vars => OnceInv'
  <2> SUFFICES ASSUME OnceInv, TypeOK', [Next]_vars PROVE OnceInv'
    OBVIOUS
  <2>0. \A t \in Tokens : Spent(t) => Spent(t)'
    BY SpentStays DEF OnceInv
  <2>1. ASSUME NEW h \in Handlers, Use(h) PROVE OnceInv'
    <3>1. PICK t \in Tokens : t = req[h].token
      BY <2>1 DEF OnceInv, TypeOK, Use, Request, Idle, Asking, Mailing, Redeem
    <3>2. db[t] \in Row /\ db[t] # NoRow /\ db[t].state = "live"
      BY <2>1, <3>1 DEF OnceInv, TypeOK, Use, Valid
    <3>3. db'[t] = [db[t] EXCEPT !.state = "used"]
      BY <2>1, <3>1 DEF Use, OnceInv, TypeOK
    <3>4. Spent(t)'
      <4>1. db'[t] \in Row /\ db'[t].state = "used"
        BY <3>2, <3>3 DEF Row
      <4> QED BY <4>1, NoRowAssumption DEF Spent
    <3>5. ~Spent(t) /\ redeemed[t] = 0 /\ \A g \in Handlers : ~Applies(g, t)
      BY <3>2 DEF Spent, OnceInv
    <3>6. \A w \in Tokens, g \in Handlers : Applies(g, w)' => Applies(g, w) \/ (w = t /\ g = h)
      <4>1. [req[h] EXCEPT !.step = "apply"].token = t
        BY <2>1, <3>1 DEF Use, OnceInv, TypeOK, Request, Idle, Asking, Mailing, Redeem
      <4> QED BY <2>1, <4>1 DEF Applies, Use, Resume, OnceInv, TypeOK
    <3>7. redeemed' = redeemed
      BY <2>1 DEF Use
    <3> QED BY <2>0, <3>4, <3>5, <3>6, <3>7 DEF OnceInv, RedeemedOnce
  <2>2. ASSUME NEW h \in Handlers, Apply(h) PROVE OnceInv'
    <3>1. PICK t \in Tokens : t = req[h].token
      BY <2>2 DEF OnceInv, TypeOK, Apply, Request, Idle, Asking, Mailing, Redeem
    <3>2. Applies(h, t)
      BY <2>2, <3>1 DEF Apply, Applies
    <3>3. Spent(t) /\ redeemed[t] = 0
      BY <3>2 DEF OnceInv
    <3>4. redeemed' = [redeemed EXCEPT ![t] = 1]
      BY <2>2, <3>1, <3>3 DEF Apply
    <3>5. \A w \in Tokens, g \in Handlers : Applies(g, w)' => Applies(g, w) /\ g # h
      BY <2>2 DEF Apply, Applies, Resume, Idle, OnceInv, TypeOK
    <3>6. \A g \in Handlers : ~Applies(g, t)'
      BY <3>2, <3>5 DEF OnceInv
    <3>7. \A w \in Tokens : redeemed'[w] = IF w = t THEN 1 ELSE redeemed[w]
      BY <3>4 DEF OnceInv, TypeOK
    <3> QED BY <2>0, <3>3, <3>5, <3>6, <3>7 DEF OnceInv, RedeemedOnce
  <2>3. CASE UNCHANGED <<req, redeemed>>
    BY <2>3, OnceKept DEF Applies
  <2>4. ASSUME NEW h \in Handlers, NEW r, Resume(h, r), r.step # "apply",
               redeemed' = redeemed
        PROVE OnceInv'
    <3>1. \A t \in Tokens, g \in Handlers : Applies(g, t)' => Applies(g, t)
      BY <2>4 DEF Applies, Resume, OnceInv, TypeOK
    <3> QED BY <2>4, <3>1, OnceKept
  <2>5. ASSUME NEW h \in Handlers, Serve(h) PROVE OnceInv'
    <3>1. CASE \E u \in Users, way \in Ways : Start(h, u, way)
      BY <3>1, <2>4 DEF Start
    <3>2. CASE Invalidate(h)
      BY <3>2, <2>4 DEF Invalidate, Inserts
    <3>3. CASE \E t \in Tokens : Insert(h, t)
      BY <3>3, <2>4 DEF Insert
    <3>4. CASE \E t \in Tokens : Read(h, t)
      BY <3>4, <2>4 DEF Read
    <3>5. CASE Mail(h)
      BY <3>5, <2>4 DEF Mail, Idle
    <3>6. CASE GivesUp(h)
      BY <3>6, <2>4 DEF GivesUp, Idle
    <3> QED BY <2>1, <2>2, <2>5, <3>1, <3>2, <3>3, <3>4, <3>5, <3>6 DEF Serve
  <2>6. CASE Restart
    <3>1. \A t \in Tokens, h \in Handlers : ~Applies(h, t)'
      BY <2>6 DEF Restart, Applies, Idle
    <3> QED BY <2>6, <3>1, OnceKept DEF Restart
  <2> QED
    BY <2>3, <2>5, <2>6 DEF Next, vars, Expire, DeleteUser, SetPassword, SetEmailVerified
<1>3. OnceInv => RedeemedOnce
  BY DEF OnceInv
<1> QED BY <1>1, <1>2, <1>3, TypeCorrect, PTL DEF Spec

-----------------------------------------------------------------------------
(***************************************************************************)
(* Why an older token is accepted no more: those a request found were      *)
(* used up by its invalidation, before it stores its own.                  *)
(***************************************************************************)
OldSpent ==
    /\ \A t \in replaced : Spent(t)
    /\ \A h \in Handlers : req[h].step = "insert" => \A t \in req[h].before : Spent(t)

NewestInv == TypeOK /\ OldSpent

LEMMA NewestInductive ==
  ASSUME NewestInv, TypeOK', [Next]_vars
  PROVE  NewestInv'
<1> USE DEF NewestInv, OldSpent
<1>0. \A t \in Tokens : Spent(t) => Spent(t)'
  BY SpentStays
<1>1. /\ replaced \subseteq Tokens
      /\ \A h \in Handlers : req[h].step = "insert" => req[h].before \subseteq Tokens
  BY DEF TypeOK, Request, Idle, Asking, Mailing, Redeem
<1>2. ASSUME NEW h \in Handlers, Invalidate(h) PROVE NewestInv'
  <2>1. req[h].user \in Users
    BY <1>2 DEF TypeOK, Invalidate, Request, Idle, Asking, Mailing, Redeem
  <2>2. \A t \in Stored(req[h].user, Kind(req[h].way)) : Spent(t)'
    <3> SUFFICES ASSUME NEW t \in Stored(req[h].user, Kind(req[h].way)) PROVE Spent(t)'
      OBVIOUS
    <3>1. t \in Tokens /\ db[t] # NoRow /\ db[t] \in Row
      BY DEF Stored, TypeOK
    <3>2. CASE db[t].state = "live"
      <4>1. db'[t] = [db[t] EXCEPT !.state = "used"]
        BY <1>2, <3>1, <3>2 DEF Invalidate
      <4>2. db'[t] \in Row /\ db'[t].state = "used"
        BY <3>1, <4>1 DEF Row
      <4> QED BY <4>2, NoRowAssumption DEF Spent
    <3>3. CASE db[t].state # "live"
      BY <1>0, <3>1, <3>3 DEF Spent
    <3> QED BY <3>2, <3>3
  <2>3. req'[h].before = Stored(req[h].user, Kind(req[h].way))
    BY <1>2 DEF Invalidate, Inserts, Resume, TypeOK
  <2>4. \A g \in Handlers : g # h => req'[g] = req[g]
    BY <1>2 DEF Invalidate, Inserts, Resume, TypeOK
  <2> QED BY <1>0, <1>1, <1>2, <2>2, <2>3, <2>4 DEF Invalidate
<1>3. ASSUME NEW h \in Handlers, NEW r, Resume(h, r), r.step # "insert",
             replaced' \subseteq replaced \cup (IF req[h].step = "insert" THEN req[h].before ELSE {})
      PROVE NewestInv'
  <2>1. \A t \in replaced' : t \in Tokens /\ Spent(t)
    BY <1>1, <1>3
  <2>2. \A g \in Handlers : req'[g].step = "insert" => req'[g] = req[g]
    BY <1>3 DEF Resume, TypeOK
  <2> QED BY <1>0, <1>1, <2>1, <2>2
<1>4. CASE UNCHANGED <<req, replaced>>
  BY <1>0, <1>1, <1>4
<1>5. ASSUME NEW h \in Handlers, Serve(h) PROVE NewestInv'
  <2>1. CASE \E u \in Users, way \in Ways : Start(h, u, way)
    BY <1>3, <2>1 DEF Start
  <2>2. CASE \E t \in Tokens : Insert(h, t)
    BY <1>3, <2>2 DEF Insert
  <2>3. CASE \E t \in Tokens : Read(h, t)
    BY <1>3, <2>3 DEF Read
  <2>4. CASE Mail(h)
    BY <1>3, <2>4 DEF Mail, Idle
  <2>5. CASE Use(h)
    <3>1. [req[h] EXCEPT !.step = "apply"].step = "apply"
      BY <2>5 DEF Use, TypeOK, Request, Idle, Asking, Mailing, Redeem
    <3> QED BY <1>3, <2>5, <3>1 DEF Use
  <2>6. CASE Apply(h)
    BY <1>3, <2>6 DEF Apply, Idle
  <2>7. CASE GivesUp(h)
    BY <1>3, <2>7 DEF GivesUp, Idle
  <2> QED BY <1>2, <1>5, <2>1, <2>2, <2>3, <2>4, <2>5, <2>6, <2>7 DEF Serve
<1>6. CASE Restart
  BY <1>0, <1>1, <1>6 DEF Restart, Idle
<1> QED
  BY <1>4, <1>5, <1>6 DEF Next, vars, Expire, DeleteUser, SetPassword, SetEmailVerified

(***************************************************************************)
(* A token older than one a later request stored for the same user and     *)
(* kind is never accepted, even by a request that found it valid before.   *)
(***************************************************************************)
THEOREM NewestAccepted == Spec => NewestOnly
<1>1. Init => NewestInv
  <2> SUFFICES ASSUME Init PROVE NewestInv
    OBVIOUS
  <2>1. TypeOK
    BY ConstantsAssumption DEF Init, TypeOK, User, Request, Idle
  <2> QED BY <2>1 DEF NewestInv, OldSpent, Init, Idle
<1>2. NewestInv /\ TypeOK' /\ [Next]_vars => NewestInv'
  BY NewestInductive
<1>3. NewestInv => \A h \in Handlers, t \in replaced : ~(Use(h) /\ req[h].token = t)
  BY DEF NewestInv, OldSpent, Spent, Use, Valid
<1> QED BY <1>1, <1>2, <1>3, TypeCorrect, PTL DEF Spec, NewestOnly
=============================================================================
