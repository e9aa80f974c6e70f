-------------------------- MODULE AdminSessionProof --------------------------
(***************************************************************************)
(* Invariants of AdminSession, proved for every set of tabs and sessions.  *)
(***************************************************************************)
EXTENDS AdminSession, TLAPS

Login == [step: {"idle", "sent", "me"}, session: Sessions \cup {NoSession}]

\* The refresh timer runs under the console, over a session it can refresh.
TimerInv == \A t \in Tabs : timer[t] => place[t] = "admin" /\ auth[t] \in Renewable

Inv == TypeOK /\ TimerInv

\* Leaving a document keeps what the other documents wait for.
LEMMA UnloadType ==
    ASSUME TypeOK, NEW t \in Tabs, Unload(t)
    PROVE  /\ login' \in [Tabs -> Login]
           /\ refreshing' \subseteq [tab: Tabs, session: Renewable]
           /\ requests' \subseteq Request
  BY DEF TypeOK, Unload, Login, Idle

\* Signing out clears the session of the tab and the copy on disk.
LEMMA ClearAuthType ==
    ASSUME TypeOK, NEW t \in Tabs, ClearAuth(t)
    PROVE  /\ auth' \in [Tabs -> Sessions \cup {NoSession}]
           /\ disk' \in Sessions \cup {NoSession}
           /\ left' \in [Tabs -> SUBSET Sessions]
  <1>1. {auth[t]} \ {NoSession} \subseteq Sessions
    BY DEF TypeOK
  <1>2. left' \in [Tabs -> SUBSET Sessions]
    BY <1>1 DEF TypeOK, ClearAuth
  <1>3. QED
    BY <1>2 DEF TypeOK, ClearAuth, Persist

\* A full load of the login page keeps the types and stops the timer.
LEMMA SignOutInv ==
    ASSUME Inv, NEW t \in Tabs, SignOut(t), UNCHANGED <<expired, issued>>
    PROVE  Inv'
  <1>1. TypeOK'
    BY UnloadType, ClearAuthType DEF Inv, TypeOK, SignOut, Login
  <1>2. TimerInv'
    BY DEF Inv, TypeOK, TimerInv, SignOut, ClearAuth, Persist
  <1>3. QED
    BY <1>1, <1>2 DEF Inv
-----------------------------------------------------------------------------
\* Each action of a tab keeps the types and the timer where it belongs.
LEMMA TabInv ==
    ASSUME Inv, NEW t \in Tabs, TabStep(t)
    PROVE  Inv'
  <1> USE DEF Inv
  <1>1. CASE SubmitLogin(t)
    BY <1>1 DEF SubmitLogin, TypeOK, TimerInv
  <1>2. CASE LoginAnswered(t)
    <2>1. PICK s \in Sessions \ issued :
             /\ issued' = issued \cup {s}
             /\ login' = [login EXCEPT ![t] = [step |-> "me", session |-> s]]
      BY <1>2 DEF LoginAnswered
    <2>2. QED
      BY <1>2, <2>1 DEF LoginAnswered, TypeOK, TimerInv
  <1>3. CASE LoginFails(t)
    BY <1>3 DEF LoginFails, TypeOK, TimerInv, Idle
  <1>4. CASE LoginReturns(t)
    <2>1. TypeOK'
      BY <1>4, UnloadType DEF LoginReturns, TypeOK, Login
    <2>2. TimerInv'
      BY <1>4 DEF LoginReturns, TypeOK, TimerInv
    <2>3. QED
      BY <2>1, <2>2
  <1>5. CASE LoginSucceeds(t)
    BY <1>5, ConstantsAssumption
       DEF LoginSucceeds, TypeOK, TimerInv, Persist, Idle, Guarded, Arms, Authenticated
  <1>6. CASE OpenRegister(t)
    <2>1. TypeOK'
      BY <1>6, UnloadType DEF OpenRegister, TypeOK, Login
    <2>2. TimerInv'
      BY <1>6 DEF OpenRegister, TypeOK, TimerInv
    <2>3. QED
      BY <2>1, <2>2
  <1>7. CASE Registered(t)
    BY <1>7 DEF Registered, TypeOK, TimerInv
  <1>8. ASSUME NEW p \in {"login", "admin"}, Navigate(t, p)
        PROVE  Inv'
    BY <1>8 DEF Navigate, TypeOK, TimerInv, Arms
  <1>9. CASE Reload(t)
    <2>1. TypeOK'
      BY <1>9, UnloadType DEF Reload, TypeOK, Login, Guarded, Arms
    <2>2. TimerInv'
      BY <1>9 DEF Reload, TypeOK, TimerInv, Arms
    <2>3. QED
      BY <2>1, <2>2
  <1>10. CASE Logout(t)
    <2>1. TypeOK'
      BY <1>10, ClearAuthType DEF Logout, TypeOK
    <2>2. TimerInv'
      BY <1>10 DEF Logout, TypeOK, TimerInv, ClearAuth, Persist
    <2>3. QED
      BY <2>1, <2>2
  <1>11. CASE TimerFires(t)
    BY <1>11 DEF TimerFires, TypeOK, TimerInv
  <1>12. ASSUME NEW hard \in BOOLEAN, Send(t, hard)
         PROVE  Inv'
    <2>1. [tab |-> t, session |-> auth[t], hard |-> hard] \in Request
      BY <1>12 DEF Send, TypeOK, Request
    <2>2. QED
      BY <1>12, <2>1 DEF Send, TypeOK, TimerInv
  <1>13. QED
    BY <1>1, <1>2, <1>3, <1>4, <1>5, <1>6, <1>7, <1>8, <1>9, <1>10, <1>11, <1>12
       DEF TabStep

\* So does each answer, and each token that expires.
LEMMA AnswerInv ==
    ASSUME Inv, RefreshStep \/ RequestStep \/ \E s \in Sessions : Expire(s)
    PROVE  Inv'
  <1>1. ASSUME NEW r \in refreshing, RefreshAnswered(r)
        PROVE  Inv'
    <2>1. r.tab \in Tabs /\ r.session \in Renewable /\ r.session \in Sessions
      BY ConstantsAssumption DEF Inv, TypeOK
    <2>2. CASE NeedsClient
      BY <1>1, <2>1, <2>2, SignOutInv DEF RefreshAnswered
    <2>3. CASE ~NeedsClient
      BY <1>1, <2>1, <2>3 DEF RefreshAnswered, Inv, TypeOK, TimerInv, Persist, Arms
    <2>4. QED
      BY <2>2, <2>3
  <1>2. ASSUME NEW r \in refreshing, RefreshFails(r)
        PROVE  Inv'
    <2>1. r.tab \in Tabs
      BY DEF Inv, TypeOK
    <2>2. QED
      BY <1>2, <2>1, SignOutInv DEF RefreshFails
  <1>3. ASSUME NEW q \in requests, Answered(q)
        PROVE  Inv'
    BY <1>3 DEF Answered, Inv, TypeOK, TimerInv
  <1>4. ASSUME NEW q \in requests, Unauthorized(q)
        PROVE  Inv'
    <2>1. q.tab \in Tabs
      BY DEF Inv, TypeOK, Request
    <2>2. CASE q.hard
      BY <1>4, <2>1, <2>2, SignOutInv DEF Unauthorized
    <2>3. CASE ~q.hard
      <3>1. TypeOK'
        BY <1>4, <2>1, <2>3, ClearAuthType DEF Unauthorized, Inv, TypeOK
      <3>2. TimerInv'
        BY <1>4, <2>1, <2>3
           DEF Unauthorized, Inv, TypeOK, TimerInv, ClearAuth, Persist
      <3>3. QED
        BY <3>1, <3>2 DEF Inv
    <2>4. QED
      BY <2>2, <2>3
  <1>5. ASSUME NEW s \in Sessions, Expire(s)
        PROVE  Inv'
    BY <1>5 DEF Expire, Inv, TypeOK, TimerInv
  <1>6. QED
    BY <1>1, <1>2, <1>3, <1>4, <1>5 DEF RefreshStep, RequestStep

\* Every reachable state is well typed and a refresh timer runs only under the
\* console, over a session it can refresh, whatever the server asks of a refresh.
THEOREM TypeCorrect == Spec => [](TypeOK /\ TimerInv)
  <1>1. Init => Inv
    BY DEF Init, Inv, TypeOK, TimerInv, Idle
  <1>2. Inv /\ [Next]_vars => Inv'
    <2> SUFFICES ASSUME Inv, [Next]_vars
                 PROVE  Inv'
      OBVIOUS
    <2>1. CASE UNCHANGED vars
      BY <2>1 DEF vars, Inv, TypeOK, TimerInv
    <2>2. QED
      BY <2>1, TabInv, AnswerInv DEF Next
  <1>3. QED
    BY <1>1, <1>2, PTL DEF Spec, Inv
-----------------------------------------------------------------------------
\* A session tab t has from its login form alone: no store, no localStorage, no
\* other form and nobody's past has it.
Fresh(t) ==
    LET s == login[t].session IN
    login[t].step = "me" =>
        /\ s \in issued /\ s # disk
        /\ \A u \in Tabs : /\ s # auth[u] /\ s \notin left[u]
                           /\ u # t => login[u].step # "me" \/ s # login[u].session

\* What a tab left is neither in its store nor in localStorage; what is anywhere
\* was issued; and what a login form holds is fresh.
LeftInv ==
    /\ \A t \in Tabs : /\ auth[t] \notin left[t] /\ disk \notin left[t]
                       /\ auth[t] \in issued \cup {NoSession}
                       /\ left[t] \subseteq issued
                       /\ Fresh(t)
    /\ disk \in issued \cup {NoSession}

\* A document that is left forgets its login.
LEMMA UnloadLeft ==
    ASSUME TypeOK, LeftInv, NEW t \in Tabs, Unload(t), UNCHANGED <<disk, issued, left>>,
           auth' = auth \/ auth' = [auth EXCEPT ![t] = disk]
    PROVE  LeftInv'
  <1>1. \A u \in Tabs : auth'[u] \in {auth[u], disk} /\ (u # t => auth'[u] = auth[u])
    BY DEF TypeOK
  <1>2. ASSUME NEW u \in Tabs
        PROVE  /\ login'[u].step = "me" => u # t /\ login'[u] = login[u]
    BY DEF Unload, TypeOK, Idle
  <1>3. QED
    BY <1>1, <1>2 DEF LeftInv, Fresh

\* Clearing the session moves it from the store to the tab's past.
LEMMA ClearAuthLeft ==
    ASSUME TypeOK, LeftInv, NEW t \in Tabs, ClearAuth(t), UNCHANGED issued,
           \A u \in Tabs : login'[u].step = "me" => login'[u] = login[u]
    PROVE  LeftInv'
  <1>1. /\ disk' = NoSession
        /\ \A u \in Tabs : auth'[u] = IF u = t THEN NoSession ELSE auth[u]
        /\ \A u \in Tabs : left'[u] = IF u = t THEN left[t] \cup ({auth[t]} \ {NoSession})
                                      ELSE left[u]
    BY DEF ClearAuth, Persist, TypeOK
  <1>2. NoSession \notin Sessions
    BY ConstantsAssumption
  <1>3. \A u \in Tabs : left[u] \subseteq Sessions /\ login[u].session \in Sessions \cup {NoSession}
    BY DEF TypeOK
  <1>4. \A u \in Tabs : login[u].step = "me" => login[u].session \in Sessions
    BY DEF LeftInv, Fresh, TypeOK
  <1>5. \A u \in Tabs : auth'[u] \notin left'[u] /\ disk' \notin left'[u]
    BY <1>1, <1>2, <1>3 DEF LeftInv
  <1>6. \A u \in Tabs : /\ auth'[u] \in issued \cup {NoSession}
                        /\ left'[u] \subseteq issued
    BY <1>1 DEF LeftInv
  <1>7. ASSUME NEW u \in Tabs, login'[u].step = "me"
        PROVE  /\ login'[u].session \in issued /\ login'[u].session # disk'
               /\ \A w \in Tabs :
                     /\ login'[u].session # auth'[w] /\ login'[u].session \notin left'[w]
                     /\ w # u => \/ login'[w].step # "me"
                                 \/ login'[u].session # login'[w].session
    BY <1>1, <1>2, <1>4, <1>7 DEF LeftInv, Fresh
  <1>8. QED
    BY <1>1, <1>5, <1>6, <1>7 DEF LeftInv, Fresh

\* Neither does a full load of the login page bring a session back.
LEMMA SignOutLeft ==
    ASSUME TypeOK, LeftInv, NEW t \in Tabs, SignOut(t), UNCHANGED <<expired, issued>>
    PROVE  LeftInv'
  <1>1. \A u \in Tabs : login'[u].step = "me" => login'[u] = login[u]
    BY DEF SignOut, Unload, TypeOK, Idle
  <1>2. QED
    BY <1>1, ClearAuthLeft DEF SignOut

\* No action of a tab brings back what the tab left.
LEMMA TabLeft ==
    ASSUME TypeOK, LeftInv, NEW t \in Tabs, TabStep(t)
    PROVE  LeftInv'
  <1>1. CASE SubmitLogin(t)
    BY <1>1 DEF SubmitLogin, TypeOK, LeftInv, Fresh, Idle
  <1>2. CASE LoginAnswered(t)
    <2>1. PICK s \in Sessions \ issued :
             /\ issued' = issued \cup {s}
             /\ login' = [login EXCEPT ![t] = [step |-> "me", session |-> s]]
      BY <1>2 DEF LoginAnswered
    <2>2. s # NoSession
      BY ConstantsAssumption
    <2>3. \A u \in Tabs : login'[u] = IF u = t THEN [step |-> "me", session |-> s] ELSE login[u]
      BY <2>1 DEF TypeOK
    <2>4. QED
      BY <1>2, <2>1, <2>2, <2>3 DEF LoginAnswered, LeftInv, Fresh
  <1>3. CASE LoginFails(t)
    BY <1>3 DEF LoginFails, TypeOK, LeftInv, Fresh, Idle
  <1>4. CASE LoginReturns(t)
    BY <1>4, UnloadLeft DEF LoginReturns
  <1>5. CASE LoginSucceeds(t)
    <2>1. \A u \in Tabs : /\ auth'[u] = IF u = t THEN login[t].session ELSE auth[u]
                          /\ login'[u] = IF u = t THEN Idle ELSE login[u]
      BY <1>5 DEF LoginSucceeds, Persist, TypeOK
    <2>2. disk' = login[t].session /\ issued' = issued /\ left' = left
      BY <1>5 DEF LoginSucceeds, Persist
    <2>3. QED
      BY <1>5, <2>1, <2>2 DEF LoginSucceeds, LeftInv, Fresh, Idle
  <1>6. CASE OpenRegister(t)
    BY <1>6, UnloadLeft DEF OpenRegister
  <1>7. CASE Reload(t)
    BY <1>7, UnloadLeft DEF Reload
  <1>8. CASE Logout(t)
    BY <1>8, ClearAuthLeft DEF Logout
  <1>9. ASSUME UNCHANGED <<auth, disk, login, issued, left>>
        PROVE  LeftInv'
    BY <1>9 DEF LeftInv, Fresh
  <1>10. QED
    BY <1>1, <1>2, <1>3, <1>4, <1>5, <1>6, <1>7, <1>8, <1>9
       DEF TabStep, Registered, Navigate, TimerFires, Send

\* No answer does, when the server refuses every refresh.
LEMMA AnswerLeft ==
    ASSUME TypeOK, LeftInv, NeedsClient,
           RefreshStep \/ RequestStep \/ \E s \in Sessions : Expire(s)
    PROVE  LeftInv'
  <1>1. \A r \in refreshing : r.tab \in Tabs
    BY DEF TypeOK
  <1>2. \A q \in requests : q.tab \in Tabs
    BY DEF TypeOK, Request
  <1>3. ASSUME NEW r \in refreshing, RefreshAnswered(r) \/ RefreshFails(r)
        PROVE  LeftInv'
    BY <1>1, <1>3, SignOutLeft DEF RefreshAnswered, RefreshFails
  <1>4. ASSUME NEW q \in requests, Unauthorized(q)
        PROVE  LeftInv'
    BY <1>2, <1>4, SignOutLeft, ClearAuthLeft DEF Unauthorized
  <1>5. ASSUME UNCHANGED <<auth, disk, login, issued, left>>
        PROVE  LeftInv'
    BY <1>5 DEF LeftInv, Fresh
  <1>6. QED
    BY <1>3, <1>4, <1>5 DEF RefreshStep, RequestStep, Answered, Expire

\* While the server refuses every refresh that names no client, no tab ever
\* uses a session again that it signed out of, for any number of tabs over one
\* localStorage, logins and requests.
THEOREM SignedOut ==
    ASSUME NeedsClient
    PROVE  Spec => []SignedOutForGood
  <1>1. Init => LeftInv
    BY DEF Init, LeftInv, Fresh, Idle
  <1>2. TypeOK /\ LeftInv /\ [Next]_vars => LeftInv'
    <2> SUFFICES ASSUME TypeOK, LeftInv, [Next]_vars
                 PROVE  LeftInv'
      OBVIOUS
    <2>1. CASE UNCHANGED vars
      BY <2>1 DEF vars, LeftInv, Fresh
    <2>2. QED
      BY <2>1, TabLeft, AnswerLeft DEF Next
  <1>3. LeftInv => SignedOutForGood
    BY DEF LeftInv, SignedOutForGood
  <1>4. QED
    BY <1>1, <1>2, <1>3, TypeCorrect, PTL DEF Spec
=============================================================================
