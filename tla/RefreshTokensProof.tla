------------------------- MODULE RefreshTokensProof -------------------------
(***************************************************************************)
(* Invariants of RefreshTokens, proved for every set of users, clients,    *)
(* token values and concurrent requests, with and without SQL faults.      *)
(***************************************************************************)
EXTENDS RefreshTokens, TLAPS

\* The steps of the two refresh endpoints that hold a token they have read.
RotatingSteps == {"authUser", "authCreate", "oauthRevoke", "oauthCreate"}

\* The step of a request determines what it carries.
LEMMA RequestShape ==
    ASSUME NEW r \in Request
    PROVE  /\ r.step = "issue" => r \in Issuing
           /\ r.step \in RotatingSteps => r \in Rotating
           /\ r.step = "authRevoke" => r \in Retiring
           /\ r.step = "disableSweep" => r \in Sweeping
  <1>1. CASE r = Idle
    BY <1>1 DEF Idle, RotatingSteps
  <1>2. CASE r \in Issuing
    BY <1>2 DEF Issuing, RotatingSteps
  <1>3. CASE r \in Rotating
    BY <1>3 DEF Rotating, RotatingSteps
  <1>4. CASE r \in Retiring
    BY <1>4 DEF Retiring, RotatingSteps
  <1>5. CASE r \in Sweeping
    BY <1>5 DEF Sweeping, RotatingSteps
  <1>6. QED
    BY <1>1, <1>2, <1>3, <1>4, <1>5 DEF Request

\* An INSERT keeps the table well typed.
LEMMA InsertType ==
    ASSUME TypeOK, NEW new \in Tokens, NEW u \in Users, NEW c \in ClientIDs,
           Insert(new, u, c)
    PROVE  db' \in [Tokens -> Row \cup {NoRow}]
  BY DEF Insert, TypeOK, Row

\* Revoking one row keeps the table well typed.
LEMMA RevokeRowType ==
    ASSUME TypeOK, NEW t \in Tokens, RevokeRow(t)
    PROVE  db' \in [Tokens -> Row \cup {NoRow}]
  BY DEF RevokeRow, HasRow, TypeOK, Row

\* So does revoking the live rows of a set.
LEMMA RevokeRowsType ==
    ASSUME TypeOK, NEW S, RevokeRows(S)
    PROVE  db' \in [Tokens -> Row \cup {NoRow}]
  BY DEF RevokeRows, Live, TypeOK, Row

\* Whatever a goroutine is made to do next is a request again.
LEMMA ResumeType ==
    ASSUME TypeOK, NEW h \in Handlers, NEW r \in Request, Resume(h, r)
    PROVE  req' \in [Handlers -> Request]
  BY DEF Resume, TypeOK

\* A goroutine at rest carries a request.
LEMMA IdleType == Idle \in Request
  BY DEF Request
-----------------------------------------------------------------------------
\* The first state is well typed.
LEMMA TypeInit == Init => TypeOK
  BY IdleType DEF Init, TypeOK, Statuses

\* Each action of a request keeps the type invariant.
LEMMA HandlerType ==
    ASSUME TypeOK, NEW h \in Handlers, Handler(h)
    PROVE  TypeOK'
  <1> USE DEF TypeOK
  <1>r. req[h] \in Request
    OBVIOUS
  <1>1. ASSUME NEW u \in Users, CreateUser(h, u)
        PROVE  TypeOK'
    BY <1>1 DEF CreateUser, Statuses
  <1>2. ASSUME NEW u \in Users, NEW c \in ClientIDs, Register(h, u, c)
        PROVE  TypeOK'
    <2>1. [step |-> "issue", user |-> u, client |-> c] \in Request
      BY DEF Request, Issuing
    <2>2. QED
      BY <1>2, <2>1, ResumeType DEF Register, Statuses
  <1>3. ASSUME NEW u \in Users, NEW c \in ClientIDs, LoginCheck(h, u, c)
        PROVE  TypeOK'
    <2>1. [step |-> "issue", user |-> u, client |-> c] \in Request
      BY DEF Request, Issuing
    <2>2. QED
      BY <1>3, <2>1, ResumeType DEF LoginCheck
  <1>4. ASSUME NEW t \in Tokens, Issue(h, t)
        PROVE  TypeOK'
    <2>1. req[h].user \in Users /\ req[h].client \in ClientIDs
      BY <1>4, <1>r, RequestShape DEF Issue, Issuing
    <2>2. QED
      BY <1>4, <2>1, InsertType, ResumeType, IdleType DEF Issue
  <1>5. ASSUME IssueFails(h) \/ AuthCreateFails(h) \/ OAuthCreateFails(h)
        PROVE  TypeOK'
    BY <1>5, ResumeType, IdleType
       DEF IssueFails, AuthCreateFails, OAuthCreateFails
  <1>6. ASSUME NEW t \in Tokens, NEW c \in ClientIDs,
               AuthRead(h, t, c) \/ OAuthRead(h, t, c)
        PROVE  TypeOK'
    <2>1. db[t].user \in Users
      BY <1>6 DEF AuthRead, OAuthRead, Live, Row
    <2>2. ASSUME NEW s \in {"authUser", "oauthRevoke"}
          PROVE  [step |-> s, old |-> t, user |-> db[t].user, client |-> c] \in Request
      BY <2>1 DEF Request, Rotating
    <2>3. QED
      BY <1>6, <2>2, ResumeType DEF AuthRead, OAuthRead
  <1>7. ASSUME AuthCheckUser(h)
        PROVE  TypeOK'
    <2>1. req[h] \in Rotating
      BY <1>7, <1>r, RequestShape DEF AuthCheckUser, RotatingSteps
    <2>2. [req[h] EXCEPT !.step = "authCreate"] \in Request
      BY <2>1 DEF Rotating, Request
    <2>3. QED
      BY <1>7, <2>2, ResumeType, IdleType DEF AuthCheckUser
  <1>8. ASSUME NEW t \in Tokens, AuthCreate(h, t)
        PROVE  TypeOK'
    <2>1. req[h] \in Rotating
      BY <1>8, <1>r, RequestShape DEF AuthCreate, RotatingSteps
    <2>2. req[h].user \in Users /\ req[h].client \in ClientIDs /\ req[h].old \in Tokens
      BY <2>1 DEF Rotating
    <2>3. [step |-> "authRevoke", old |-> req[h].old, new |-> t,
           user |-> req[h].user] \in Request
      BY <2>2 DEF Request, Retiring
    <2>4. QED
      BY <1>8, <2>2, <2>3, InsertType, ResumeType DEF AuthCreate
  <1>9. ASSUME AuthRevoke(h)
        PROVE  TypeOK'
    <2>1. req[h].old \in Tokens
      BY <1>9, <1>r, RequestShape DEF AuthRevoke, Retiring
    <2>2. QED
      BY <1>9, <2>1, RevokeRowType, ResumeType, IdleType DEF AuthRevoke
  <1>10. ASSUME OAuthRevoke(h)
         PROVE  TypeOK'
    <2>1. req[h] \in Rotating
      BY <1>10, <1>r, RequestShape DEF OAuthRevoke, RotatingSteps
    <2>2. [req[h] EXCEPT !.step = "oauthCreate"] \in Request /\ req[h].old \in Tokens
      BY <2>1 DEF Rotating, Request
    <2>3. QED
      BY <1>10, <2>2, RevokeRowType, ResumeType DEF OAuthRevoke
  <1>11. ASSUME NEW t \in Tokens, OAuthCreate(h, t)
         PROVE  TypeOK'
    <2>1. req[h] \in Rotating
      BY <1>11, <1>r, RequestShape DEF OAuthCreate, RotatingSteps
    <2>2. req[h].user \in Users /\ req[h].client \in ClientIDs /\ req[h].old \in Tokens
      BY <2>1 DEF Rotating
    <2>3. QED
      BY <1>11, <2>2, InsertType, ResumeType, IdleType DEF OAuthCreate
  <1>12. ASSUME NEW t \in Tokens,
                OAuthRevocation(h, t) \/ \E c \in ClientIDs : Logout(h, t, c)
         PROVE  TypeOK'
    BY <1>12, RevokeRowType DEF OAuthRevocation, Logout
  <1>13. ASSUME \/ RevokeAll(h)
                \/ \E c \in ClientIDs : RevokeByClient(h, c)
                \/ \E u \in Users : RevokeByUser(h, u)
                \/ \E u \in Users, c \in ClientIDs : RevokeByUserClient(h, u, c)
         PROVE  TypeOK'
    BY <1>13, RevokeRowsType
       DEF RevokeAll, RevokeByClient, RevokeByUser, RevokeByUserClient
  <1>14. ASSUME NEW u \in Users, Disable(h, u)
         PROVE  TypeOK'
    <2>1. [step |-> "disableSweep", user |-> u] \in Request
      BY DEF Request, Sweeping
    <2>2. QED
      BY <1>14, <2>1, ResumeType DEF Disable, Statuses
  <1>15. ASSUME DisableSweep(h)
         PROVE  TypeOK'
    <2>1. req[h].user \in Users
      BY <1>15, <1>r, RequestShape DEF DisableSweep, Sweeping
    <2>2. QED
      BY <1>15, <2>1, RevokeRowsType, ResumeType, IdleType DEF DisableSweep
  <1>16. ASSUME NEW u \in Users, Enable(h, u)
         PROVE  TypeOK'
    BY <1>16 DEF Enable, Statuses
  <1>17. ASSUME NEW u \in Users, DeleteUser(h, u)
         PROVE  TypeOK'
    <2>1. db' \in [Tokens -> Row \cup {NoRow}]
      BY <1>17 DEF DeleteUser, OwnedBy, Row
    <2>2. QED
      BY <1>17, <2>1 DEF DeleteUser, Statuses
  <1>18. QED
    BY <1>1, <1>2, <1>3, <1>4, <1>5, <1>6, <1>7, <1>8, <1>9, <1>10, <1>11,
       <1>12, <1>13, <1>14, <1>15, <1>16, <1>17 DEF Handler

\* The clock keeps the type invariant.
LEMMA ExpireType ==
    ASSUME TypeOK, NEW t \in Tokens, Expire(t)
    PROVE  TypeOK'
  BY DEF Expire, HasRow, TypeOK, Row

\* So does every step.
LEMMA TypeStep == TypeOK /\ [Next]_vars => TypeOK'
  <1> SUFFICES ASSUME TypeOK, [Next]_vars
               PROVE  TypeOK'
    OBVIOUS
  <1>1. CASE UNCHANGED vars
    BY <1>1 DEF vars, TypeOK
  <1>2. CASE Next
    BY <1>2, HandlerType, ExpireType DEF Next
  <1>3. QED
    BY <1>1, <1>2

\* TypeOK holds of every state: users, rows, what each request has read and
\* the history variables stay in their sets.
THEOREM TypeCorrect == Spec => []TypeOK
  BY TypeInit, TypeStep, PTL DEF Spec
-----------------------------------------------------------------------------
(* What a step may do to a row, to a user and to the requests in flight.    *)

\* A row keeps its user, and neither a revoked nor a deleted row comes back.
RowKept(t) ==
    /\ db'[t] # NoRow
    /\ db'[t].user = db[t].user
    /\ HasRow(t)' => HasRow(t)
    /\ Live(t)' => Live(t)

\* A new row belongs to an existing user for whom a request was in flight.
RowInserted(t) ==
    /\ Exists(db'[t].user)
    /\ InFlight(db'[t].user)
    /\ status' = status

RowStep(t) ==
    /\ db[t] # NoRow => RowKept(t)
    /\ (db[t] = NoRow /\ db'[t] # NoRow) => RowInserted(t)

\* An INSERT adds one row, of an existing user, and keeps the others.
LEMMA InsertStep ==
    ASSUME TypeOK, NEW h \in Handlers, NEW new \in Tokens, NEW t \in Tokens,
           req[h].step \in {"issue", "authCreate", "oauthCreate"},
           Insert(new, req[h].user, req[h].client), status' = status
    PROVE  RowStep(t)
  <1>1. CASE t = new
    <2>1. db[t] = NoRow /\ db'[t].user = req[h].user /\ Exists(req[h].user)
      BY <1>1 DEF Insert, TypeOK
    <2>2. InFlight(req[h].user)
      BY DEF InFlight
    <2>3. QED
      BY <2>1, <2>2 DEF RowStep, RowInserted
  <1>2. CASE t # new
    BY <1>2 DEF Insert, TypeOK, RowStep, RowKept, HasRow, Live
  <1>3. QED
    BY <1>1, <1>2

\* An UPDATE by id only ends rows.
LEMMA RevokeRowStep ==
    ASSUME TypeOK, NEW r \in Tokens, NEW t \in Tokens, RevokeRow(r)
    PROVE  RowStep(t)
  <1>1. CASE db[t] = NoRow
    BY <1>1 DEF RevokeRow, HasRow, TypeOK, RowStep
  <1>2. CASE db[t] # NoRow
    <2>1. db[t] \in Row
      BY <1>2 DEF TypeOK
    <2>2. db'[t] = db[t] \/ (HasRow(t) /\ db'[t] = [db[t] EXCEPT !.state = "revoked"])
      BY DEF RevokeRow, TypeOK
    <2>3. QED
      BY <1>2, <2>1, <2>2, NoRowAssumption DEF Row, RowStep, RowKept, HasRow, Live
  <1>3. QED
    BY <1>1, <1>2

\* A mass UPDATE only ends rows.
LEMMA RevokeRowsStep ==
    ASSUME TypeOK, NEW S, NEW t \in Tokens, RevokeRows(S)
    PROVE  RowStep(t)
  <1>1. CASE db[t] = NoRow
    BY <1>1 DEF RevokeRows, Live, TypeOK, RowStep
  <1>2. CASE db[t] # NoRow
    <2>1. db[t] \in Row
      BY <1>2 DEF TypeOK
    <2>2. db'[t] = db[t] \/ (Live(t) /\ db'[t] = [db[t] EXCEPT !.state = "revoked"])
      BY DEF RevokeRows, TypeOK
    <2>3. QED
      BY <1>2, <2>1, <2>2, NoRowAssumption DEF Row, RowStep, RowKept, HasRow, Live
  <1>3. QED
    BY <1>1, <1>2

\* Leaving the table alone keeps every row.
LEMMA SameTableStep ==
    ASSUME TypeOK, NEW t \in Tokens, UNCHANGED db
    PROVE  RowStep(t)
  BY DEF RowStep, RowKept, HasRow, Live

\* Every action of a request keeps or inserts rows in one of these ways.
LEMMA HandlerRowStep ==
    ASSUME TypeOK, NEW h \in Handlers, Handler(h), NEW t \in Tokens
    PROVE  RowStep(t)
  <1>r. req[h] \in Request
    BY DEF TypeOK
  <1>1. ASSUME NEW n \in Tokens, Issue(h, n) \/ AuthCreate(h, n) \/ OAuthCreate(h, n)
        PROVE  RowStep(t)
    BY <1>1, InsertStep DEF Issue, AuthCreate, OAuthCreate
  <1>2. ASSUME AuthRevoke(h) \/ OAuthRevoke(h)
        PROVE  RowStep(t)
    <2>1. req[h].old \in Tokens
      BY <1>2, <1>r, RequestShape
         DEF AuthRevoke, OAuthRevoke, Retiring, Rotating, RotatingSteps
    <2>2. QED
      BY <1>2, <2>1, RevokeRowStep, SameTableStep DEF AuthRevoke, OAuthRevoke
  <1>3. ASSUME NEW n \in Tokens,
               OAuthRevocation(h, n) \/ \E c \in ClientIDs : Logout(h, n, c)
        PROVE  RowStep(t)
    BY <1>3, RevokeRowStep DEF OAuthRevocation, Logout
  <1>4. ASSUME \/ RevokeAll(h)
               \/ \E c \in ClientIDs : RevokeByClient(h, c)
               \/ \E u \in Users : RevokeByUser(h, u)
               \/ \E u \in Users, c \in ClientIDs : RevokeByUserClient(h, u, c)
               \/ DisableSweep(h)
        PROVE  RowStep(t)
    BY <1>4, RevokeRowsStep, SameTableStep
       DEF RevokeAll, RevokeByClient, RevokeByUser, RevokeByUserClient, DisableSweep
  <1>5. ASSUME NEW u \in Users, DeleteUser(h, u)
        PROVE  RowStep(t)
    <2>1. CASE db[t] = NoRow
      BY <1>5, <2>1 DEF DeleteUser, OwnedBy, TypeOK, RowStep
    <2>2. CASE db[t] # NoRow
      <3>1. db[t] \in Row
        BY <2>2 DEF TypeOK
      <3>2. db'[t] = db[t] \/ db'[t] = [db[t] EXCEPT !.state = "deleted"]
        BY <1>5 DEF DeleteUser, TypeOK
      <3>3. QED
        BY <2>2, <3>1, <3>2, NoRowAssumption DEF Row, RowStep, RowKept, HasRow, Live
    <2>3. QED
      BY <2>1, <2>2
  <1>6. ASSUME UNCHANGED db
        PROVE  RowStep(t)
    BY <1>6, SameTableStep
  <1>7. QED
    BY <1>1, <1>2, <1>3, <1>4, <1>5, <1>6
       DEF Handler, CreateUser, Register, LoginCheck, IssueFails, AuthRead,
           AuthCheckUser, AuthCreateFails, OAuthRead, OAuthCreateFails, Disable, Enable

\* The clock keeps every row but for its expiry.
LEMMA ExpireRowStep ==
    ASSUME TypeOK, NEW n \in Tokens, Expire(n), NEW t \in Tokens
    PROVE  RowStep(t)
  <1>1. CASE t = n
    <2>1. db[t] \in Row /\ db'[t] = [db[t] EXCEPT !.expired = TRUE]
      BY <1>1 DEF Expire, HasRow, TypeOK
    <2>2. /\ db'[t] \in Row
          /\ db'[t].state = db[t].state
          /\ db'[t].user = db[t].user
      BY <2>1 DEF Row
    <2>3. db[t] # NoRow /\ db'[t] # NoRow
      BY <2>1, <2>2, NoRowAssumption
    <2>4. QED
      BY <2>2, <2>3 DEF RowStep, RowKept, HasRow, Live
  <1>2. CASE t # n
    BY <1>2 DEF Expire, TypeOK, RowStep, RowKept, HasRow, Live
  <1>3. QED
    BY <1>1, <1>2

\* A user stops existing only together with every row that names it.
LEMMA StatusStep ==
    ASSUME TypeOK, NEW h \in Handlers, Handler(h), NEW u \in Users, Exists(u)
    PROVE  \/ Exists(u)'
           \/ \A t \in Tokens : (db[t] # NoRow /\ db[t].user = u) => ~HasRow(t)'
  <1>1. ASSUME NEW v \in Users, DeleteUser(h, v)
        PROVE  \/ Exists(u)'
               \/ \A t \in Tokens : (db[t] # NoRow /\ db[t].user = u) => ~HasRow(t)'
    <2>1. CASE u = v
      <3>1. SUFFICES ASSUME NEW t \in Tokens, db[t] # NoRow, db[t].user = u
                     PROVE  ~HasRow(t)'
        OBVIOUS
      <3>2. db[t] \in Row /\ db'[t] = [db[t] EXCEPT !.state = "deleted"]
        BY <1>1, <2>1, <3>1 DEF DeleteUser, OwnedBy, TypeOK
      <3>3. QED
        BY <3>2 DEF HasRow, Row
    <2>2. CASE u # v
      BY <1>1, <2>2 DEF DeleteUser, Exists, TypeOK
    <2>3. QED
      BY <2>1, <2>2
  <1>2. ASSUME NEW v \in Users, NEW c \in ClientIDs,
               \/ CreateUser(h, v) \/ Register(h, v, c)
               \/ Disable(h, v) \/ Enable(h, v)
        PROVE  Exists(u)'
    BY <1>2 DEF CreateUser, Register, Disable, Enable, Exists, TypeOK
  <1>3. ASSUME NEW v \in Users, CreateUser(h, v) \/ Disable(h, v) \/ Enable(h, v)
        PROVE  Exists(u)'
    BY <1>3 DEF CreateUser, Disable, Enable, Exists, TypeOK
  <1>4. ASSUME UNCHANGED status
        PROVE  Exists(u)'
    BY <1>4 DEF Exists
  <1>5. QED
    BY <1>1, <1>2, <1>3, <1>4
       DEF Handler, LoginCheck, Issue, IssueFails, AuthRead, AuthCheckUser,
           AuthCreate, AuthCreateFails, AuthRevoke, OAuthRead, OAuthRevoke,
           OAuthCreate, OAuthCreateFails, Logout, OAuthRevocation, RevokeByUser,
           RevokeByUserClient, RevokeByClient, RevokeAll, DisableSweep

\* A refresh token row never outlives its user (the foreign key and the
\* deleting transaction suffice, whatever insert races the deletion).
THEOREM OrphanFreedom == Spec => []NoOrphanRows
  <1>1. Init => NoOrphanRows
    BY DEF Init, NoOrphanRows, HasRow
  <1>2. TypeOK /\ NoOrphanRows /\ [Next]_vars => NoOrphanRows'
    <2> SUFFICES ASSUME TypeOK, NoOrphanRows, [Next]_vars,
                        NEW t \in Tokens, HasRow(t)'
                 PROVE  Exists(db[t].user)'
      BY DEF NoOrphanRows
    <2>1. CASE UNCHANGED vars
      BY <2>1 DEF vars, NoOrphanRows, HasRow, Exists
    <2>2. ASSUME NEW n \in Tokens, Expire(n)
          PROVE  Exists(db[t].user)'
      <3>1. RowStep(t) /\ UNCHANGED status
        BY <2>2, ExpireRowStep DEF Expire
      <3>2. db[t] # NoRow
        BY <2>2 DEF Expire, HasRow, TypeOK
      <3>3. QED
        BY <3>1, <3>2 DEF RowStep, RowKept, NoOrphanRows, Exists
    <2>3. ASSUME NEW h \in Handlers, Handler(h)
          PROVE  Exists(db[t].user)'
      <3>1. RowStep(t)
        BY <2>3, HandlerRowStep
      <3>2. CASE db[t] # NoRow
        <4>1. HasRow(t) /\ db'[t].user = db[t].user
          BY <3>1, <3>2 DEF RowStep, RowKept
        <4>2. db[t].user \in Users /\ Exists(db[t].user)
          BY <3>2, <4>1 DEF TypeOK, Row, NoOrphanRows
        <4>3. Exists(db[t].user) /\ (status'[db[t].user] \in {"active", "disabled"})
          BY <2>3, <3>2, <4>2, StatusStep DEF Exists
        <4>4. QED
          BY <4>1, <4>3 DEF Exists
      <3>3. CASE db[t] = NoRow
        BY <3>1, <3>3 DEF RowStep, RowInserted, HasRow, Exists
      <3>4. QED
        BY <3>2, <3>3
    <2>4. QED
      BY <2>1, <2>2, <2>3 DEF Next
  <1>3. QED
    BY <1>1, <1>2, TypeCorrect, PTL DEF Spec
-----------------------------------------------------------------------------
(* Disabling a user. DisabledStaysClean is not inductive: a disabled user   *)
(* must also stay disabled or deleted, and have no request in flight that   *)
(* could still insert a row.                                                *)

CleanInv ==
    \A u \in clean :
        /\ status[u] \in {"disabled", "deleted"}
        /\ ~InFlight(u)
        /\ \A t \in Tokens : ~(Live(t) /\ db[t].user = u)

\* A request gets in flight for a user only from a live token of the user or
\* after reading that the user is absent or active.
LEMMA InFlightStep ==
    ASSUME TypeOK, NEW h \in Handlers, Handler(h), NEW u \in Users, InFlight(u)'
    PROVE  \/ InFlight(u)
           \/ status[u] \in {"none", "active"}
           \/ \E t \in Tokens : Live(t) /\ db[t].user = u
  <1> DEFINE Danger == {"issue", "authCreate", "oauthRevoke", "oauthCreate"}
  <1>1. PICK g \in Handlers : req'[g].step \in Danger /\ req'[g].user = u
    BY DEF InFlight
  <1>2. CASE req'[g] = req[g]
    BY <1>1, <1>2 DEF InFlight
  <1>3. CASE req'[g] # req[g]
    <2>r. \A r : Resume(h, r) => g = h /\ req'[h] = r
      BY <1>3 DEF Resume, TypeOK
    <2>i. Idle.step \notin Danger
      BY DEF Idle
    <2>1. ASSUME NEW v \in Users, NEW c \in ClientIDs, Register(h, v, c) \/ LoginCheck(h, v, c)
          PROVE  status[u] \in {"none", "active"}
      BY <1>1, <2>1, <2>r DEF Register, LoginCheck
    <2>2. ASSUME NEW t \in Tokens, NEW c \in ClientIDs, OAuthRead(h, t, c)
          PROVE  Live(t) /\ db[t].user = u
      BY <1>1, <2>2, <2>r DEF OAuthRead
    <2>3. ASSUME NEW t \in Tokens, NEW c \in ClientIDs, AuthRead(h, t, c)
          PROVE  FALSE
      BY <1>1, <2>3, <2>r DEF AuthRead
    <2>4. ASSUME AuthCheckUser(h)
          PROVE  status[u] \in {"none", "active"}
      <3>1. req[h] \in Rotating
        BY <2>4, RequestShape DEF AuthCheckUser, RotatingSteps, TypeOK
      <3>2. req'[h] = Idle \/ (status[req[h].user] = "active"
                               /\ req'[h] = [req[h] EXCEPT !.step = "authCreate"])
        BY <2>4, <2>r DEF AuthCheckUser
      <3>3. g = h
        BY <2>4, <2>r DEF AuthCheckUser
      <3>4. req'[h].user = req[h].user \/ req'[h] = Idle
        BY <3>1, <3>2 DEF Rotating
      <3>5. QED
        BY <1>1, <2>i, <3>2, <3>3, <3>4
    <2>5. ASSUME NEW t \in Tokens, AuthCreate(h, t)
          PROVE  FALSE
      BY <1>1, <2>5, <2>r DEF AuthCreate
    <2>6. ASSUME OAuthRevoke(h)
          PROVE  InFlight(u)
      <3>1. req[h] \in Rotating
        BY <2>6, RequestShape DEF OAuthRevoke, RotatingSteps, TypeOK
      <3>2. g = h /\ req'[h] = [req[h] EXCEPT !.step = "oauthCreate"]
        BY <2>6, <2>r DEF OAuthRevoke
      <3>3. req[h].user = u
        BY <1>1, <3>1, <3>2 DEF Rotating
      <3>4. QED
        BY <2>6, <3>3 DEF OAuthRevoke, InFlight
    <2>7. ASSUME NEW v \in Users, Disable(h, v)
          PROVE  FALSE
      BY <1>1, <2>7, <2>r DEF Disable
    <2>8. ASSUME Resume(h, Idle)
          PROVE  FALSE
      BY <1>1, <2>8, <2>r, <2>i
    <2>9. ~UNCHANGED req
      BY <1>3
    <2>10. QED
      BY <2>1, <2>2, <2>3, <2>4, <2>5, <2>6, <2>7, <2>8, <2>9
         DEF Handler, CreateUser, Issue, IssueFails, AuthCreateFails, AuthRevoke,
             OAuthCreate, OAuthCreateFails, Logout, OAuthRevocation, RevokeByUser,
             RevokeByUserClient, RevokeByClient, RevokeAll, DisableSweep, Enable,
             DeleteUser
  <1>4. QED
    BY <1>2, <1>3

\* Only Enable brings a disabled user back, and only the sweep of Disable
\* adds to clean.
LEMMA CleanStep ==
    ASSUME TypeOK, NEW h \in Handlers, Handler(h), NEW u \in Users, u \in clean'
    PROVE  \/ /\ u \in clean
              /\ status[u] \in {"disabled", "deleted"} => status'[u] \in {"disabled", "deleted"}
           \/ DisableSweep(h) /\ u \notin clean
  <1>1. ASSUME NEW v \in Users, NEW c \in ClientIDs,
               Disable(h, v) \/ DeleteUser(h, v) \/ CreateUser(h, v) \/ Register(h, v, c)
        PROVE  /\ u \in clean
               /\ status[u] \in {"disabled", "deleted"} => status'[u] \in {"disabled", "deleted"}
    BY <1>1 DEF Disable, DeleteUser, CreateUser, Register, TypeOK
  <1>2. ASSUME NEW v \in Users, Disable(h, v) \/ DeleteUser(h, v) \/ CreateUser(h, v)
        PROVE  /\ u \in clean
               /\ status[u] \in {"disabled", "deleted"} => status'[u] \in {"disabled", "deleted"}
    BY <1>2 DEF Disable, DeleteUser, CreateUser, TypeOK
  <1>3. ASSUME NEW v \in Users, Enable(h, v)
        PROVE  /\ u \in clean
               /\ status[u] \in {"disabled", "deleted"} => status'[u] \in {"disabled", "deleted"}
    BY <1>3 DEF Enable, TypeOK
  <1>4. QED
    BY <1>1, <1>2, <1>3
       DEF Handler, LoginCheck, Issue, IssueFails, AuthRead, AuthCheckUser,
           AuthCreate, AuthCreateFails, AuthRevoke, OAuthRead, OAuthRevoke,
           OAuthCreate, OAuthCreateFails, Logout, OAuthRevocation, RevokeByUser,
           RevokeByUserClient, RevokeByClient, RevokeAll, DisableSweep

\* The sweep leaves no live row of the user it disables.
LEMMA SweepStep ==
    ASSUME TypeOK, NEW h \in Handlers, DisableSweep(h), NEW u \in Users,
           u \in clean', u \notin clean
    PROVE  /\ status'[u] \in {"disabled", "deleted"}
           /\ ~InFlight(u)'
           /\ \A t \in Tokens : ~(Live(t)' /\ db'[t].user = u)
  <1>1. /\ u = req[h].user
        /\ RevokeRows(OwnedBy(u))
        /\ status[u] = "disabled"
        /\ ~InFlight(u)
        /\ Resume(h, Idle)
        /\ status' = status
    BY DEF DisableSweep
  <1>2. ~InFlight(u)'
    BY <1>1 DEF InFlight, Resume, TypeOK, Idle
  <1>3. ASSUME NEW t \in Tokens, Live(t)', db'[t].user = u
        PROVE  FALSE
    <2>1. CASE db[t] = NoRow
      BY <1>1, <1>3, <2>1 DEF RevokeRows, Live, TypeOK
    <2>2. CASE db[t] # NoRow
      <3>1. db[t] \in Row
        BY <2>2 DEF TypeOK
      <3>2. db'[t] = IF t \in OwnedBy(u) /\ Live(t)
                     THEN [db[t] EXCEPT !.state = "revoked"] ELSE db[t]
        BY <1>1 DEF RevokeRows
      <3>3. db'[t].user = db[t].user
        BY <3>1, <3>2 DEF Row
      <3>4. t \in OwnedBy(u)
        BY <1>3, <2>2, <3>3 DEF OwnedBy
      <3>5. QED
        BY <1>3, <3>1, <3>2, <3>4 DEF Live, Row
    <2>3. QED
      BY <2>1, <2>2
  <1>4. QED
    BY <1>1, <1>2, <1>3

\* After a sweep that found nobody in flight, a disabled user has no live
\* token until Enable, whatever the refresh endpoints do meanwhile.
THEOREM DisabledClean == Spec => []DisabledStaysClean
  <1>1. Init => CleanInv
    BY DEF Init, CleanInv
  <1>2. TypeOK /\ CleanInv /\ [Next]_vars => CleanInv'
    <2> SUFFICES ASSUME TypeOK, CleanInv, [Next]_vars, NEW u \in Users, u \in clean'
                 PROVE  /\ status'[u] \in {"disabled", "deleted"}
                        /\ ~InFlight(u)'
                        /\ \A t \in Tokens : ~(Live(t)' /\ db'[t].user = u)
      BY TypeStep DEF CleanInv, TypeOK
    <2>1. CASE UNCHANGED vars
      BY <2>1 DEF vars, CleanInv, InFlight, Live
    <2>2. ASSUME NEW n \in Tokens, Expire(n)
          PROVE  /\ status'[u] \in {"disabled", "deleted"}
                 /\ ~InFlight(u)'
                 /\ \A t \in Tokens : ~(Live(t)' /\ db'[t].user = u)
      <3>1. UNCHANGED <<status, req, clean>>
        BY <2>2 DEF Expire
      <3>2. ASSUME NEW t \in Tokens, Live(t)', db'[t].user = u
            PROVE  FALSE
        <4>1. Live(t) /\ db'[t].user = db[t].user
          <5>1. CASE t = n
            BY <2>2, <3>2, <5>1, ExpireRowStep DEF RowStep, RowKept, Expire, HasRow
          <5>2. CASE t # n
            BY <2>2, <3>2, <5>2 DEF Expire, Live, TypeOK
          <5>3. QED
            BY <5>1, <5>2
        <4>2. QED
          BY <3>1, <3>2, <4>1 DEF CleanInv
      <3>3. QED
        BY <3>1, <3>2 DEF CleanInv, InFlight
    <2>3. ASSUME NEW h \in Handlers, Handler(h)
          PROVE  /\ status'[u] \in {"disabled", "deleted"}
                 /\ ~InFlight(u)'
                 /\ \A t \in Tokens : ~(Live(t)' /\ db'[t].user = u)
      <3>1. CASE u \in clean
        <4>1. /\ status[u] \in {"disabled", "deleted"}
              /\ ~InFlight(u)
              /\ \A t \in Tokens : ~(Live(t) /\ db[t].user = u)
          BY <3>1 DEF CleanInv
        <4>2. status'[u] \in {"disabled", "deleted"}
          BY <2>3, <3>1, <4>1, CleanStep
        <4>3. ~InFlight(u)'
          BY <2>3, <4>1, InFlightStep
        <4>4. ASSUME NEW t \in Tokens, Live(t)', db'[t].user = u
              PROVE  FALSE
          <5>1. RowStep(t)
            BY <2>3, HandlerRowStep
          <5>2. QED
            BY <4>1, <4>4, <5>1 DEF RowStep, RowKept, RowInserted, Live
        <4>5. QED
          BY <4>2, <4>3, <4>4
      <3>2. CASE u \notin clean
        BY <2>3, <3>2, CleanStep, SweepStep
      <3>3. QED
        BY <3>1, <3>2
    <2>4. QED
      BY <2>1, <2>2, <2>3 DEF Next
  <1>3. CleanInv => DisabledStaysClean
    BY DEF CleanInv, DisabledStaysClean
  <1>4. QED
    BY <1>1, <1>2, <1>3, TypeCorrect, PTL DEF Spec
-----------------------------------------------------------------------------
(* A session keeps its owner. FamilyKeepsOwner compares any two tokens of a *)
(* session; what is inductive is that each agrees with the first one, whose *)
(* value is the family, and that a request holds what it read of its token. *)

HeldBy(t, u, c) == db[t] # NoRow /\ db[t].user = u /\ Fold[db[t].client] = Fold[c]

OwnerInv ==
    /\ \A t \in Tokens : db[t] # NoRow => HeldBy(family[t], db[t].user, db[t].client)
    /\ \A t \in Tokens : db[t] = NoRow => family[t] = t
    /\ \A h \in Handlers : req[h].step \in RotatingSteps =>
          HeldBy(req[h].old, req[h].user, req[h].client)

\* No statement changes whose a row is.
LEMMA OwnerKept ==
    ASSUME TypeOK, [Next]_vars, NEW t \in Tokens, db[t] # NoRow
    PROVE  /\ db'[t] # NoRow
           /\ db'[t].user = db[t].user /\ db'[t].client = db[t].client
  <1>r. db[t] \in Row
    BY DEF TypeOK
  <1>1. \A s \in {"revoked", "deleted"} :
           LET r == [db[t] EXCEPT !.state = s] IN
           r # NoRow /\ r.user = db[t].user /\ r.client = db[t].client
    BY <1>r, NoRowAssumption DEF Row
  <1>2. LET r == [db[t] EXCEPT !.expired = TRUE] IN
        r # NoRow /\ r.user = db[t].user /\ r.client = db[t].client
    BY <1>r, NoRowAssumption DEF Row
  <1>3. \/ db'[t] = db[t]
        \/ \E s \in {"revoked", "deleted"} : db'[t] = [db[t] EXCEPT !.state = s]
        \/ db'[t] = [db[t] EXCEPT !.expired = TRUE]
    <2>1. ASSUME NEW h \in Handlers, Handler(h)
          PROVE  \/ db'[t] = db[t]
                 \/ \E s \in {"revoked", "deleted"} : db'[t] = [db[t] EXCEPT !.state = s]
      <3>1. ASSUME NEW n \in Tokens, NEW u, NEW c, Insert(n, u, c)
            PROVE  db'[t] = db[t]
        BY <3>1 DEF Insert, TypeOK
      <3>2. ASSUME NEW n, RevokeRow(n)
            PROVE  db'[t] = db[t] \/ db'[t] = [db[t] EXCEPT !.state = "revoked"]
        BY <3>2 DEF RevokeRow, TypeOK
      <3>3. ASSUME NEW S, RevokeRows(S)
            PROVE  db'[t] = db[t] \/ db'[t] = [db[t] EXCEPT !.state = "revoked"]
        BY <3>3 DEF RevokeRows
      <3>4. ASSUME NEW u \in Users, DeleteUser(h, u)
            PROVE  db'[t] = db[t] \/ db'[t] = [db[t] EXCEPT !.state = "deleted"]
        BY <3>4 DEF DeleteUser
      <3>5. QED
        BY <2>1, <3>1, <3>2, <3>3, <3>4
           DEF Handler, CreateUser, Register, LoginCheck, Issue, IssueFails,
               AuthRead, AuthCheckUser, AuthCreate, AuthCreateFails, AuthRevoke,
               OAuthRead, OAuthRevoke, OAuthCreate, OAuthCreateFails, Logout,
               OAuthRevocation, RevokeByUser, RevokeByUserClient, RevokeByClient,
               RevokeAll, Disable, DisableSweep, Enable
    <2>2. ASSUME NEW n \in Tokens, Expire(n)
          PROVE  db'[t] = db[t] \/ db'[t] = [db[t] EXCEPT !.expired = TRUE]
      BY <2>2 DEF Expire, TypeOK
    <2>3. QED
      BY <2>1, <2>2 DEF Next, vars
  <1>4. QED
    BY <1>1, <1>2, <1>3

\* So what is held of a token stays so.
LEMMA HeldKept ==
    ASSUME TypeOK, [Next]_vars, NEW t \in Tokens, NEW u, NEW c, HeldBy(t, u, c)
    PROVE  db'[t] # NoRow /\ db'[t].user = u /\ Fold[db'[t].client] = Fold[c]
  BY OwnerKept DEF HeldBy

\* A step that adds no row and joins no session keeps the invariant, if what
\* its request holds of a token is true of it.
LEMMA OwnerSame ==
    ASSUME TypeOK, TypeOK', OwnerInv, [Next]_vars, UNCHANGED family,
           \A t \in Tokens : db[t] = NoRow => db'[t] = NoRow,
           \A h \in Handlers : req'[h].step \in RotatingSteps =>
              \/ req'[h] = req[h]
              \/ req'[h].old \in Tokens /\ HeldBy(req'[h].old, req'[h].user, req'[h].client)
    PROVE  OwnerInv'
  <1>1. ASSUME NEW t \in Tokens, db'[t] # NoRow
        PROVE  HeldBy(family[t], db[t].user, db[t].client)'
    <2>1. db[t] # NoRow /\ db'[t].user = db[t].user /\ db'[t].client = db[t].client
      BY <1>1, OwnerKept
    <2>2. family[t] \in Tokens /\ HeldBy(family[t], db[t].user, db[t].client)
      BY <2>1 DEF OwnerInv, TypeOK
    <2>3. PICK f, u, c : f \in Tokens /\ f = family[t] /\ u = db[t].user /\ c = db[t].client
      BY <2>2
    <2>4. db'[f] # NoRow /\ db'[f].user = u /\ Fold[db'[f].client] = Fold[c]
      BY <2>2, <2>3, HeldKept
    <2>5. QED
      BY <2>1, <2>3, <2>4 DEF HeldBy
  <1>2. ASSUME NEW t \in Tokens, db'[t] = NoRow
        PROVE  family'[t] = t
    BY <1>2, OwnerKept DEF OwnerInv
  <1>3. ASSUME NEW h \in Handlers, req'[h].step \in RotatingSteps
        PROVE  HeldBy(req[h].old, req[h].user, req[h].client)'
    <2>1. req'[h].old \in Tokens /\ HeldBy(req'[h].old, req'[h].user, req'[h].client)
      BY <1>3, RequestShape DEF OwnerInv, TypeOK, Rotating
    <2>2. PICK t, u, c :
             t \in Tokens /\ t = req'[h].old /\ u = req'[h].user /\ c = req'[h].client /\ HeldBy(t, u, c)
      BY <2>1
    <2>3. db'[t] # NoRow /\ db'[t].user = u /\ Fold[db'[t].client] = Fold[c]
      BY <2>2, HeldKept
    <2>4. QED
      BY <2>2, <2>3 DEF HeldBy
  <1>4. QED
    BY <1>1, <1>2, <1>3 DEF OwnerInv

\* So does an INSERT: its row begins a session, or joins that of a token that
\* the request holds.
LEMMA OwnerInsert ==
    ASSUME TypeOK, TypeOK', OwnerInv, [Next]_vars,
           NEW new \in Tokens, NEW u \in Users, NEW c \in ClientIDs, Insert(new, u, c),
           \/ UNCHANGED family
           \/ \E old \in Tokens : /\ HeldBy(old, u, c)
                                  /\ family' = [family EXCEPT ![new] = family[old]],
           \A h \in Handlers : req'[h].step \in RotatingSteps => req'[h] = req[h]
    PROVE  OwnerInv'
  <1>r. /\ db[new] = NoRow
        /\ db' = [db EXCEPT ![new] = [state |-> "live", user |-> u, client |-> c, expired |-> FALSE]]
    BY DEF Insert
  <1>n. /\ db'[new].user = u /\ db'[new].client = c
        /\ db'[new] # NoRow
    <2>1. db'[new] = [state |-> "live", user |-> u, client |-> c, expired |-> FALSE]
      BY <1>r DEF TypeOK
    <2>2. db'[new] \in Row
      BY <2>1 DEF Row
    <2>3. db'[new] # NoRow
      BY <2>2, NoRowAssumption
    <2>4. db'[new].user = u /\ db'[new].client = c
      BY <2>1
    <2>5. QED
      BY <2>3, <2>4
  <1>o. \A t \in Tokens : t # new => db'[t] = db[t] /\ family'[t] = family[t]
    BY <1>r DEF TypeOK
  <1>f. \A t \in Tokens : HeldBy(t, u, c) => t # new
    BY <1>r DEF HeldBy
  <1>1. ASSUME NEW t \in Tokens, t # new, db'[t] # NoRow
        PROVE  HeldBy(family[t], db[t].user, db[t].client)'
    <2>1. family[t] \in Tokens /\ HeldBy(family[t], db[t].user, db[t].client)
      BY <1>1, <1>o DEF OwnerInv, TypeOK
    <2>2. family[t] # new
      BY <2>1, <1>r DEF HeldBy
    <2>3. QED
      BY <1>1, <1>o, <2>1, <2>2 DEF HeldBy
  <1>2. HeldBy(family[new], db[new].user, db[new].client)'
    <2>1. CASE UNCHANGED family
      <3>1. family'[new] = new
        BY <1>r, <2>1 DEF OwnerInv
      <3>2. QED
        BY <1>n, <3>1 DEF HeldBy
    <2>2. ASSUME NEW old \in Tokens, HeldBy(old, u, c),
                 family' = [family EXCEPT ![new] = family[old]]
          PROVE  HeldBy(family[new], db[new].user, db[new].client)'
      <3>1. family'[new] = family[old] /\ family[old] \in Tokens
        BY <2>2 DEF TypeOK
      <3>2. HeldBy(family[old], db[old].user, db[old].client)
        BY <2>2 DEF HeldBy, OwnerInv
      <3>3. db[family[old]] # NoRow /\ db[family[old]].user = u
            /\ Fold[db[family[old]].client] = Fold[c]
        BY <2>2, <3>2 DEF HeldBy
      <3>4. db'[family[old]] = db[family[old]]
        BY <1>o, <1>r, <3>1, <3>3
      <3>5. QED
        BY <1>n, <3>1, <3>3, <3>4 DEF HeldBy
    <2>3. QED
      BY <2>1, <2>2
  <1>3. ASSUME NEW t \in Tokens, db'[t] = NoRow
        PROVE  family'[t] = t
    BY <1>3, <1>n, <1>o DEF OwnerInv
  <1>4. ASSUME NEW h \in Handlers, req'[h].step \in RotatingSteps
        PROVE  HeldBy(req[h].old, req[h].user, req[h].client)'
    <2>1. req'[h] = req[h] /\ req[h].old \in Tokens
          /\ HeldBy(req[h].old, req[h].user, req[h].client)
      BY <1>4, RequestShape DEF OwnerInv, TypeOK, Rotating
    <2>2. req[h].old # new
      BY <2>1, <1>r DEF HeldBy
    <2>3. QED
      BY <1>o, <2>1, <2>2 DEF HeldBy
  <1>5. QED
    BY <1>1, <1>2, <1>3, <1>4 DEF OwnerInv

\* Every action of a request keeps OwnerInv.
LEMMA HandlerOwner ==
    ASSUME TypeOK, TypeOK', OwnerInv, [Next]_vars, NEW h \in Handlers, Handler(h)
    PROVE  OwnerInv'
  <1>r. req[h] \in Request
    BY DEF TypeOK
  <1>i. Idle.step \notin RotatingSteps
    BY DEF Idle, RotatingSteps
  <1>o. ASSUME NEW r, Resume(h, r)
        PROVE  req'[h] = r /\ \A g \in Handlers : g # h => req'[g] = req[g]
    BY <1>o DEF Resume, TypeOK
  <1>1. ASSUME NEW n \in Tokens, Issue(h, n)
        PROVE  OwnerInv'
    <2>1. req[h].user \in Users /\ req[h].client \in ClientIDs
      BY <1>1, <1>r, RequestShape DEF Issue, Issuing
    <2>2. \A g \in Handlers : req'[g].step \in RotatingSteps => req'[g] = req[g]
      BY <1>1, <1>i, <1>o DEF Issue
    <2>3. QED
      BY <1>1, <2>1, <2>2, OwnerInsert DEF Issue
  <1>2. ASSUME NEW n \in Tokens, AuthCreate(h, n) \/ OAuthCreate(h, n)
        PROVE  OwnerInv'
    <2>1. req[h].step \in RotatingSteps
      BY <1>2 DEF AuthCreate, OAuthCreate, RotatingSteps
    <2>2. /\ req[h].user \in Users /\ req[h].client \in ClientIDs /\ req[h].old \in Tokens
          /\ HeldBy(req[h].old, req[h].user, req[h].client)
      BY <2>1, <1>r, RequestShape DEF Rotating, OwnerInv
    <2>3. \A g \in Handlers : req'[g].step \in RotatingSteps => req'[g] = req[g]
      BY <1>2, <1>i, <1>o DEF AuthCreate, OAuthCreate, RotatingSteps
    <2>4. /\ Insert(n, req[h].user, req[h].client)
          /\ family' = [family EXCEPT ![n] = family[req[h].old]]
      BY <1>2 DEF AuthCreate, OAuthCreate
    <2>5. QED
      BY <2>2, <2>3, <2>4, OwnerInsert
  <1>3. ASSUME NEW t \in Tokens, NEW c \in ClientIDs, AuthRead(h, t, c) \/ OAuthRead(h, t, c)
        PROVE  OwnerInv'
    <2>1. HeldBy(t, db[t].user, c)
      BY <1>3 DEF AuthRead, OAuthRead, HeldBy, Live
    <2>2. /\ req'[h].old = t /\ req'[h].user = db[t].user /\ req'[h].client = c
          /\ \A g \in Handlers : g # h => req'[g] = req[g]
      BY <1>3, <1>o DEF AuthRead, OAuthRead
    <2>3. UNCHANGED <<db, family>>
      BY <1>3 DEF AuthRead, OAuthRead
    <2>4. \A g \in Handlers : \/ req'[g] = req[g]
                              \/ req'[g].old \in Tokens
                                 /\ HeldBy(req'[g].old, req'[g].user, req'[g].client)
      BY <2>1, <2>2
    <2>5. QED
      BY <2>3, <2>4, OwnerSame
  <1>4. ASSUME AuthCheckUser(h) \/ OAuthRevoke(h)
        PROVE  OwnerInv'
    <2>1. req[h].step \in RotatingSteps /\ req[h] \in Rotating
      BY <1>4, <1>r, RequestShape DEF AuthCheckUser, OAuthRevoke, RotatingSteps
    <2>2. req[h].old \in Tokens /\ HeldBy(req[h].old, req[h].user, req[h].client)
      BY <2>1 DEF Rotating, OwnerInv
    <2>3. \A s : LET r == [req[h] EXCEPT !.step = s] IN
                 r.old = req[h].old /\ r.user = req[h].user /\ r.client = req[h].client
      BY <2>1 DEF Rotating
    <2>4. \/ req'[h] = Idle
          \/ \E s : req'[h] = [req[h] EXCEPT !.step = s]
      BY <1>4, <1>o DEF AuthCheckUser, OAuthRevoke
    <2>5. \A g \in Handlers : g # h => req'[g] = req[g]
      BY <1>4, <1>o DEF AuthCheckUser, OAuthRevoke
    <2>6. ASSUME req'[h].step \in RotatingSteps
          PROVE  req'[h].old \in Tokens /\ HeldBy(req'[h].old, req'[h].user, req'[h].client)
      <3>1. PICK s : req'[h] = [req[h] EXCEPT !.step = s]
        BY <1>i, <2>4, <2>6
      <3>2. /\ req'[h].old = req[h].old
            /\ req'[h].user = req[h].user
            /\ req'[h].client = req[h].client
        BY <2>3, <3>1
      <3>3. QED
        BY <2>2, <3>2
    <2>7. UNCHANGED family /\ \A t \in Tokens : db[t] = NoRow => db'[t] = NoRow
      BY <1>4 DEF AuthCheckUser, OAuthRevoke, RevokeRow, HasRow, TypeOK
    <2>8. \A g \in Handlers : req'[g].step \in RotatingSteps =>
             \/ req'[g] = req[g]
             \/ req'[g].old \in Tokens /\ HeldBy(req'[g].old, req'[g].user, req'[g].client)
      BY <2>5, <2>6
    <2>9. QED
      BY <2>7, <2>8, OwnerSame
  <1>5. ASSUME UNCHANGED family, \A t \in Tokens : db[t] = NoRow => db'[t] = NoRow,
               \/ UNCHANGED req
               \/ \E r : Resume(h, r) /\ r.step \notin RotatingSteps
        PROVE  OwnerInv'
    <2>1. \A g \in Handlers : req'[g].step \in RotatingSteps => req'[g] = req[g]
      BY <1>5, <1>o
    <2>2. QED
      BY <1>5, <2>1, OwnerSame
  <1>6. ASSUME AuthRevoke(h) \/ DisableSweep(h)
        PROVE  OwnerInv'
    BY <1>6, <1>5, <1>i
       DEF AuthRevoke, DisableSweep, RevokeRow, RevokeRows, HasRow, Live, TypeOK
  <1>7. ASSUME NEW u \in Users, NEW c \in ClientIDs, Register(h, u, c) \/ LoginCheck(h, u, c)
        PROVE  OwnerInv'
    BY <1>7, <1>5 DEF Register, LoginCheck, RotatingSteps
  <1>8. ASSUME NEW u \in Users, Disable(h, u)
        PROVE  OwnerInv'
    BY <1>8, <1>5 DEF Disable, RotatingSteps
  <1>9. ASSUME IssueFails(h) \/ AuthCreateFails(h) \/ OAuthCreateFails(h)
        PROVE  OwnerInv'
    BY <1>9, <1>5, <1>i DEF IssueFails, AuthCreateFails, OAuthCreateFails
  <1>10. ASSUME NEW t \in Tokens, OAuthRevocation(h, t) \/ \E c \in ClientIDs : Logout(h, t, c)
         PROVE  OwnerInv'
    BY <1>10, <1>5 DEF OAuthRevocation, Logout, RevokeRow, HasRow, TypeOK
  <1>11. ASSUME \/ RevokeAll(h)
                \/ \E c \in ClientIDs : RevokeByClient(h, c)
                \/ \E u \in Users : RevokeByUser(h, u)
                \/ \E u \in Users, c \in ClientIDs : RevokeByUserClient(h, u, c)
         PROVE  OwnerInv'
    <2>1. UNCHANGED <<req, family>> /\ \E S : RevokeRows(S)
      BY <1>11 DEF RevokeAll, RevokeByClient, RevokeByUser, RevokeByUserClient
    <2>2. \A t \in Tokens : db[t] = NoRow => db'[t] = NoRow
      BY <2>1 DEF RevokeRows, Live
    <2>3. QED
      BY <1>5, <2>1, <2>2
  <1>12. ASSUME NEW u \in Users,
                CreateUser(h, u) \/ Enable(h, u) \/ DeleteUser(h, u)
         PROVE  OwnerInv'
    BY <1>12, <1>5 DEF CreateUser, Enable, DeleteUser, OwnedBy
  <1>13. QED
    BY <1>1, <1>2, <1>3, <1>4, <1>6, <1>7, <1>8, <1>9, <1>10, <1>11, <1>12 DEF Handler

\* The invariant holds throughout.
LEMMA OwnerHolds == Spec => []OwnerInv
  <1>1. Init => OwnerInv
    BY DEF Init, OwnerInv, Idle, RotatingSteps
  <1>2. TypeOK /\ TypeOK' /\ OwnerInv /\ [Next]_vars => OwnerInv'
    <2> SUFFICES ASSUME TypeOK, TypeOK', OwnerInv, [Next]_vars
                 PROVE  OwnerInv'
      OBVIOUS
    <2>1. CASE UNCHANGED vars
      BY <2>1 DEF vars, OwnerInv, HeldBy
    <2>2. ASSUME NEW n \in Tokens, Expire(n)
          PROVE  OwnerInv'
      BY <2>2, OwnerSame DEF Expire, HasRow, TypeOK
    <2>3. QED
      BY <2>1, <2>2, HandlerOwner DEF Next
  <1>3. QED
    BY <1>1, <1>2, TypeCorrect, PTL DEF Spec

\* Rotations never hand a session to another user nor, but for the case of its
\* id, to another client, whatever requests overlap and statements fail.
THEOREM OwnerKeeps == Spec => []FamilyKeepsOwner
  <1>1. OwnerInv => FamilyKeepsOwner
    BY DEF OwnerInv, HeldBy, FamilyKeepsOwner
  <1>2. QED
    BY <1>1, OwnerHolds, PTL
-----------------------------------------------------------------------------
(***************************************************************************)
(* While requests do not overlap and statements do not fail, RefreshTokens *)
(* implements SessionChain - a rotation is one indivisible swap.  Proved   *)
(* for every set of users, clients and token values.                       *)
(***************************************************************************)

Sequential == /\ \A g, h \in Handlers : g = h
              /\ ~Faults

Spent == {t \in Tokens : db[t] # NoRow} \ Undelivered

AtMostOneUsable == \A f \in Tokens : \A s, t \in Usable(f) : s = t

\* What the request under way holds of the token it rotates: it is the
\* usable one of its session, and what the other statements have made of it.
HoldsUsable(h) == req[h].old \in Usable(family[req[h].old])

HeldOf(h) ==
    /\ req[h].step \in RotatingSteps \cup {"authRevoke"} => HoldsUsable(h)
    /\ req[h].step = "authRevoke" =>
          Live(req[h].new) /\ family[req[h].new] = family[req[h].old]
    /\ req[h].step = "oauthCreate" => ~Live(req[h].old)

HeldUsable == \A h \in Handlers : HeldOf(h)

ChainInv == AtMostOneUsable /\ HeldUsable

\* With one request, what is usable depends on that request alone.
UsableWith(h, f, t) ==
    /\ family[t] = f
    /\ ~(req[h].step = "authRevoke" /\ req[h].new = t)
    /\ Live(t) \/ (req[h].step = "oauthCreate" /\ req[h].old = t)

LEMMA UsableIs ==
    ASSUME Sequential, NEW h \in Handlers, NEW f, NEW t \in Tokens
    PROVE  /\ t \in Usable(f) <=> UsableWith(h, f, t)
           /\ t \in Usable(f)' <=> UsableWith(h, f, t)'
  BY DEF Sequential, Usable, UsableWith, Undelivered, BeingReplaced, Live

LEMMA SpentIs ==
    ASSUME Sequential, NEW h \in Handlers, NEW t \in Tokens
    PROVE  /\ t \in Spent <=> db[t] # NoRow /\ ~(req[h].step = "authRevoke" /\ req[h].new = t)
           /\ t \in Spent' <=> db'[t] # NoRow /\ ~(req'[h].step = "authRevoke" /\ req'[h].new = t)
  BY DEF Sequential, Spent, Undelivered

\* A step after which no more is usable ends sessions or changes nothing.
LEMMA Ends ==
    ASSUME AtMostOneUsable, Spent' = Spent,
           \A f \in Tokens : Usable(f)' \subseteq Usable(f)
    PROVE  Chain!Next /\ AtMostOneUsable'
  <1>1. AtMostOneUsable'
    BY DEF AtMostOneUsable
  <1> DEFINE S == {f \in Tokens : Usable(f)' = {}}
  <1>2. \A f \in Tokens : Usable(f)' = IF f \in S THEN {} ELSE Usable(f)
    BY DEF AtMostOneUsable
  <1>3. [f \in Tokens |-> Usable(f)]'
          = [f \in Tokens |-> IF f \in S THEN {} ELSE [g \in Tokens |-> Usable(g)][f]]
    BY <1>2
  <1>4. Chain!End(S)
    BY <1>3 DEF Chain!End, Spent
  <1>5. S \in SUBSET Tokens
    OBVIOUS
  <1>6. QED
    BY <1>1, <1>4, <1>5 DEF Chain!Next

\* One that makes a token usable that was not swaps or opens a session.
LEMMA Swaps ==
    ASSUME AtMostOneUsable, NEW f \in Tokens, NEW old \in Tokens, NEW new \in Tokens,
           Usable(f) = {old}, Usable(f)' = {new},
           \A g \in Tokens : g # f => Usable(g)' = Usable(g),
           new \notin Spent, Spent' = Spent \cup {new}
    PROVE  Chain!Next /\ AtMostOneUsable'
  <1>1. AtMostOneUsable'
    BY DEF AtMostOneUsable
  <1>2. [g \in Tokens |-> Usable(g)][f] = {old}
    OBVIOUS
  <1>3. [g \in Tokens |-> Usable(g)]' = [[g \in Tokens |-> Usable(g)] EXCEPT ![f] = {new}]
    OBVIOUS
  <1>4. Chain!Rotate(f, new)
    BY <1>2, <1>3 DEF Chain!Rotate, Spent
  <1>5. QED
    BY <1>1, <1>4 DEF Chain!Next

LEMMA Opens ==
    ASSUME AtMostOneUsable, NEW new \in Tokens, Usable(new)' = {new},
           \A g \in Tokens : g # new => Usable(g)' = Usable(g),
           new \notin Spent, Spent' = Spent \cup {new}
    PROVE  Chain!Next /\ AtMostOneUsable'
  <1>1. AtMostOneUsable'
    BY DEF AtMostOneUsable
  <1>2. [g \in Tokens |-> Usable(g)]' = [[g \in Tokens |-> Usable(g)] EXCEPT ![new] = {new}]
    OBVIOUS
  <1>3. Chain!Open(new)
    BY <1>2 DEF Chain!Open, Spent
  <1>4. QED
    BY <1>1, <1>3 DEF Chain!Next
-----------------------------------------------------------------------------
\* Between two statements of a request nothing else changes.
LEMMA Resumed ==
    ASSUME TypeOK, NEW h \in Handlers, NEW r, Resume(h, r)
    PROVE  req'[h] = r
  BY DEF Resume, TypeOK

\* A statement that inserts nothing, of a request that is not about to
\* retire a token, ends sessions at most.
LEMMA Rest ==
    ASSUME TypeOK, TypeOK', Sequential, ChainInv, NEW h \in Handlers, UNCHANGED family,
           \A t \in Tokens : (Live(t)' => Live(t)) /\ (db'[t] = NoRow <=> db[t] = NoRow),
           req[h].step # "authRevoke",
           req'[h].step \notin {"authRevoke", "oauthCreate"},
           req'[h].step \in RotatingSteps => req'[h].old \in Tokens /\ Live(req[h].old)'
    PROVE  Chain!Next /\ ChainInv'
  <1>1. \A f \in Tokens : Usable(f)' \subseteq Usable(f)
    <2> SUFFICES ASSUME NEW f \in Tokens, NEW t \in Usable(f)'
                 PROVE  t \in Usable(f)
      OBVIOUS
    <2>1. t \in Tokens
      BY DEF Usable
    <2>2. QED
      BY <2>1, UsableIs DEF UsableWith
  <1>2. Spent' = Spent
    <2>1. \A t \in Tokens : t \in Spent' <=> t \in Spent
      BY SpentIs
    <2>2. Spent' \subseteq Tokens /\ Spent \subseteq Tokens
      BY DEF Spent
    <2>3. QED
      BY <2>1, <2>2
  <1>3. HeldUsable'
    <2>1. ASSUME req'[h].step \in RotatingSteps
          PROVE  HoldsUsable(h)'
      <3>1. PICK t \in Tokens : t = req'[h].old /\ Live(t)'
        BY <2>1 DEF Live
      <3>2. UsableWith(h, family[t], t)'
        BY <3>1 DEF UsableWith
      <3>3. t \in Usable(family[t])'
        BY <3>2, UsableIs
      <3>4. QED
        BY <3>1, <3>3 DEF HoldsUsable
    <2>2. HeldOf(h)'
      BY <2>1 DEF HeldOf
    <2>3. QED
      BY <2>2 DEF HeldUsable, Sequential
  <1>4. QED
    BY <1>1, <1>2, <1>3, Ends DEF ChainInv

\* Revoking and deleting brings no token to life and no row into being.
LEMMA Weakens ==
    ASSUME TypeOK, [Next]_vars,
           \/ UNCHANGED db
           \/ \E t \in Tokens : RevokeRow(t)
           \/ \E S : RevokeRows(S)
           \/ \E h \in Handlers, u \in Users : DeleteUser(h, u)
    PROVE  \A t \in Tokens : (Live(t)' => Live(t)) /\ (db'[t] = NoRow <=> db[t] = NoRow)
  <1> SUFFICES ASSUME NEW t \in Tokens
               PROVE  (Live(t)' => Live(t)) /\ (db'[t] = NoRow <=> db[t] = NoRow)
    OBVIOUS
  <1>k. db[t] # NoRow => db'[t] # NoRow
    BY OwnerKept
  <1>r. db[t] # NoRow => db[t] \in Row
    BY DEF TypeOK
  <1>s. ASSUME NEW s \in {"revoked", "deleted"}, db[t] # NoRow
        PROVE  [db[t] EXCEPT !.state = s].state # "live"
    BY <1>r, <1>s DEF Row
  <1>1. CASE UNCHANGED db
    BY <1>1 DEF Live
  <1>2. ASSUME NEW n \in Tokens, RevokeRow(n)
        PROVE  db'[t] = db[t] \/ (db[t] # NoRow /\ db'[t] = [db[t] EXCEPT !.state = "revoked"])
    BY <1>2 DEF RevokeRow, HasRow, TypeOK
  <1>3. ASSUME NEW S, RevokeRows(S)
        PROVE  db'[t] = db[t] \/ (db[t] # NoRow /\ db'[t] = [db[t] EXCEPT !.state = "revoked"])
    BY <1>3 DEF RevokeRows, Live
  <1>4. ASSUME NEW h \in Handlers, NEW u \in Users, DeleteUser(h, u)
        PROVE  db'[t] = db[t] \/ (db[t] # NoRow /\ db'[t] = [db[t] EXCEPT !.state = "deleted"])
    BY <1>4 DEF DeleteUser, OwnedBy
  <1>5. QED
    BY <1>1, <1>2, <1>3, <1>4, <1>k, <1>s DEF Live

\* The actions that a goroutine at rest takes at once, and those that only
\* begin or give up a request.
LEMMA QuietChain ==
    ASSUME TypeOK, TypeOK', [Next]_vars, Sequential, ChainInv, OwnerInv,
           NEW h \in Handlers, Handler(h),
           ~\E n \in Tokens : Issue(h, n) \/ AuthCreate(h, n) \/ OAuthCreate(h, n),
           ~OAuthRevoke(h), ~AuthRevoke(h)
    PROVE  Chain!Next /\ ChainInv'
  <1>i. Idle.step = "idle" /\ "idle" \notin RotatingSteps
    BY DEF Idle, RotatingSteps
  <1>r. \A r : Resume(h, r) => req'[h] = r
    BY Resumed
  <1>1. UNCHANGED family
    BY DEF Handler, CreateUser, Register, LoginCheck, IssueFails,
           AuthRead, AuthCheckUser, AuthCreateFails,
           OAuthRead, OAuthCreateFails, Logout,
           OAuthRevocation, RevokeByUser, RevokeByUserClient, RevokeByClient,
           RevokeAll, Disable, DisableSweep, Enable, DeleteUser
  <1>2. \/ UNCHANGED db
        \/ \E t \in Tokens : RevokeRow(t)
        \/ \E S : RevokeRows(S)
        \/ \E g \in Handlers, u \in Users : DeleteUser(g, u)
    BY DEF Handler, CreateUser, Register, LoginCheck, IssueFails,
           AuthRead, AuthCheckUser, AuthCreateFails,
           OAuthRead, OAuthCreateFails, Logout,
           OAuthRevocation, RevokeByUser, RevokeByUserClient, RevokeByClient,
           RevokeAll, Disable, DisableSweep, Enable
  <1>3. \/ /\ req[h].step # "authRevoke"
           /\ req'[h].step \notin RotatingSteps \cup {"authRevoke"}
        \/ \E t \in Tokens, c \in ClientIDs : AuthRead(h, t, c) \/ OAuthRead(h, t, c)
        \/ AuthCheckUser(h)
    <2> DEFINE Begins == req[h].step = "idle" /\ req'[h].step \in {"idle", "issue", "disableSweep"}
    <2>1. \A u \in Users : CreateUser(h, u) \/ RevokeByUser(h, u) \/ Disable(h, u)
                           \/ Enable(h, u) \/ DeleteUser(h, u) => Begins
      BY <1>i, <1>r DEF CreateUser, RevokeByUser, Disable, Enable, DeleteUser
    <2>2. \A u \in Users, c \in ClientIDs :
             Register(h, u, c) \/ LoginCheck(h, u, c) \/ RevokeByUserClient(h, u, c) => Begins
      BY <1>i, <1>r DEF Register, LoginCheck, RevokeByUserClient
    <2>3. /\ \A t \in Tokens, c \in ClientIDs : Logout(h, t, c) => Begins
          /\ \A t \in Tokens : OAuthRevocation(h, t) => Begins
          /\ \A c \in ClientIDs : RevokeByClient(h, c) => Begins
          /\ RevokeAll(h) => Begins
      BY <1>i DEF Logout, OAuthRevocation, RevokeByClient, RevokeAll
    <2>4. IssueFails(h) \/ AuthCreateFails(h) \/ OAuthCreateFails(h) \/ DisableSweep(h)
             => req[h].step # "authRevoke" /\ req'[h].step = "idle"
      BY <1>i, <1>r DEF IssueFails, AuthCreateFails, OAuthCreateFails, DisableSweep
    <2>5. Begins => /\ req[h].step # "authRevoke"
                    /\ req'[h].step \notin RotatingSteps \cup {"authRevoke"}
      BY DEF RotatingSteps
    <2> HIDE DEF Begins
    <2>6. QED
      BY <1>i, <2>1, <2>2, <2>3, <2>4, <2>5 DEF Handler
  <1>4. ASSUME NEW t \in Tokens, NEW c \in ClientIDs, AuthRead(h, t, c) \/ OAuthRead(h, t, c)
        PROVE  /\ req[h].step # "authRevoke"
               /\ req'[h].step \notin {"authRevoke", "oauthCreate"}
               /\ req'[h].old \in Tokens /\ Live(req[h].old)'
    BY <1>4, <1>i, <1>r DEF AuthRead, OAuthRead, Live
  <1>5. ASSUME AuthCheckUser(h)
        PROVE  /\ req[h].step # "authRevoke"
               /\ req'[h].step \notin {"authRevoke", "oauthCreate"}
               /\ req'[h].step \in RotatingSteps =>
                     req'[h].old \in Tokens /\ Live(req[h].old)'
    <2>1. req[h].step = "authUser" /\ req[h].step \in RotatingSteps
      BY <1>5 DEF AuthCheckUser, RotatingSteps
    <2>2. req[h] \in Rotating
      BY <2>1, RequestShape DEF TypeOK
    <2>3. req[h].old \in Tokens /\ HoldsUsable(h)
      BY <2>1, <2>2 DEF Rotating, ChainInv, HeldUsable, HeldOf
    <2>4. Live(req[h].old)
      BY <2>1, <2>3, UsableIs DEF HoldsUsable, UsableWith
    <2>5. /\ [req[h] EXCEPT !.step = "authCreate"].old = req[h].old
          /\ [req[h] EXCEPT !.step = "authCreate"].step = "authCreate"
      BY <2>2 DEF Rotating
    <2>6. \/ req'[h] = Idle
          \/ req'[h] = [req[h] EXCEPT !.step = "authCreate"]
      BY <1>5, <1>r DEF AuthCheckUser
    <2>7. UNCHANGED db
      BY <1>5 DEF AuthCheckUser
    <2>8. QED
      BY <1>i, <2>1, <2>3, <2>4, <2>5, <2>6, <2>7 DEF Live
  <1>6. /\ req[h].step # "authRevoke"
        /\ req'[h].step \notin {"authRevoke", "oauthCreate"}
        /\ req'[h].step \in RotatingSteps => req'[h].old \in Tokens /\ Live(req[h].old)'
    BY <1>3, <1>4, <1>5 DEF RotatingSteps
  <1>7. QED
    BY <1>1, <1>2, <1>6, Weakens, Rest

\* A session's usable tokens, from what is true of each token.
LEMMA SameSets ==
    ASSUME Sequential, NEW h \in Handlers, NEW f
    PROVE  /\ (\A t \in Tokens : UsableWith(h, f, t)' <=> UsableWith(h, f, t))
                 => Usable(f)' = Usable(f)
           /\ \A new \in Tokens :
                 (\A t \in Tokens : UsableWith(h, f, t)' <=> t = new) => Usable(f)' = {new}
           /\ \A old \in Tokens :
                 (\A t \in Tokens : UsableWith(h, f, t) <=> t = old) => Usable(f) = {old}
  <1>1. Usable(f) \subseteq Tokens /\ Usable(f)' \subseteq Tokens
    BY DEF Usable
  <1>2. \A t \in Tokens : /\ t \in Usable(f) <=> UsableWith(h, f, t)
                          /\ t \in Usable(f)' <=> UsableWith(h, f, t)'
    BY UsableIs
  <1>3. QED
    BY <1>1, <1>2

\* What an INSERT does: one row more, and it is live.
LEMMA Inserted ==
    ASSUME TypeOK, NEW new \in Tokens, NEW u \in Users, NEW c \in ClientIDs,
           Insert(new, u, c)
    PROVE  /\ db[new] = NoRow /\ ~Live(new)
           /\ db'[new] # NoRow /\ Live(new)'
           /\ \A t \in Tokens : t # new => db'[t] = db[t] /\ (Live(t)' <=> Live(t))
  <1>1. db'[new] = [state |-> "live", user |-> u, client |-> c, expired |-> FALSE]
    BY DEF Insert, TypeOK
  <1>2. db'[new] \in Row /\ db'[new].state = "live"
    BY <1>1 DEF Row
  <1>3. db'[new] # NoRow
    BY <1>2, NoRowAssumption
  <1>4. db[new] = NoRow /\ \A t \in Tokens : t # new => db'[t] = db[t]
    BY DEF Insert, TypeOK
  <1>5. QED
    BY <1>2, <1>3, <1>4 DEF Live

\* A goroutine at rest holds nothing.
LEMMA HeldAtRest ==
    ASSUME Sequential, NEW h \in Handlers, req'[h] = Idle
    PROVE  HeldUsable'
  BY DEF HeldUsable, HeldOf, Sequential, Idle, RotatingSteps

\* Sets of tokens that have the same members are equal: what is spent.
LEMMA SpentMore ==
    ASSUME Sequential, NEW h \in Handlers
    PROVE  /\ (\A t \in Tokens : t \in Spent' <=> t \in Spent) => Spent' = Spent
           /\ \A new \in Tokens :
                 (\A t \in Tokens : t \in Spent' <=> t \in Spent \/ t = new)
                    => Spent' = Spent \cup {new}
  <1>1. Spent \subseteq Tokens /\ Spent' \subseteq Tokens
    BY DEF Spent
  <1>2. QED
    BY <1>1

\* A login's INSERT opens a session: nothing descends from a token without
\* a row.
LEMMA IssueChain ==
    ASSUME TypeOK, TypeOK', Sequential, ChainInv, OwnerInv,
           NEW h \in Handlers, NEW new \in Tokens, Issue(h, new)
    PROVE  Chain!Next /\ ChainInv'
  <1>1. /\ req[h].step = "issue" /\ req'[h] = Idle /\ req'[h].step = "idle"
        /\ UNCHANGED family
    BY Resumed DEF Issue, Idle
  <1>2. req[h].user \in Users /\ req[h].client \in ClientIDs
    BY <1>1, RequestShape DEF TypeOK, Issuing
  <1>3. Insert(new, req[h].user, req[h].client)
    BY DEF Issue
  <1>4. family[new] = new /\ \A t \in Tokens : t # new => family[t] # new
    <2>1. db[new] = NoRow
      BY <1>3 DEF Insert
    <2>2. QED
      BY <2>1 DEF OwnerInv, HeldBy
  <1>5. Usable(new)' = {new}
    <2>1. \A t \in Tokens : UsableWith(h, new, t)' <=> t = new
      BY <1>1, <1>2, <1>3, <1>4, Inserted DEF UsableWith
    <2>2. QED
      BY <2>1, SameSets
  <1>6. ASSUME NEW g \in Tokens, g # new
        PROVE  Usable(g)' = Usable(g)
    <2>1. \A t \in Tokens : UsableWith(h, g, t)' <=> UsableWith(h, g, t)
      BY <1>1, <1>2, <1>3, <1>4, <1>6, Inserted DEF UsableWith
    <2>2. QED
      BY <2>1, SameSets
  <1>7. new \notin Spent /\ \A t \in Tokens : t \in Spent' <=> t \in Spent \/ t = new
    BY <1>1, <1>2, <1>3, Inserted, SpentIs
  <1>8. QED
    BY <1>1, <1>5, <1>6, <1>7, SpentMore, Opens, HeldAtRest DEF ChainInv

\* What a request holds while it rotates.
LEMMA Holding ==
    ASSUME TypeOK, Sequential, ChainInv, OwnerInv, NEW h \in Handlers,
           req[h].step \in RotatingSteps
    PROVE  /\ req[h].old \in Tokens /\ req[h].user \in Users /\ req[h].client \in ClientIDs
           /\ db[req[h].old] # NoRow
           /\ UsableWith(h, family[req[h].old], req[h].old)
  <1>1. req[h] \in Rotating
    BY RequestShape DEF TypeOK
  <1>2. req[h].old \in Tokens /\ req[h].user \in Users /\ req[h].client \in ClientIDs
    BY <1>1 DEF Rotating
  <1>3. HoldsUsable(h)
    BY DEF ChainInv, HeldUsable, HeldOf
  <1>4. QED
    BY <1>2, <1>3, UsableIs DEF HoldsUsable, OwnerInv, HeldBy

\* The INSERT of /v2/auth/refresh comes before the old token is retired and
\* before the answer: the client sees nothing of it yet.
LEMMA AuthCreateChain ==
    ASSUME TypeOK, TypeOK', Sequential, ChainInv, OwnerInv,
           NEW h \in Handlers, NEW new \in Tokens, AuthCreate(h, new)
    PROVE  Chain!Next /\ ChainInv'
  <1>1. req[h].step = "authCreate" /\ req[h].step \in RotatingSteps
    BY DEF AuthCreate, RotatingSteps
  <1>2. PICK old \in Tokens, u \in Users, c \in ClientIDs :
           /\ old = req[h].old /\ u = req[h].user /\ c = req[h].client
           /\ db[old] # NoRow /\ UsableWith(h, family[old], old)
    BY <1>1, Holding
  <1>3. /\ Insert(new, u, c)
        /\ family' = [family EXCEPT ![new] = family[old]]
    BY <1>2 DEF AuthCreate
  <1>4. req'[h].step = "authRevoke" /\ req'[h].old = old /\ req'[h].new = new
    BY <1>2, Resumed DEF AuthCreate
  <1>5. /\ family'[new] = family[old]
        /\ \A t \in Tokens : t # new => family'[t] = family[t]
    BY <1>3 DEF TypeOK
  <1>6. old # new
    BY <1>2, <1>3, Inserted
  <1>7. \A f \in Tokens : Usable(f)' = Usable(f)
    <2> SUFFICES ASSUME NEW f \in Tokens, NEW t \in Tokens
                 PROVE  UsableWith(h, f, t)' <=> UsableWith(h, f, t)
      BY SameSets
    <2>1. QED
      BY <1>1, <1>3, <1>4, <1>5, Inserted DEF UsableWith
  <1>8. Spent' = Spent
    <2>1. \A t \in Tokens : t \in Spent' <=> t \in Spent
      BY <1>1, <1>3, <1>4, Inserted, SpentIs
    <2>2. QED
      BY <2>1, SpentMore
  <1>9. HeldUsable'
    <2>1. UsableWith(h, family[old], old)'
      BY <1>1, <1>2, <1>3, <1>4, <1>5, <1>6, Inserted DEF UsableWith
    <2>2. HoldsUsable(h)'
      BY <1>4, <2>1, UsableIs DEF HoldsUsable
    <2>3. Live(req[h].new)' /\ family'[new] = family'[old]
      BY <1>3, <1>4, <1>5, <1>6, Inserted DEF Live
    <2>4. QED
      BY <1>4, <2>2, <2>3 DEF HeldUsable, HeldOf, Sequential
  <1>10. QED
    BY <1>7, <1>8, <1>9, Ends DEF ChainInv

\* What revoking a live token does.
LEMMA Revoked ==
    ASSUME TypeOK, NEW old \in Tokens, Live(old), RevokeRow(old)
    PROVE  /\ ~Live(old)' /\ db'[old] # NoRow
           /\ \A t \in Tokens : t # old => db'[t] = db[t] /\ (Live(t)' <=> Live(t))
  <1>1. db[old] \in Row /\ HasRow(old)
    BY DEF Live, HasRow, TypeOK
  <1>2. db'[old] = [db[old] EXCEPT !.state = "revoked"]
    BY <1>1 DEF RevokeRow, TypeOK
  <1>3. db'[old] \in Row /\ db'[old].state = "revoked"
    BY <1>1, <1>2 DEF Row
  <1>4. \A t \in Tokens : t # old => db'[t] = db[t]
    BY DEF RevokeRow, TypeOK
  <1>5. QED
    BY <1>3, <1>4, NoRowAssumption DEF Live

\* The only usable token of a session is the one its request holds.
LEMMA OnlyUsable ==
    ASSUME AtMostOneUsable, Sequential, NEW h \in Handlers,
           NEW f \in Tokens, NEW old \in Tokens, UsableWith(h, f, old)
    PROVE  Usable(f) = {old} /\ \A t \in Tokens : UsableWith(h, f, t) => t = old
  <1>1. old \in Usable(f)
    BY UsableIs
  <1>2. QED
    BY <1>1, UsableIs, SameSets DEF AtMostOneUsable

\* Without faults the old token is retired once its successor is stored:
\* the swap.
LEMMA AuthRevokeChain ==
    ASSUME TypeOK, TypeOK', Sequential, ChainInv, OwnerInv,
           NEW h \in Handlers, AuthRevoke(h)
    PROVE  Chain!Next /\ ChainInv'
  <1>1. /\ req[h].step = "authRevoke" /\ req'[h] = Idle /\ req'[h].step = "idle"
        /\ UNCHANGED family
    BY Resumed DEF AuthRevoke, Idle
  <1>2. req[h].old \in Tokens /\ req[h].new \in Tokens
    BY <1>1, RequestShape DEF TypeOK, Retiring
  <1>3. PICK old \in Tokens, new \in Tokens, f \in Tokens :
           old = req[h].old /\ new = req[h].new /\ f = family[old]
    BY <1>2 DEF TypeOK
  <1>4. /\ UsableWith(h, f, old) /\ Live(new) /\ family[new] = f
    BY <1>1, <1>3, UsableIs DEF ChainInv, HeldUsable, HeldOf, HoldsUsable
  <1>5. Live(old) /\ old # new
    BY <1>1, <1>3, <1>4 DEF UsableWith
  <1>6. RevokeRow(old)
    BY <1>3 DEF AuthRevoke, Sequential, Outcomes
  <1>7. Usable(f) = {old} /\ \A t \in Tokens : UsableWith(h, f, t) => t = old
    BY <1>4, OnlyUsable DEF ChainInv
  <1>8. Usable(f)' = {new}
    <2>1. \A t \in Tokens : UsableWith(h, f, t)' <=> t = new
      BY <1>1, <1>3, <1>4, <1>5, <1>6, <1>7, Revoked DEF UsableWith
    <2>2. QED
      BY <2>1, SameSets
  <1>9. ASSUME NEW g \in Tokens, g # f
        PROVE  Usable(g)' = Usable(g)
    <2>1. \A t \in Tokens : UsableWith(h, g, t)' <=> UsableWith(h, g, t)
      BY <1>1, <1>3, <1>4, <1>5, <1>6, <1>9, Revoked DEF UsableWith
    <2>2. QED
      BY <2>1, SameSets
  <1>10. new \notin Spent /\ \A t \in Tokens : t \in Spent' <=> t \in Spent \/ t = new
    BY <1>1, <1>3, <1>4, <1>5, <1>6, Revoked, SpentIs DEF Live
  <1>11. QED
    BY <1>1, <1>7, <1>8, <1>9, <1>10, SpentMore, Swaps, HeldAtRest DEF ChainInv

\* The OAuth grant revokes first.  Its client still counts on the token
\* until the successor is there.
LEMMA OAuthRevokeChain ==
    ASSUME TypeOK, TypeOK', Sequential, ChainInv, OwnerInv,
           NEW h \in Handlers, OAuthRevoke(h)
    PROVE  Chain!Next /\ ChainInv'
  <1>1. req[h].step = "oauthRevoke" /\ req[h].step \in RotatingSteps
    BY DEF OAuthRevoke, RotatingSteps
  <1>2. PICK old \in Tokens : old = req[h].old /\ UsableWith(h, family[old], old)
    BY <1>1, Holding
  <1>3. Live(old) /\ RevokeRow(old) /\ UNCHANGED family
    BY <1>1, <1>2 DEF UsableWith, OAuthRevoke, Sequential, Outcomes
  <1>4. req'[h].step = "oauthCreate" /\ req'[h].old = old
    <2>1. req[h] \in Rotating
      BY <1>1, RequestShape DEF TypeOK
    <2>2. req'[h] = [req[h] EXCEPT !.step = "oauthCreate"]
      BY Resumed DEF OAuthRevoke
    <2>3. QED
      BY <1>2, <2>1, <2>2 DEF Rotating
  <1>5. \A f \in Tokens : Usable(f)' = Usable(f)
    <2> SUFFICES ASSUME NEW f \in Tokens, NEW t \in Tokens
                 PROVE  UsableWith(h, f, t)' <=> UsableWith(h, f, t)
      BY SameSets
    <2>1. QED
      BY <1>1, <1>3, <1>4, Revoked DEF UsableWith
  <1>6. Spent' = Spent
    <2>1. \A t \in Tokens : t \in Spent' <=> t \in Spent
      BY <1>1, <1>3, <1>4, Revoked, SpentIs DEF Live
    <2>2. QED
      BY <2>1, SpentMore
  <1>7. HeldUsable'
    <2>1. UsableWith(h, family[old], old)'
      BY <1>4 DEF UsableWith
    <2>2. HoldsUsable(h)'
      BY <1>4, <2>1, UsableIs DEF HoldsUsable
    <2>3. ~Live(req[h].old)'
      BY <1>3, <1>4, Revoked DEF Live
    <2>4. QED
      BY <1>4, <2>2, <2>3 DEF HeldUsable, HeldOf, Sequential
  <1>8. QED
    BY <1>5, <1>6, <1>7, Ends DEF ChainInv

\* Then its INSERT is the swap.
LEMMA OAuthCreateChain ==
    ASSUME TypeOK, TypeOK', Sequential, ChainInv, OwnerInv,
           NEW h \in Handlers, NEW new \in Tokens, OAuthCreate(h, new)
    PROVE  Chain!Next /\ ChainInv'
  <1>1. /\ req[h].step = "oauthCreate" /\ req[h].step \in RotatingSteps
        /\ req'[h] = Idle /\ req'[h].step = "idle"
    BY Resumed DEF OAuthCreate, RotatingSteps, Idle
  <1>2. PICK old \in Tokens, u \in Users, c \in ClientIDs, f \in Tokens :
           /\ old = req[h].old /\ u = req[h].user /\ c = req[h].client
           /\ f = family[old] /\ db[old] # NoRow /\ UsableWith(h, f, old)
    BY <1>1, Holding DEF TypeOK
  <1>3. ~Live(old)
    BY <1>1, <1>2 DEF ChainInv, HeldUsable, HeldOf
  <1>4. Insert(new, u, c) /\ family' = [family EXCEPT ![new] = f]
    BY <1>2 DEF OAuthCreate
  <1>5. /\ family'[new] = f /\ family[new] = new
        /\ \A t \in Tokens : t # new => family'[t] = family[t]
    BY <1>4, Inserted DEF TypeOK, OwnerInv
  <1>6. old # new
    BY <1>2, <1>4, Inserted
  <1>7. Usable(f) = {old} /\ \A t \in Tokens : UsableWith(h, f, t) => t = old
    BY <1>2, OnlyUsable DEF ChainInv
  <1>8. Usable(f)' = {new}
    <2>1. \A t \in Tokens : UsableWith(h, f, t)' <=> t = new
      BY <1>1, <1>3, <1>4, <1>5, <1>6, <1>7, Inserted DEF UsableWith
    <2>2. QED
      BY <2>1, SameSets
  <1>9. ASSUME NEW g \in Tokens, g # f
        PROVE  Usable(g)' = Usable(g)
    <2>1. ~UsableWith(h, g, new) /\ ~UsableWith(h, g, old)
      BY <1>1, <1>2, <1>4, <1>6, <1>9, Inserted DEF UsableWith
    <2>2. \A t \in Tokens : UsableWith(h, g, t)' <=> UsableWith(h, g, t)
      BY <1>1, <1>2, <1>4, <1>5, <1>9, <2>1, Inserted DEF UsableWith
    <2>3. QED
      BY <2>2, SameSets
  <1>10. new \notin Spent /\ \A t \in Tokens : t \in Spent' <=> t \in Spent \/ t = new
    BY <1>1, <1>4, Inserted, SpentIs
  <1>11. QED
    BY <1>1, <1>7, <1>8, <1>9, <1>10, SpentMore, Swaps, HeldAtRest DEF ChainInv

\* The clock takes nothing from a session that its client could see here: an
\* expired token is refused when it is presented.
LEMMA ExpireChain ==
    ASSUME TypeOK, AtMostOneUsable, HeldUsable, NEW n \in Tokens, Expire(n)
    PROVE  Chain!Next /\ ChainInv'
  <1>1. /\ db[n] \in Row /\ db' = [db EXCEPT ![n].expired = TRUE]
        /\ UNCHANGED <<req, family>>
    BY DEF Expire, HasRow, TypeOK
  <1>2. db'[n] \in Row /\ db'[n].state = db[n].state
    BY <1>1 DEF TypeOK, Row
  <1>3. \A t \in Tokens : (Live(t)' <=> Live(t)) /\ (db'[t] = NoRow <=> db[t] = NoRow)
    BY <1>1, <1>2, NoRowAssumption DEF Live, TypeOK
  <1>4. Undelivered' = Undelivered /\ BeingReplaced' = BeingReplaced
    BY <1>1 DEF Undelivered, BeingReplaced
  <1>5. \A f : Usable(f)' = Usable(f)
    BY <1>1, <1>3, <1>4 DEF Usable
  <1>6. Spent' = Spent
    BY <1>3, <1>4 DEF Spent
  <1>7. HeldUsable'
    <2> SUFFICES ASSUME NEW h \in Handlers
                 PROVE  HeldOf(h)'
      BY DEF HeldUsable
    <2>1. HoldsUsable(h) => HoldsUsable(h)'
      BY <1>1, <1>5 DEF HoldsUsable
    <2>2. ASSUME req[h].step = "authRevoke"
          PROVE  req[h].old \in Tokens /\ req[h].new \in Tokens
      BY <2>2, RequestShape DEF TypeOK, Retiring
    <2>3. ASSUME req[h].step = "oauthCreate"
          PROVE  req[h].old \in Tokens
      BY <2>3, RequestShape DEF TypeOK, Rotating, RotatingSteps
    <2>4. QED
      BY <1>1, <1>3, <2>1, <2>2, <2>3 DEF HeldUsable, HeldOf, Live
  <1>8. QED
    BY <1>5, <1>6, <1>7, Ends DEF ChainInv

\* Every step of RefreshTokens is a step of SessionChain.
LEMMA ChainStep ==
    ASSUME Sequential, TypeOK, TypeOK', OwnerInv, ChainInv, [Next]_vars
    PROVE  [Chain!Next]_Chain!vars /\ ChainInv'
  <1>1. CASE UNCHANGED vars
    <2>1. UNCHANGED <<db, req, family>>
      BY <1>1 DEF vars
    <2>2. UNCHANGED Chain!vars
      BY <2>1 DEF Chain!vars, Usable, Undelivered, BeingReplaced, Live
    <2>3. ChainInv'
      BY <2>1 DEF ChainInv, AtMostOneUsable, HeldUsable, HeldOf, HoldsUsable,
                  Usable, Undelivered, BeingReplaced, Live
    <2>4. QED
      BY <2>2, <2>3
  <1>2. ASSUME NEW h \in Handlers, Handler(h)
        PROVE  Chain!Next /\ ChainInv'
    BY <1>2, QuietChain, IssueChain, AuthCreateChain, AuthRevokeChain,
       OAuthRevokeChain, OAuthCreateChain
  <1>3. ASSUME NEW n \in Tokens, Expire(n)
        PROVE  Chain!Next /\ ChainInv'
    BY <1>3, ExpireChain DEF ChainInv
  <1>4. QED
    BY <1>1, <1>2, <1>3 DEF Next

\* The empty table is the empty chain.
LEMMA ChainStart == Init => Chain!Init /\ ChainInv
  <1> SUFFICES ASSUME Init
               PROVE  Chain!Init /\ ChainInv
    OBVIOUS
  <1>1. \A f : Usable(f) = {}
    BY DEF Init, Usable, Live, BeingReplaced, Idle
  <1>2. Chain!Init
    BY <1>1 DEF Init, Chain!Init
  <1>3. ChainInv
    BY <1>1 DEF Init, ChainInv, AtMostOneUsable, HeldUsable, HeldOf, Idle, RotatingSteps
  <1>4. QED
    BY <1>2, <1>3

\* A behaviour of RefreshTokens without overlap and faults is, seen through
\* what is usable and what is spent, a behaviour of SessionChain: whichever
\* of create and revoke an endpoint runs first, its rotation is one swap.
THEOREM Refines ==
    ASSUME Sequential
    PROVE  Spec => RotationIsAtomic
  <1>1. Init => Chain!Init /\ ChainInv
    BY ChainStart
  <1>2. TypeOK /\ TypeOK' /\ OwnerInv /\ ChainInv /\ [Next]_vars
           => [Chain!Next]_Chain!vars /\ ChainInv'
    BY ChainStep
  <1>3. QED
    BY <1>1, <1>2, TypeCorrect, OwnerHolds, PTL DEF Spec, RotationIsAtomic, Chain!Spec

-----------------------------------------------------------------------------
(* Tokens for active users only                                             *)

\* Statements may fail where every refresh loads the user: a failed sweep
\* leaves tokens that only the OAuth refresh would take.
UserChecked == /\ \A g, h \in Handlers : g = h
               /\ Faults => "oauth" \notin Endpoints

BeingSwept(u) == \E h \in Handlers : req[h].step = "disableSweep" /\ req[h].user = u

\* A live token is an active user's, or one the sweep is about to revoke, when
\* no sweep fails; a request that may insert is an active user's.
Backed ==
    /\ ~Faults => \A t \in Tokens : Live(t) => status[db[t].user] = "active" \/ BeingSwept(db[t].user)
    /\ \A u \in Users : InFlight(u) => status[u] = "active"

\* A user stops being active, and the sweep ends, only when no live token of
\* the user is left.
LEMMA BackedUser ==
    ASSUME UserChecked, ~Faults, TypeOK, NEW h \in Handlers, Handler(h), NEW u \in Users,
           status[u] = "active" \/ BeingSwept(u)
    PROVE  \/ status'[u] = "active" \/ BeingSwept(u)'
           \/ \A t \in Tokens : db[t] # NoRow /\ db[t].user = u => ~Live(t)'
  <1> DEFINE Gone == \A t \in Tokens : db[t] # NoRow /\ db[t].user = u => ~Live(t)'
             Stays == status'[u] = "active" \/ BeingSwept(u)'
  <1>r. \A r : Resume(h, r) => req'[h] = r
    BY Resumed
  <1>s. ASSUME NEW t \in Tokens, db[t] # NoRow, NEW s \in {"revoked", "deleted"}
        PROVE  [db[t] EXCEPT !.state = s].state # "live"
    BY <1>s DEF TypeOK, Row
  <1>1. ASSUME req[h] = Idle
        PROVE  status[u] = "active" /\ ~BeingSwept(u)
    BY <1>1 DEF UserChecked, BeingSwept, Idle
  <1>2. ASSUME NEW v \in Users, Disable(h, v)
        PROVE  Stays
    <2>1. CASE v = u
      BY <1>2, <2>1, <1>r DEF Disable, BeingSwept
    <2>2. CASE v # u
      BY <1>1, <1>2, <2>2 DEF Disable, TypeOK
    <2>3. QED
      BY <2>1, <2>2
  <1>3. ASSUME NEW v \in Users, DeleteUser(h, v)
        PROVE  Stays \/ Gone
    <2>1. CASE v = u
      <3>1. \A t \in Tokens : db[t] # NoRow /\ db[t].user = u
                => db'[t] = [db[t] EXCEPT !.state = "deleted"]
        BY <1>3, <2>1 DEF DeleteUser, OwnedBy
      <3>2. QED
        BY <1>s, <3>1 DEF Live
    <2>2. CASE v # u
      BY <1>1, <1>3, <2>2 DEF DeleteUser, TypeOK
    <2>3. QED
      BY <2>1, <2>2
  <1>4. ASSUME NEW v \in Users, CreateUser(h, v) \/ Enable(h, v)
        PROVE  Stays
    BY <1>1, <1>4 DEF CreateUser, Enable, TypeOK
  <1>5. ASSUME NEW v \in Users, NEW c \in ClientIDs, Register(h, v, c)
        PROVE  Stays
    BY <1>1, <1>5 DEF Register, TypeOK
  <1>6. ASSUME DisableSweep(h)
        PROVE  Stays \/ Gone
    <2>1. RevokeRows(OwnedBy(req[h].user)) /\ UNCHANGED status
      BY <1>6 DEF DisableSweep, UserChecked
    <2>2. CASE req[h].user = u
      <3>1. \A t \in Tokens : db[t] # NoRow /\ db[t].user = u
                => db'[t] = IF Live(t) THEN [db[t] EXCEPT !.state = "revoked"] ELSE db[t]
        BY <2>1, <2>2 DEF RevokeRows, OwnedBy
      <3>2. QED
        BY <1>s, <3>1 DEF Live
    <2>3. CASE req[h].user # u
      BY <2>1, <2>3 DEF BeingSwept, UserChecked
    <2>4. QED
      BY <2>2, <2>3
  <1>7. ASSUME UNCHANGED status, req[h].step # "disableSweep"
        PROVE  Stays
    BY <1>7 DEF BeingSwept, UserChecked
  <1>8. ASSUME UNCHANGED status, req[h] = Idle
        PROVE  Stays
    BY <1>1, <1>8
  <1> HIDE DEF Gone, Stays
  <1>9. Stays \/ Gone
    BY <1>2, <1>3, <1>4, <1>5, <1>6, <1>7, <1>8
       DEF Handler, LoginCheck, Issue, IssueFails, AuthRead, AuthCheckUser,
           AuthCreate, AuthCreateFails, AuthRevoke, OAuthRead, OAuthRevoke,
           OAuthCreate, OAuthCreateFails, Logout, OAuthRevocation, RevokeByUser,
           RevokeByUserClient, RevokeByClient, RevokeAll
  <1>10. QED
    BY <1>9 DEF Gone, Stays

\* A request comes to the point where it may insert through a check of the
\* user, a live token or an active user's earlier step.
LEMMA BackedFlight ==
    ASSUME UserChecked, TypeOK, Backed, NEW h \in Handlers, Handler(h),
           NEW u \in Users, InFlight(u)'
    PROVE  status'[u] = "active"
  <1> DEFINE Danger == {"issue", "authCreate", "oauthRevoke", "oauthCreate"}
  <1>1. req'[h].step \in Danger /\ req'[h].user = u
    BY DEF InFlight, UserChecked
  <1>r. \A r : Resume(h, r) => req'[h] = r
    BY Resumed
  <1>i. Idle.step \notin Danger
    BY DEF Idle
  <1>2. ASSUME NEW v \in Users, NEW c \in ClientIDs, Register(h, v, c) \/ LoginCheck(h, v, c)
        PROVE  status'[u] = "active"
    BY <1>1, <1>2, <1>r DEF Register, LoginCheck, TypeOK
  <1>3. ASSUME NEW t \in Tokens, NEW c \in ClientIDs, OAuthRead(h, t, c)
        PROVE  status'[u] = "active"
    <2>1. /\ Live(t) /\ db[t].user = u /\ req[h] = Idle /\ UNCHANGED status
          /\ ~Faults
      BY <1>1, <1>3, <1>r DEF OAuthRead, UserChecked
    <2>2. ~BeingSwept(u)
      BY <2>1 DEF BeingSwept, UserChecked, Idle
    <2>3. QED
      BY <2>1, <2>2 DEF Backed
  <1>4. ASSUME NEW t \in Tokens, NEW c \in ClientIDs, AuthRead(h, t, c)
        PROVE  FALSE
    BY <1>1, <1>4, <1>r DEF AuthRead
  <1>5. CASE AuthCheckUser(h)
    <2>1. req[h] \in Rotating
      BY <1>5, RequestShape DEF AuthCheckUser, RotatingSteps, TypeOK
    <2>2. [req[h] EXCEPT !.step = "authCreate"].user = req[h].user
      BY <2>1 DEF Rotating
    <2>3. status[req[h].user] = "active" /\ req'[h] = [req[h] EXCEPT !.step = "authCreate"]
      BY <1>1, <1>5, <1>i, <1>r DEF AuthCheckUser
    <2>4. QED
      BY <1>1, <1>5, <2>2, <2>3 DEF AuthCheckUser
  <1>6. CASE OAuthRevoke(h)
    <2>1. req[h] \in Rotating
      BY <1>6, RequestShape DEF OAuthRevoke, RotatingSteps, TypeOK
    <2>2. [req[h] EXCEPT !.step = "oauthCreate"].user = req[h].user
      BY <2>1 DEF Rotating
    <2>3. req[h].user = u
      BY <1>1, <1>6, <1>r, <2>2 DEF OAuthRevoke
    <2>4. QED
      BY <1>6, <2>3 DEF OAuthRevoke, InFlight, Backed
  <1>7. ASSUME NEW t \in Tokens, AuthCreate(h, t)
        PROVE  FALSE
    BY <1>1, <1>7, <1>r DEF AuthCreate
  <1>8. ASSUME NEW v \in Users, Disable(h, v)
        PROVE  FALSE
    BY <1>1, <1>8, <1>r DEF Disable
  <1>9. ASSUME Resume(h, Idle) \/ (req[h] = Idle /\ UNCHANGED req)
        PROVE  FALSE
    BY <1>1, <1>9, <1>r, <1>i
  <1> HIDE DEF Danger
  <1>10. QED
    BY <1>2, <1>3, <1>4, <1>5, <1>6, <1>7, <1>8, <1>9
       DEF Handler, CreateUser, Issue, IssueFails, AuthCreateFails, AuthRevoke,
           OAuthCreate, OAuthCreateFails, Logout, OAuthRevocation, RevokeByUser,
           RevokeByUserClient, RevokeByClient, RevokeAll, DisableSweep, Enable,
           DeleteUser

LEMMA BackedStep ==
    ASSUME UserChecked, TypeOK, TypeOK', Backed, [Next]_vars
    PROVE  /\ Backed'
           /\ \A t \in Tokens : db[t] = NoRow /\ db'[t] # NoRow => status[db'[t].user] = "active"
  <1>1. CASE UNCHANGED vars
    BY <1>1 DEF vars, Backed, Live, BeingSwept, InFlight
  <1>2. ASSUME NEW h \in Handlers, Handler(h)
        PROVE  /\ Backed'
               /\ \A t \in Tokens :
                     db[t] = NoRow /\ db'[t] # NoRow => status[db'[t].user] = "active"
    <2>1. ASSUME NEW t \in Tokens, db[t] = NoRow, db'[t] # NoRow
          PROVE  status[db'[t].user] = "active" /\ status' = status
      <3>1. RowInserted(t)
        BY <1>2, <2>1, HandlerRowStep DEF RowStep
      <3>2. db'[t].user \in Users
        BY <2>1 DEF TypeOK, Row
      <3>3. QED
        BY <3>1, <3>2 DEF RowInserted, Backed
    <2>2. ASSUME ~Faults, NEW t \in Tokens, Live(t)'
          PROVE  (status[db[t].user] = "active" \/ BeingSwept(db[t].user))'
      <3>1. CASE db[t] = NoRow
        BY <2>1, <2>2, <3>1 DEF Live
      <3>2. CASE db[t] # NoRow
        <4>1. PICK u \in Users : db[t].user = u
          BY <3>2 DEF TypeOK, Row
        <4>2. db'[t].user = u /\ Live(t)
          BY <1>2, <2>2, <3>2, <4>1, HandlerRowStep DEF RowStep, RowKept
        <4>3. status[u] = "active" \/ BeingSwept(u)
          BY <2>2, <4>1, <4>2 DEF Backed
        <4>4. status'[u] = "active" \/ BeingSwept(u)'
          BY <1>2, <2>2, <3>2, <4>1, <4>3, BackedUser
        <4>5. QED
          BY <4>2, <4>4 DEF BeingSwept
      <3>3. QED
        BY <3>1, <3>2
    <2>3. QED
      BY <1>2, <2>1, <2>2, BackedFlight DEF Backed
  <1>3. ASSUME NEW n \in Tokens, Expire(n)
        PROVE  /\ Backed'
               /\ \A t \in Tokens :
                     db[t] = NoRow /\ db'[t] # NoRow => status[db'[t].user] = "active"
    <2>1. UNCHANGED <<status, req>>
      BY <1>3 DEF Expire
    <2>2. \A t \in Tokens : db[t] = NoRow => db'[t] = NoRow
      BY <1>3 DEF Expire, HasRow, TypeOK
    <2>3. \A t \in Tokens : Live(t)' => Live(t) /\ db'[t].user = db[t].user
      BY <1>3, <2>2, ExpireRowStep DEF RowStep, RowKept, Live
    <2>4. QED
      BY <2>1, <2>2, <2>3 DEF Backed, BeingSwept, InFlight
  <1>4. QED
    BY <1>1, <1>2, <1>3 DEF Next

\* While requests do not overlap, a token is inserted for an active user only.
\* Login and /v2/auth/refresh look at the user, whatever fails; to the OAuth
\* refresh, which does not, the sweep of Disable leaves no token to start
\* from unless it fails.
THEOREM MintedForActive ==
    ASSUME UserChecked
    PROVE  Spec => MintOnlyForActive
  <1>1. Init => Backed
    BY DEF Init, Backed, Live, InFlight, Idle
  <1>2. TypeOK /\ TypeOK' /\ Backed /\ [Next]_vars
          => /\ Backed'
             /\ [\A t \in Tokens :
                    db[t] = NoRow /\ db'[t] # NoRow => status[db'[t].user] = "active"]_vars
    BY BackedStep
  <1>3. QED
    BY <1>1, <1>2, TypeCorrect, PTL DEF Spec, MintOnlyForActive
=============================================================================
