----------------------------- MODULE EmailTokens -----------------------------
(***************************************************************************)
(* One-use tokens sent by email: verifying an address and resetting a      *)
(* password.  A token is asked for by the user (verify, forgot) or by an   *)
(* administrator (resend), and redeemed by whoever has the mail.           *)
(*                                                                         *)
(* Every SQL statement is a step of its own, since neither service opens a *)
(* transaction: Create is an UPDATE and an INSERT, redeeming a SELECT, a   *)
(* conditional UPDATE and the change of the user.  Addresses are left out: *)
(* no operation changes a user's.  So are the sweeps of refresh tokens     *)
(* that end a change of password (RevokeByUser and RevokeByUserClient in   *)
(* RefreshTokens) and the mail of a registration, which carries no token.  *)
(***************************************************************************)
EXTENDS Naturals

CONSTANTS
    Users,
    Tokens,     \* random tokens; their number bounds how many are sent
    Handlers,   \* requests being served
    Ways,       \* how tokens are asked for: "verify", "forgot", "resend"
    Faults,     \* TRUE when a statement, the mail or the process may fail
    NoRow       \* a token that has never been stored

ASSUME ConstantsAssumption ==
    /\ Ways \subseteq {"verify", "forgot", "resend"}
    /\ Faults \in BOOLEAN

VARIABLES
    user,       \* app_user and the password of identity
    db,         \* the two token tables, by token
    mailed,     \* tokens that reached a mailbox
    req,        \* what each request has read and will do next
    replaced,   \* history: tokens older than a later request for one like it
    redeemed    \* history: how many changes each token has made

vars == <<user, db, mailed, req, replaced, redeemed>>

Kinds == {"verification", "reset"}
Kind(way) == IF way = "forgot" THEN "reset" ELSE "verification"

\* The password is the one set with a token, or of registration or an administrator.
User == [here: BOOLEAN, verified: BOOLEAN, password: Tokens \cup {"other"}]

\* hex: how the hash is written; redeeming looks a token up in hexadecimal.
Row == [user: Users, kind: Kinds, hex: BOOLEAN, expired: BOOLEAN,
        state: {"live", "used", "deleted"}]

ASSUME NoRowAssumption == NoRow \notin Row

Idle    == [step |-> "idle"]
Asking  == [step: {"invalidate"}, user: Users, way: Ways]
           \cup [step: {"insert"}, user: Users, way: Ways, before: SUBSET Tokens]
Mailing == [step: {"mail"}, token: Tokens]
Redeem  == [step: {"use", "apply"}, token: Tokens]
Request == {Idle} \cup Asking \cup Mailing \cup Redeem

TypeOK ==
    /\ user \in [Users -> User]
    /\ db \in [Tokens -> Row \cup {NoRow}]
    /\ mailed \subseteq Tokens
    /\ req \in [Handlers -> Request]
    /\ \A h \in Handlers : req[h].step \in {"mail", "use", "apply"} => db[req[h].token] \in Row
    /\ replaced \subseteq Tokens
    /\ redeemed \in [Tokens -> Nat]

Init ==
    /\ user = [u \in Users |-> [here |-> TRUE, verified |-> FALSE, password |-> "other"]]
    /\ db = [t \in Tokens |-> NoRow]
    /\ mailed = {}
    /\ req = [h \in Handlers |-> Idle]
    /\ replaced = {}
    /\ redeemed = [t \in Tokens |-> 0]

Resume(h, r) == req' = [req EXCEPT ![h] = r]

\* The tokens stored for a user and a purpose.
Stored(u, k) ==
    {t \in Tokens : db[t] # NoRow /\ db[t].state # "deleted" /\ db[t].user = u /\ db[t].kind = k}

\* UsedAt == nil and not past ExpiresAt.
Valid(t) == db[t] # NoRow /\ db[t].state = "live" /\ ~db[t].expired

-----------------------------------------------------------------------------
(* Asking for a token                                                       *)

\* The user is looked up; an unknown one is answered like a known one.
Start(h, u, way) ==
    /\ req[h] = Idle /\ way \in Ways
    /\ user[u].here
    /\ way = "resend" => ~user[u].verified
    /\ Resume(h, [step |-> "invalidate", user |-> u, way |-> way])
    /\ UNCHANGED <<user, db, mailed, replaced, redeemed>>

Inserts(h) ==
    LET r == req[h] IN
    Resume(h, [step |-> "insert", user |-> r.user, way |-> r.way,
               before |-> Stored(r.user, Kind(r.way))])

\* Mutant: the tokens sent before stay valid.
InvalidateNothing(h) ==
    /\ req[h].step = "invalidate"
    /\ Inserts(h)
    /\ UNCHANGED <<user, db, mailed, replaced, redeemed>>

\* emailTokenRepo.Create: the unused ones of the user and kind are used up,
Invalidate(h) ==
    LET r == req[h] IN
    /\ r.step = "invalidate"
    /\ db' = [t \in Tokens |-> IF t \in Stored(r.user, Kind(r.way)) /\ db[t].state = "live"
                               THEN [db[t] EXCEPT !.state = "used"] ELSE db[t]]
    /\ Inserts(h)
    /\ UNCHANGED <<user, mailed, replaced, redeemed>>

\* Mutant: the mail is sent before the token is stored.
MailFirst(h, t) ==
    LET r == req[h] IN
    /\ r.step = "insert" /\ user[r.user].here
    /\ db[t] = NoRow
    /\ Resume(h, [step |-> "mail", token |-> t])
    /\ UNCHANGED <<user, db, mailed, replaced, redeemed>>

\* and the new one is stored, if the user is still there.  The hash is hex in
\* the email service, base64 in the administrators'.
Insert(h, t) ==
    LET r == req[h] IN
    /\ r.step = "insert" /\ user[r.user].here
    /\ db[t] = NoRow
    /\ db' = [db EXCEPT ![t] = [user |-> r.user, kind |-> Kind(r.way),
                                hex |-> r.way # "resend", expired |-> FALSE,
                                state |-> "live"]]
    /\ Resume(h, [step |-> "mail", token |-> t])
    /\ replaced' = replaced \cup r.before
    /\ UNCHANGED <<user, mailed, redeemed>>

Mail(h) ==
    /\ req[h].step = "mail"
    /\ mailed' = mailed \cup {req[h].token}
    /\ Resume(h, Idle)
    /\ UNCHANGED <<user, db, replaced, redeemed>>

-----------------------------------------------------------------------------
(* Redeeming it                                                             *)

\* GetByHash and the checks of VerifyEmailConfirm and ResetPassword; each
\* takes the tokens of its own kind, so the kind of the row says which it is.
Read(h, t) ==
    /\ req[h] = Idle
    /\ t \in mailed /\ Valid(t) /\ db[t].hex
    /\ Resume(h, [step |-> "use", token |-> t])
    /\ UNCHANGED <<user, db, mailed, replaced, redeemed>>

\* Mutant: the UPDATE lacks its conditions.
UseAny(h) ==
    LET t == req[h].token IN
    /\ req[h].step = "use" /\ db[t].state # "deleted"
    /\ db' = [db EXCEPT ![t].state = "used"]
    /\ Resume(h, [req[h] EXCEPT !.step = "apply"])
    /\ UNCHANGED <<user, mailed, replaced, redeemed>>

\* emailTokenRepo.Use
Use(h) ==
    LET t == req[h].token IN
    /\ req[h].step = "use" /\ Valid(t)
    /\ db' = [db EXCEPT ![t].state = "used"]
    /\ Resume(h, [req[h] EXCEPT !.step = "apply"])
    /\ UNCHANGED <<user, mailed, replaced, redeemed>>

\* Mutant: the token is deleted from the request only after the change.
ApplyAgain(h) ==
    LET t == req[h].token IN
    /\ req[h].step = "apply" /\ user[db[t].user].here
    /\ user' = [user EXCEPT ![db[t].user] =
                   IF db[t].kind = "reset" THEN [@ EXCEPT !.password = t]
                                           ELSE [@ EXCEPT !.verified = TRUE]]
    /\ redeemed' = [redeemed EXCEPT ![t] = @ + 1]
    /\ UNCHANGED <<db, mailed, req, replaced>>

\* UpdatePasswordHash or SetEmailVerified
Apply(h) ==
    LET t == req[h].token IN
    /\ req[h].step = "apply" /\ user[db[t].user].here
    /\ user' = [user EXCEPT ![db[t].user] =
                   IF db[t].kind = "reset" THEN [@ EXCEPT !.password = t]
                                           ELSE [@ EXCEPT !.verified = TRUE]]
    /\ redeemed' = [redeemed EXCEPT ![t] = @ + 1]
    /\ Resume(h, Idle)
    /\ UNCHANGED <<db, mailed, replaced>>

-----------------------------------------------------------------------------
(* Everything else                                                          *)

\* A request ends: nothing to insert for or to change, its redirect refused
\* after the token was stored, the token taken meanwhile, or an error.
GivesUp(h) ==
    LET r == req[h] IN
    /\ \/ Faults /\ r # Idle
       \/ r.step = "mail"
       \/ r.step = "insert" /\ ~user[r.user].here
       \/ r.step = "use"    /\ ~Valid(r.token)
       \/ r.step = "apply"  /\ ~user[db[r.token].user].here
    /\ Resume(h, Idle)
    /\ UNCHANGED <<user, db, mailed, replaced, redeemed>>

Expire(t) ==
    /\ Valid(t)
    /\ db' = [db EXCEPT ![t].expired = TRUE]
    /\ UNCHANGED <<user, mailed, req, replaced, redeemed>>

\* userRepo.Delete: one transaction, which cascades to the token tables.
DeleteUser(u) ==
    /\ user[u].here
    /\ user' = [user EXCEPT ![u].here = FALSE]
    /\ db' = [t \in Tokens |-> IF db[t] # NoRow /\ db[t].user = u
                               THEN [db[t] EXCEPT !.state = "deleted"] ELSE db[t]]
    /\ UNCHANGED <<mailed, req, replaced, redeemed>>

\* The administrator's actions on a user; they leave the tokens alone.
SetEmailVerified(u, b) ==
    /\ user[u].here /\ user' = [user EXCEPT ![u].verified = b]
    /\ UNCHANGED <<db, mailed, req, replaced, redeemed>>

SetPassword(u) ==
    /\ user[u].here /\ user' = [user EXCEPT ![u].password = "other"]
    /\ UNCHANGED <<db, mailed, req, replaced, redeemed>>

Restart ==
    /\ Faults
    /\ req' = [h \in Handlers |-> Idle]
    /\ UNCHANGED <<user, db, mailed, replaced, redeemed>>

Serve(h) ==
    \/ \E u \in Users, way \in Ways : Start(h, u, way)
    \/ Invalidate(h)
    \/ \E t \in Tokens : Insert(h, t) \/ Read(h, t)
    \/ Mail(h) \/ Use(h) \/ Apply(h) \/ GivesUp(h)

Next ==
    \/ \E h \in Handlers : Serve(h)
    \/ \E t \in Tokens : Expire(t)
    \/ \E u \in Users : DeleteUser(u) \/ SetPassword(u)
    \/ \E u \in Users, b \in BOOLEAN : SetEmailVerified(u, b)
    \/ Restart

Spec == Init /\ [][Next]_vars

-----------------------------------------------------------------------------
(* Properties                                                               *)

(***************************************************************************)
(* A token changes a password or verifies an address at most once,         *)
(* however many requests present it at the same time.                      *)
(***************************************************************************)
RedeemedOnce == \A t \in Tokens : redeemed[t] <= 1

(***************************************************************************)
(* Once a request has stored a token, those of the same user and kind that *)
(* were there when it invalidated are accepted no more: not even by a      *)
(* request that had found one valid already.                               *)
(***************************************************************************)
NewestOnly ==
    [][\A h \in Handlers, t \in replaced : ~(Use(h) /\ req[h].token = t)]_vars

-----------------------------------------------------------------------------
(* What the code does not promise (see the README).                         *)

\* A user has one valid token of a kind (email_token.go: Create invalidates
\* the active one).
AtMostOneValid ==
    \A t, w \in Tokens : (Valid(t) /\ Valid(w) /\ db[t].user = db[w].user
                          /\ db[t].kind = db[w].kind) => t = w

\* The token in the last mail can be redeemed.
MailedWorks == \A t \in mailed \ replaced : Valid(t) => db[t].hex

\* The password is of the last reset whose token was accepted.
LastResetWins ==
    [][\A h \in Handlers : LET t == req[h].token IN
         (Apply(h) /\ db[t].kind = "reset") => t \notin replaced]_vars
=============================================================================
