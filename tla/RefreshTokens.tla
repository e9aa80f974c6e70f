---------------------------- MODULE RefreshTokens ----------------------------
(***************************************************************************)
(* The refresh tokens of one tenant database: password login and           *)
(* registration create them, /v2/auth/refresh and the OAuth refresh_token  *)
(* grant rotate them, and logout, mass revocation, user disabling and user *)
(* deletion end them.                                                      *)
(*                                                                         *)
(* Every HTTP request is served by a goroutine (a member of Handlers) that *)
(* issues separate SQL statements, so the statements of different requests *)
(* interleave.  One action is one SQL statement together with the          *)
(* in-memory work between it and the next; a pair of statements is one     *)
(* action only where nothing another request does between them can be seen *)
(* (the read that merely fetches an immutable id).                         *)
(*                                                                         *)
(* A token value is 32 random bytes: a fresh one is a member of Tokens     *)
(* that has no row yet.  The size of Tokens bounds every behaviour.        *)
(***************************************************************************)
EXTENDS Naturals, FiniteSets

CONSTANTS
    Users,        \* user ids of the tenant
    ClientIDs,    \* every client_id string a request may carry
    Registered,   \* the client_ids of the tenant's clients.yaml
    Fold,         \* the lower-case form of a client_id (strings.EqualFold)
    Tokens,       \* token values
    Handlers,     \* concurrent request goroutines
    Endpoints,    \* the refresh endpoints in use, a subset of {"auth", "oauth"}
    Faults,       \* TRUE when a SQL statement may return an error
    NoRow         \* a token value that has no row in refresh_token

ASSUME ConstantsAssumption ==
    /\ Registered \subseteq ClientIDs
    /\ Fold \in [ClientIDs -> ClientIDs]
    /\ Endpoints \subseteq {"auth", "oauth"}
    /\ Faults \in BOOLEAN

VARIABLES
    status,   \* app_user: "none" (no row), "active", "disabled", "deleted"
    db,       \* refresh_token, by token value
    req,      \* what each goroutine still has to do
    family,   \* history: the token the session was opened with
    clean     \* history: users whose disabling swept with nobody in flight

vars == <<status, db, req, family, clean>>

Statuses == {"none", "active", "disabled", "deleted"}

Row == [state: {"live", "revoked", "deleted"}, user: Users,
        client: ClientIDs, expired: BOOLEAN]

ASSUME NoRowAssumption == NoRow \notin Row

Idle == [step |-> "idle"]

\* The steps a goroutine can be suspended before, with what it has read.
Issuing  == [step: {"issue"}, user: Users, client: ClientIDs]
Rotating == [step: {"authUser", "authCreate", "oauthRevoke", "oauthCreate"},
             old: Tokens, user: Users, client: ClientIDs]
Retiring == [step: {"authRevoke"}, old: Tokens, new: Tokens, user: Users]
Sweeping == [step: {"disableSweep"}, user: Users]

Request == {Idle} \cup Issuing \cup Rotating \cup Retiring \cup Sweeping

TypeOK ==
    /\ status \in [Users -> Statuses]
    /\ db \in [Tokens -> Row \cup {NoRow}]
    /\ req \in [Handlers -> Request]
    /\ family \in [Tokens -> Tokens]
    /\ clean \subseteq Users

Init ==
    /\ status = [u \in Users |-> "none"]
    /\ db = [t \in Tokens |-> NoRow]
    /\ req = [h \in Handlers |-> Idle]
    /\ family = [t \in Tokens |-> t]
    /\ clean = {}

-----------------------------------------------------------------------------
(* The token repository                                                     *)

\* Whether a statement that could succeed does: without faults it must.
Outcomes == IF Faults THEN BOOLEAN ELSE {TRUE}

Exists(u) == status[u] \in {"active", "disabled"}

HasRow(t) == db[t] # NoRow /\ db[t].state # "deleted"

Live(t) == db[t] # NoRow /\ db[t].state = "live"

\* Mutant: the foreign key is dropped.
InsertWithoutForeignKey(new, u, c) ==
    /\ db[new] = NoRow
    /\ db' = [db EXCEPT ![new] = [state |-> "live", user |-> u,
                                  client |-> c, expired |-> FALSE]]

\* Mutant: client_id_text is left out of the INSERT.
InsertWithoutClient(new, u, c) ==
    /\ db[new] = NoRow
    /\ Exists(u)
    /\ db' = [db EXCEPT ![new] = [state |-> "live", user |-> u,
                                  client |-> NoRow, expired |-> FALSE]]

\* tokenRepo.Create: the foreign key user_id -> app_user(id) must hold.
Insert(new, u, c) ==
    /\ db[new] = NoRow
    /\ Exists(u)
    /\ db' = [db EXCEPT ![new] = [state |-> "live", user |-> u,
                                  client |-> c, expired |-> FALSE]]

InsertMayFail(u) == Faults \/ ~Exists(u)

\* tokenRepo.Revoke: an unconditional UPDATE by id; no row, no effect.
RevokeRow(t) ==
    db' = [db EXCEPT ![t] = IF HasRow(t) THEN [@ EXCEPT !.state = "revoked"] ELSE @]

\* RevokeAllByUser, RevokeAllByClient, RevokeAll: the live rows of a set.
RevokeRows(S) ==
    db' = [t \in Tokens |-> IF t \in S /\ Live(t)
                            THEN [db[t] EXCEPT !.state = "revoked"] ELSE db[t]]

OwnedBy(u)     == {t \in Tokens : db[t] # NoRow /\ db[t].user = u}
IssuedTo(c)    == {t \in Tokens : db[t] # NoRow /\ db[t].client = c}

Resume(h, r) == req' = [req EXCEPT ![h] = r]

-----------------------------------------------------------------------------
(* Sessions are opened by registration with auto-login and by password      *)
(* login.                                                                   *)

\* registerTenantUser without auto-login, and the admin's user creation.
CreateUser(h, u) ==
    /\ req[h] = Idle
    /\ status[u] = "none"
    /\ status' = [status EXCEPT ![u] = "active"]
    /\ UNCHANGED <<db, req, family, clean>>

\* registerTenantUser up to issueTokens: the user is committed before the
\* token is inserted.
Register(h, u, c) ==
    /\ req[h] = Idle
    /\ c \in Registered
    /\ status[u] = "none"
    /\ status' = [status EXCEPT ![u] = "active"]
    /\ Resume(h, [step |-> "issue", user |-> u, client |-> c])
    /\ UNCHANGED <<db, family, clean>>

\* LoginPassword up to Users.GetByEmail and the checks on what it read.
\* Which credentials match is the environment's choice.
LoginCheck(h, u, c) ==
    /\ req[h] = Idle
    /\ c \in Registered
    /\ status[u] = "active"
    /\ Resume(h, [step |-> "issue", user |-> u, client |-> c])
    /\ UNCHANGED <<status, db, family, clean>>

\* The INSERT that ends both.
Issue(h, new) ==
    /\ req[h].step = "issue"
    /\ Insert(new, req[h].user, req[h].client)
    /\ Resume(h, Idle)
    /\ UNCHANGED <<status, family, clean>>

IssueFails(h) ==
    /\ req[h].step = "issue"
    /\ InsertMayFail(req[h].user)
    /\ Resume(h, Idle)
    /\ UNCHANGED <<status, db, family, clean>>

-----------------------------------------------------------------------------
(* POST /v2/auth/refresh: read, check the user, create, revoke              *)

\* Mutant: the client of the request is not compared with the row's.
AuthReadAnyClient(h, t, c) ==
    /\ "auth" \in Endpoints
    /\ req[h] = Idle
    /\ Live(t)
    /\ ~db[t].expired
    /\ Resume(h, [step |-> "authUser", old |-> t, user |-> db[t].user,
                  client |-> c])
    /\ UNCHANGED <<status, db, family, clean>>

\* GetByHash, then revoked / expired / client checks.
AuthRead(h, t, c) ==
    /\ "auth" \in Endpoints
    /\ req[h] = Idle
    /\ Live(t)
    /\ ~db[t].expired
    /\ Fold[c] = Fold[db[t].client]
    /\ Resume(h, [step |-> "authUser", old |-> t, user |-> db[t].user,
                  client |-> c])
    /\ UNCHANGED <<status, db, family, clean>>

\* Users.GetByID and IsUserDisabled.
AuthCheckUser(h) ==
    /\ req[h].step = "authUser"
    /\ \/ /\ status[req[h].user] = "active"
          /\ Resume(h, [req[h] EXCEPT !.step = "authCreate"])
       \/ /\ Faults \/ status[req[h].user] # "active"
          /\ Resume(h, Idle)
    /\ UNCHANGED <<status, db, family, clean>>

\* The new row carries the client_id of the request, not of the old row.
AuthCreate(h, new) ==
    /\ req[h].step = "authCreate"
    /\ Insert(new, req[h].user, req[h].client)
    /\ Resume(h, [step |-> "authRevoke", old |-> req[h].old, new |-> new,
                  user |-> req[h].user])
    /\ family' = [family EXCEPT ![new] = family[req[h].old]]
    /\ UNCHANGED <<status, clean>>

AuthCreateFails(h) ==
    /\ req[h].step = "authCreate"
    /\ InsertMayFail(req[h].user)
    /\ Resume(h, Idle)
    /\ UNCHANGED <<status, db, family, clean>>

\* Mutant: the old token is left alive.
AuthRevokeForgotten(h) ==
    /\ req[h].step = "authRevoke"
    /\ Resume(h, Idle)
    /\ UNCHANGED <<status, db, family, clean>>

\* "Revoke old token (best effort)": an error is logged and the new token
\* is returned all the same.
AuthRevoke(h) ==
    /\ req[h].step = "authRevoke"
    /\ \E ok \in Outcomes :
          IF ok THEN RevokeRow(req[h].old) ELSE UNCHANGED db
    /\ Resume(h, Idle)
    /\ UNCHANGED <<status, family, clean>>

-----------------------------------------------------------------------------
(* POST /oauth2/token, grant_type=refresh_token: read, revoke, create       *)

\* Mutant: revoked_at is not looked at.
OAuthReadRevoked(h, t, c) ==
    /\ "oauth" \in Endpoints
    /\ req[h] = Idle
    /\ c \in Registered
    /\ HasRow(t)
    /\ ~db[t].expired
    /\ db[t].client = c
    /\ Resume(h, [step |-> "oauthRevoke", old |-> t, user |-> db[t].user,
                  client |-> c])
    /\ UNCHANGED <<status, db, family, clean>>

\* GetByHash, then revoked / expired / client checks; no look at the user.
OAuthRead(h, t, c) ==
    /\ "oauth" \in Endpoints
    /\ req[h] = Idle
    /\ c \in Registered
    /\ Live(t)
    /\ ~db[t].expired
    /\ db[t].client = c
    /\ Resume(h, [step |-> "oauthRevoke", old |-> t, user |-> db[t].user,
                  client |-> c])
    /\ UNCHANGED <<status, db, family, clean>>

\* The error of Revoke is discarded.
OAuthRevoke(h) ==
    /\ req[h].step = "oauthRevoke"
    /\ \E ok \in Outcomes :
          IF ok THEN RevokeRow(req[h].old) ELSE UNCHANGED db
    /\ Resume(h, [req[h] EXCEPT !.step = "oauthCreate"])
    /\ UNCHANGED <<status, family, clean>>

OAuthCreate(h, new) ==
    /\ req[h].step = "oauthCreate"
    /\ Insert(new, req[h].user, req[h].client)
    /\ Resume(h, Idle)
    /\ family' = [family EXCEPT ![new] = family[req[h].old]]
    /\ UNCHANGED <<status, clean>>

OAuthCreateFails(h) ==
    /\ req[h].step = "oauthCreate"
    /\ InsertMayFail(req[h].user)
    /\ Resume(h, Idle)
    /\ UNCHANGED <<status, db, family, clean>>

-----------------------------------------------------------------------------
(* Revocation                                                               *)

\* Logout and the OAuth revocation endpoint: the token is looked up by its
\* hash and revoked by its id.
Logout(h, t, c) ==
    /\ req[h] = Idle
    /\ HasRow(t)
    /\ Fold[c] = Fold[db[t].client]
    /\ RevokeRow(t)
    /\ UNCHANGED <<status, req, family, clean>>

OAuthRevocation(h, t) ==
    /\ req[h] = Idle
    /\ HasRow(t)
    /\ RevokeRow(t)
    /\ UNCHANGED <<status, req, family, clean>>

\* LogoutAll, the admin's RevokeByUser and SetPassword, ResetPassword.
RevokeByUser(h, u) ==
    /\ req[h] = Idle
    /\ RevokeRows(OwnedBy(u))
    /\ UNCHANGED <<status, req, family, clean>>

\* LogoutAll and ResetPassword with a client_id: only that client's rows.
RevokeByUserClient(h, u, c) ==
    /\ req[h] = Idle
    /\ RevokeRows(OwnedBy(u) \cap IssuedTo(c))
    /\ UNCHANGED <<status, req, family, clean>>

RevokeByClient(h, c) ==
    /\ req[h] = Idle
    /\ RevokeRows(IssuedTo(c))
    /\ UNCHANGED <<status, req, family, clean>>

RevokeAll(h) ==
    /\ req[h] = Idle
    /\ RevokeRows(Tokens)
    /\ UNCHANGED <<status, req, family, clean>>

-----------------------------------------------------------------------------
(* Users                                                                    *)

\* A request that has passed its last check on user u and may still insert.
InFlight(u) ==
    \E h \in Handlers :
        /\ req[h].step \in {"issue", "authCreate", "oauthRevoke", "oauthCreate"}
        /\ req[h].user = u

\* userActionService.Disable: UPDATE app_user ...
Disable(h, u) ==
    /\ req[h] = Idle
    /\ Exists(u)
    /\ status' = [status EXCEPT ![u] = "disabled"]
    /\ Resume(h, [step |-> "disableSweep", user |-> u])
    /\ UNCHANGED <<db, family, clean>>

\* Mutant: the sweep is left out.
DisableSweepForgotten(h) ==
    /\ req[h].step = "disableSweep"
    /\ Resume(h, Idle)
    /\ UNCHANGED <<status, db, family, clean>>

\* ... then RevokeAllByUser, whose error is only logged.
DisableSweep(h) ==
    LET u == req[h].user IN
    /\ req[h].step = "disableSweep"
    /\ \/ /\ RevokeRows(OwnedBy(u))
          /\ clean' = IF status[u] = "disabled" /\ ~InFlight(u)
                      THEN clean \cup {u} ELSE clean
       \/ /\ Faults
          /\ UNCHANGED <<db, clean>>
    /\ Resume(h, Idle)
    /\ UNCHANGED <<status, family>>

Enable(h, u) ==
    /\ req[h] = Idle
    /\ status[u] = "disabled"
    /\ status' = [status EXCEPT ![u] = "active"]
    /\ clean' = clean \ {u}
    /\ UNCHANGED <<db, req, family>>

\* userRepo.Delete: one transaction deletes the user and what it owns.
DeleteUser(h, u) ==
    /\ req[h] = Idle
    /\ Exists(u)
    /\ status' = [status EXCEPT ![u] = "deleted"]
    /\ db' = [t \in Tokens |-> IF t \in OwnedBy(u)
                               THEN [db[t] EXCEPT !.state = "deleted"] ELSE db[t]]
    /\ UNCHANGED <<req, family, clean>>

\* The clock passes expires_at.
Expire(t) ==
    /\ HasRow(t)
    /\ ~db[t].expired
    /\ db' = [db EXCEPT ![t].expired = TRUE]
    /\ UNCHANGED <<status, req, family, clean>>

-----------------------------------------------------------------------------
Handler(h) ==
    \/ \E u \in Users :
          \/ CreateUser(h, u)
          \/ RevokeByUser(h, u)
          \/ Disable(h, u)
          \/ Enable(h, u)
          \/ DeleteUser(h, u)
    \/ \E u \in Users, c \in ClientIDs :
          \/ Register(h, u, c)
          \/ LoginCheck(h, u, c)
          \/ RevokeByUserClient(h, u, c)
    \/ \E t \in Tokens, c \in ClientIDs :
          \/ AuthRead(h, t, c)
          \/ OAuthRead(h, t, c)
          \/ Logout(h, t, c)
    \/ \E t \in Tokens :
          \/ Issue(h, t)
          \/ AuthCreate(h, t)
          \/ OAuthCreate(h, t)
          \/ OAuthRevocation(h, t)
    \/ \E c \in ClientIDs : RevokeByClient(h, c)
    \/ RevokeAll(h)
    \/ IssueFails(h)
    \/ AuthCheckUser(h)
    \/ AuthCreateFails(h)
    \/ AuthRevoke(h)
    \/ OAuthRevoke(h)
    \/ OAuthCreateFails(h)
    \/ DisableSweep(h)

Next ==
    \/ \E h \in Handlers : Handler(h)
    \/ \E t \in Tokens : Expire(t)

Spec == Init /\ [][Next]_vars

-----------------------------------------------------------------------------
(* Properties                                                               *)

\* No row outlives its user: the OAuth refresh never loads the user, so it
\* is the foreign key and the transaction of userRepo.Delete alone that keep
\* a deleted user's sessions from being refreshed, whatever insert races
\* the deletion.
NoOrphanRows ==
    \A t \in Tokens : HasRow(t) => Exists(db[t].user)

\* Once the sweep of Disable ran while no request was past its last check
\* on the user, the user has no live token until Enable: no path (not even
\* the OAuth refresh, which never looks at the user) can bring one back.
DisabledStaysClean ==
    \A u \in clean : ~\E t \in Tokens : Live(t) /\ db[t].user = u

\* Along a chain of rotations the user never changes and the client only
\* up to the case of its id.
FamilyKeepsOwner ==
    \A s, t \in Tokens :
        (db[s] # NoRow /\ db[t] # NoRow /\ family[s] = family[t]) =>
            /\ db[s].user = db[t].user
            /\ Fold[db[s].client] = Fold[db[t].client]

\* A token is inserted only for a user that is active.  The OAuth refresh
\* never looks at the user: while statements do not fail and requests do not
\* overlap it is the sweep of Disable that closes this path.
MintOnlyForActive ==
    [][\A t \in Tokens :
          db[t] = NoRow /\ db'[t] # NoRow => status[db'[t].user] = "active"]_vars

-----------------------------------------------------------------------------
(* Refinement: what a client sees while its own rotation is under way       *)

\* A created token is not usable before the response carries it, and a
\* token revoked ahead of its successor counts until the successor exists.
Undelivered == {t \in Tokens : \E h \in Handlers :
                   req[h].step = "authRevoke" /\ req[h].new = t}
BeingReplaced == {t \in Tokens : \E h \in Handlers :
                   req[h].step = "oauthCreate" /\ req[h].old = t}

Usable(f) == {t \in Tokens : /\ family[t] = f
                             /\ t \notin Undelivered
                             /\ Live(t) \/ t \in BeingReplaced}

Chain == INSTANCE SessionChain WITH
            usable <- [f \in Tokens |-> Usable(f)],
            spent  <- {t \in Tokens : db[t] # NoRow} \ Undelivered

\* While requests do not overlap and no statement fails, both refresh
\* endpoints rotate as one indivisible swap, whichever of create and revoke
\* they run first.
RotationIsAtomic == Chain!Spec

-----------------------------------------------------------------------------
(* What the code does not promise: TLC refutes each of these, in a run or   *)
(* with the constants the README names.                                     *)

\* A token is rotated into at most one successor: rotation revokes the old
\* token, so only one of the requests that present it gets a new one.
LiveInFamily(f) == {t \in Tokens : Live(t) /\ family[t] = f}

AtMostOneLive ==
    (\A h \in Handlers : req[h] = Idle) =>
        \A f \in Tokens : Cardinality(LiveInFamily(f)) <= 1

\* Revoking by client reaches every live token: the client_id of a row is
\* the id of a client of the tenant.
RevocableByClient ==
    \A t \in Tokens : Live(t) => db[t].client \in Registered
=============================================================================
