---------------------------- MODULE AdminSession ----------------------------
(***************************************************************************)
(* The administrator's session in the console: login, the auth store with  *)
(* its copy in localStorage, AuthGuard, the refresh timer of AdminShell,   *)
(* the API clients' answer to 401, and logout - in several browser tabs,   *)
(* each with a store of its own and one localStorage between them.         *)
(*                                                                         *)
(* A session is what one login yields: an access token and, for those in   *)
(* Renewable, a refresh token.  Demo mode is left out: nothing enters it.  *)
(*                                                                         *)
(* Bounds: Sessions is how many logins ever succeed, MaxRequests how many  *)
(* API requests a tab has on their way.                                    *)
(***************************************************************************)
EXTENDS Naturals, FiniteSets

CONSTANTS
    Tabs, Sessions,
    Renewable,     \* sessions that come with a refresh token
    NeedsClient,   \* TRUE: the server refuses a refresh without client_id
    MaxRequests,
    NoSession

ASSUME ConstantsAssumption ==
    /\ Renewable \subseteq Sessions /\ NoSession \notin Sessions
    /\ NeedsClient \in BOOLEAN /\ MaxRequests \in Nat

VARIABLES
    auth,       \* the store of each tab (useAuthStore)
    disk,       \* localStorage["hellojohn-auth"]
    place,      \* what each tab shows
    login,      \* the login form's mutation
    timer,      \* AdminShell's refresh timer is running
    refreshing, \* refresh requests on their way: tab and session
    requests,   \* other API requests on their way
    expired,    \* sessions whose access token has expired
    issued,     \* sessions logged in so far
    left        \* sessions each tab has signed out of

vars == <<auth, disk, place, login, timer, refreshing, requests, expired, issued, left>>

Request == [tab: Tabs, session: Sessions, hard: BOOLEAN]
Idle    == [step |-> "idle", session |-> NoSession]

TypeOK ==
    /\ auth \in [Tabs -> Sessions \cup {NoSession}]
    /\ disk \in Sessions \cup {NoSession}
    /\ place \in [Tabs -> {"login", "register", "admin", "away"}]
    /\ login \in [Tabs -> [step: {"idle", "sent", "me"}, session: Sessions \cup {NoSession}]]
    /\ timer \in [Tabs -> BOOLEAN]
    /\ refreshing \subseteq [tab: Tabs, session: Renewable]
    /\ requests \subseteq Request
    /\ expired \subseteq Sessions /\ issued \subseteq Sessions
    /\ left \in [Tabs -> SUBSET Sessions]

Init ==
    /\ auth = [t \in Tabs |-> NoSession] /\ disk = NoSession
    /\ place = [t \in Tabs |-> "login"]
    /\ login = [t \in Tabs |-> Idle]
    /\ timer = [t \in Tabs |-> FALSE]
    /\ refreshing = {} /\ requests = {} /\ expired = {} /\ issued = {}
    /\ left = [t \in Tabs |-> {}]

-----------------------------------------------------------------------------
(* The store                                                                *)

\* isAuthenticated: a token whose expiry is not past.
Authenticated(s) == s # NoSession /\ s \notin expired

\* Every set of the store is written to localStorage as well.
Persist(t, s) == auth' = [auth EXCEPT ![t] = s] /\ disk' = s

\* Mutant: the copy in localStorage survives.
ClearMemory(t) ==
    /\ auth' = [auth EXCEPT ![t] = NoSession] /\ UNCHANGED disk
    /\ left' = [left EXCEPT ![t] = @ \cup ({auth[t]} \ {NoSession})]

ClearAuth(t) ==
    /\ Persist(t, NoSession)
    /\ left' = [left EXCEPT ![t] = @ \cup ({auth[t]} \ {NoSession})]

\* Whether AdminShell, shown in place p over session s, arms its timer: it does
\* whenever the store has a refresh token, as often as the store changes.
Arms(p, s) == p = "admin" /\ s \in Renewable

\* AuthGuard lets the tab into the console or sends it to the login page.
Guarded(s) == IF Authenticated(s) THEN "admin" ELSE "login"

\* A document is left: what its scripts were waiting for is lost.
Unload(t) ==
    /\ refreshing' = {r \in refreshing : r.tab # t}
    /\ requests' = {q \in requests : q.tab # t}
    /\ login' = [login EXCEPT ![t] = Idle]

-----------------------------------------------------------------------------
(* Login and registration                                                   *)

SubmitLogin(t) ==
    /\ place[t] = "login" /\ login[t] = Idle
    /\ login' = [login EXCEPT ![t].step = "sent"]
    /\ UNCHANGED <<auth, disk, place, timer, refreshing, requests, expired, issued, left>>

\* The tokens arrive; the form asks /v2/me with them before it stores anything.
LoginAnswered(t) ==
    /\ login[t].step = "sent"
    /\ \E s \in Sessions \ issued :
          /\ issued' = issued \cup {s}
          /\ login' = [login EXCEPT ![t] = [step |-> "me", session |-> s]]
    /\ UNCHANGED <<auth, disk, place, timer, refreshing, requests, expired, left>>

LoginFails(t) ==
    /\ login[t] # Idle
    /\ login' = [login EXCEPT ![t] = Idle]
    /\ UNCHANGED <<auth, disk, place, timer, refreshing, requests, expired, issued, left>>

\* With return_to the form opens a cookie session and leaves the console.
LoginReturns(t) ==
    /\ login[t].step = "sent"
    /\ place' = [place EXCEPT ![t] = "away"]
    /\ timer' = [timer EXCEPT ![t] = FALSE]
    /\ Unload(t)
    /\ UNCHANGED <<auth, disk, expired, issued, left>>

\* onSuccess: the store is set and the console shown, wherever the tab is now.
LoginSucceeds(t) ==
    LET s == login[t].session IN
    /\ login[t].step = "me"
    /\ Persist(t, s)
    /\ place' = [place EXCEPT ![t] = Guarded(s)]
    /\ timer' = [timer EXCEPT ![t] = Arms(Guarded(s), s)]
    /\ login' = [login EXCEPT ![t] = Idle]
    /\ UNCHANGED <<refreshing, requests, expired, issued, left>>

\* The sign-up link is a plain one: the page is loaded, not moved to.
OpenRegister(t) ==
    /\ place[t] = "login"
    /\ auth' = [auth EXCEPT ![t] = disk]
    /\ place' = [place EXCEPT ![t] = "register"]
    /\ Unload(t)
    /\ UNCHANGED <<disk, timer, expired, issued, left>>

\* Registering signs nobody in: the form goes on to the login page.
Registered(t) ==
    /\ place[t] = "register"
    /\ place' = [place EXCEPT ![t] = "login"]
    /\ UNCHANGED <<auth, disk, login, timer, refreshing, requests, expired, issued, left>>

-----------------------------------------------------------------------------
(* Moving about                                                             *)

\* Within the application: the login page opens for anybody, the console for
\* those the guard lets in.
Navigate(t, p) ==
    /\ place[t] \in {"login", "admin"} /\ p \in {"login", "admin"} \ {place[t]}
    /\ p = "admin" => Authenticated(auth[t])
    /\ place' = [place EXCEPT ![t] = p]
    /\ timer' = [timer EXCEPT ![t] = Arms(p, auth[t])]
    /\ UNCHANGED <<auth, disk, login, refreshing, requests, expired, issued, left>>

\* Mutant: the effect does not run for a session found in localStorage.
ReloadNoTimer(t) ==
    /\ auth' = [auth EXCEPT ![t] = disk]
    /\ place' = [place EXCEPT ![t] = Guarded(disk)]
    /\ timer' = [timer EXCEPT ![t] = FALSE]
    /\ Unload(t)
    /\ UNCHANGED <<disk, expired, issued, left>>

\* The console is loaded anew, in this tab or for the first time: the store
\* starts from localStorage.
Reload(t) ==
    /\ auth' = [auth EXCEPT ![t] = disk]
    /\ place' = [place EXCEPT ![t] = Guarded(disk)]
    /\ timer' = [timer EXCEPT ![t] = Arms(Guarded(disk), disk)]
    /\ Unload(t)
    /\ UNCHANGED <<disk, expired, issued, left>>

\* Mutant: the timer is not cleared when the console is left.
LogoutKeepsTimer(t) ==
    /\ place[t] = "admin"
    /\ ClearAuth(t)
    /\ place' = [place EXCEPT ![t] = "login"]
    /\ UNCHANGED <<timer, login, refreshing, requests, expired, issued>>

Logout(t) ==
    /\ place[t] = "admin"
    /\ ClearAuth(t)
    /\ place' = [place EXCEPT ![t] = "login"]
    /\ timer' = [timer EXCEPT ![t] = FALSE]
    /\ UNCHANGED <<login, refreshing, requests, expired, issued>>

\* clearAuth and a full load of the login page.
SignOut(t) ==
    /\ ClearAuth(t)
    /\ place' = [place EXCEPT ![t] = "login"]
    /\ timer' = [timer EXCEPT ![t] = FALSE]
    /\ Unload(t)

-----------------------------------------------------------------------------
(* Refresh                                                                  *)

\* A minute before the token expires, or five seconds from now.
TimerFires(t) ==
    /\ timer[t]
    /\ timer' = [timer EXCEPT ![t] = FALSE]
    /\ refreshing' = refreshing \cup {[tab |-> t, session |-> auth[t]]}
    /\ UNCHANGED <<auth, disk, place, login, requests, expired, issued, left>>

\* The request carries the refresh token and no client_id.  Tokens that come
\* are stored whatever the store holds by now.
RefreshAnswered(r) ==
    /\ r \in refreshing
    /\ IF NeedsClient
       THEN SignOut(r.tab) /\ UNCHANGED <<expired, issued>>
       ELSE /\ Persist(r.tab, r.session)
            /\ expired' = expired \ {r.session}
            /\ timer' = [timer EXCEPT ![r.tab] = Arms(place[r.tab], r.session)]
            /\ refreshing' = refreshing \ {r}
            /\ UNCHANGED <<place, login, requests, issued, left>>

\* Whatever goes wrong, a lost connection included, ends the session.
RefreshFails(r) ==
    /\ r \in refreshing
    /\ SignOut(r.tab)
    /\ UNCHANGED <<expired, issued>>

-----------------------------------------------------------------------------
(* Requests                                                                 *)

\* The pages use the shared client, which answers 401 with a full load (hard),
\* or that of useApi, which moves to the login page within the application.
Send(t, hard) ==
    /\ place[t] = "admin" /\ auth[t] # NoSession
    /\ Cardinality({q \in requests : q.tab = t}) < MaxRequests
    /\ requests' = requests \cup {[tab |-> t, session |-> auth[t], hard |-> hard]}
    /\ UNCHANGED <<auth, disk, place, login, timer, refreshing, expired, issued, left>>

\* Any answer but 401, and any error: the session is left alone.
Answered(q) ==
    /\ q \in requests
    /\ requests' = requests \ {q}
    /\ UNCHANGED <<auth, disk, place, login, timer, refreshing, expired, issued, left>>

Unauthorized(q) ==
    /\ q \in requests /\ q.session \in expired
    /\ IF q.hard
       THEN SignOut(q.tab)
       ELSE /\ ClearAuth(q.tab)
            /\ place' = [place EXCEPT ![q.tab] = "login"]
            /\ timer' = [timer EXCEPT ![q.tab] = FALSE]
            /\ requests' = requests \ {q}
            /\ UNCHANGED <<login, refreshing>>
    /\ UNCHANGED <<expired, issued>>

\* The access token's time is over.
Expire(s) ==
    /\ s \in issued \ expired
    /\ expired' = expired \cup {s}
    /\ UNCHANGED <<auth, disk, place, login, timer, refreshing, requests, issued, left>>

-----------------------------------------------------------------------------
TabStep(t) ==
    \/ SubmitLogin(t) \/ LoginAnswered(t) \/ LoginFails(t) \/ LoginReturns(t)
    \/ LoginSucceeds(t) \/ OpenRegister(t) \/ Registered(t)
    \/ \E p \in {"login", "admin"} : Navigate(t, p)
    \/ Reload(t) \/ Logout(t) \/ TimerFires(t)
    \/ \E hard \in BOOLEAN : Send(t, hard)

RefreshStep == \E r \in refreshing : RefreshAnswered(r) \/ RefreshFails(r)

RequestStep == \E q \in requests : Answered(q) \/ Unauthorized(q)

Next ==
    \/ \E t \in Tabs : TabStep(t)
    \/ RefreshStep
    \/ RequestStep
    \/ \E s \in Sessions : Expire(s)

Spec == Init /\ [][Next]_vars

\* Timers fire and refresh requests end, one way or the other.
FairSpec ==
    /\ Spec
    /\ \A t \in Tabs : WF_vars(TimerFires(t))
    /\ \A t \in Tabs, s \in Renewable :
          LET r == [tab |-> t, session |-> s]
          IN WF_vars(RefreshAnswered(r) \/ RefreshFails(r))

-----------------------------------------------------------------------------
(* Properties                                                               *)

(***************************************************************************)
(* A tab that signed out of a session - by logout, a refused refresh or a  *)
(* 401 - never uses that session again: not from localStorage when it is   *)
(* reloaded, whatever the other tabs stored there, and not by an answer    *)
(* that was still on its way.                                              *)
(***************************************************************************)
SignedOutForGood == \A t \in Tabs : auth[t] \notin left[t]

(***************************************************************************)
(* The timer covers every way into the console: once the access token has  *)
(* expired, a tab that shows the console over a session with a refresh     *)
(* token does not stay there with it - it is renewed, ended or replaced -  *)
(* even if the page never sends a request that could be answered 401.      *)
(***************************************************************************)
ExpiredSessionEnds ==
    \A t \in Tabs, s \in Renewable :
        (place[t] = "admin" /\ auth[t] = s /\ s \in expired)
        ~> (place[t] # "admin" \/ auth[t] # s \/ s \notin expired)

-----------------------------------------------------------------------------
(* What the code does not promise (see the README).                         *)

\* A refresh that reaches the server renews the session (auth-refresh.ts says
\* the server knows an administrator's token; it asks for a client_id first).
RefreshRenews ==
    [][\A r \in refreshing : RefreshAnswered(r) => auth'[r.tab] = r.session]_vars

=============================================================================
