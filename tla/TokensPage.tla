----------------------------- MODULE TokensPage -----------------------------
(***************************************************************************)
(* The tokens page of a tenant: a token is on while active and off once    *)
(* revoked.  Its inspector talks to the OAuth endpoints with a client's    *)
(* credentials; its history tab shows made-up entries and changes nothing. *)
(***************************************************************************)
EXTENDS Console

OpenInspector == Go("tokens", "inspector", FALSE, {})
OpenHistory   == Go("tokens", "history", FALSE, {})

\* Inputs of the inspector: the token, and the client's credentials.
TypeToken(i) ==
    /\ At("tokens", "inspector") /\ i # ui.item
    /\ ui' = [ui EXCEPT !.item = i] /\ Only

TypeCredentials ==
    /\ At("tokens", "inspector")
    /\ ui' = [ui EXCEPT !.form = ~@] /\ Only

\* introspect and revoke share one loading flag; a revocation that does not go
\* through the admin API tells no query.
Introspection == Mutation("inspector", "hidden", {})
Revocation    == [Mutation("inspector", "off", {}) EXCEPT !.misses = Keys]

InspectorReady ==
    At("tokens", "inspector") /\ ui.form /\ ui.item # NoItem /\ ~Pending(Introspection)

Introspect  == InspectorReady /\ Send(Introspection, {ui.item})
RevokeTyped == InspectorReady /\ Send(Revocation, {ui.item})

-----------------------------------------------------------------------------
(* Active tokens: filtered by the server, at first to the active ones       *)

OpenActiveTokens == Go("tokens", "active", TRUE, {"list"})

RevokeToken       == Mutation("revoke", "off", Keys)
RevokeTokensByUser == Mutation("revokeByUser", "all off", Keys)

\* revokeSelected revokes one token after the other and stops at a failure.
RevokeTokensInTurn ==
    [RevokeToken EXCEPT !.mode = "one by one", !.clears = TRUE]

FilterTokens == At("tokens", "active") /\ Filter
RefreshTokenList == At("tokens", "active") /\ Loaded /\ Refetch("list")

SelectToken(i)  == At("tokens", "active") /\ Toggle(i)
SelectAllTokens == At("tokens", "active") /\ ToggleAll
UnselectTokens  == At("tokens", "active") /\ ClearSelection

\* The selection outlives filters and pages; what is selected is what is sent.
RevokeSelectedTokens ==
    /\ At("tokens", "active") /\ ~Pending(RevokeToken)
    /\ Send(RevokeTokensInTurn, ui.selected)

\* The row's menu, disabled unless the row says active.
RevokeTokenRow(i) ==
    /\ At("tokens", "active") /\ i \in Rows /\ Value(i) = "on"
    /\ \/ Send(RevokeToken, {i})
       \/ Send(RevokeTokensByUser, {Every})

-----------------------------------------------------------------------------
(* Statistics and the emergency buttons                                     *)

OpenTokenStats == Go("tokens", "stats", FALSE, {"side"})

RevokeAllTokens      == Mutation("revokeAll", "all off", Keys)
RevokeTokensByClient == Mutation("revokeByClient", "all off", Keys)

StatsShown == At("tokens", "stats") /\ Data("side") # NoData

RefreshTokenStats == StatsShown /\ Refetch("side")

AskRevokeAll == StatsShown /\ Free /\ Show("revokeAll", NoItem, FALSE)
AskRevokeByClient ==
    /\ StatsShown /\ Free /\ \E i \in Items : Data("side").val[i] = "on"
    /\ Show("revokeByClient", NoItem, FALSE)
CancelRevoke == StatsShown /\ Close({"revokeAll", "revokeByClient"})

\* Confirming closes the dialog at once, whatever becomes of the request.
Confirmed(d, m) ==
    /\ StatsShown /\ ui.dialog = d /\ ~Pending(m)
    /\ SendAs(Closed, m, {Every})

ConfirmRevokeAll      == Confirmed("revokeAll", RevokeAllTokens)
ConfirmRevokeByClient == Confirmed("revokeByClient", RevokeTokensByClient)

TokensNext ==
    \/ OpenInspector \/ OpenHistory \/ TypeCredentials \/ Introspect \/ RevokeTyped
    \/ OpenActiveTokens \/ FilterTokens \/ RefreshTokenList
    \/ SelectAllTokens \/ UnselectTokens \/ RevokeSelectedTokens
    \/ \E i \in Items : TypeToken(i) \/ SelectToken(i) \/ RevokeTokenRow(i)
    \/ OpenTokenStats \/ RefreshTokenStats \/ AskRevokeAll \/ AskRevokeByClient
    \/ CancelRevoke \/ ConfirmRevokeAll \/ ConfirmRevokeByClient

=============================================================================
