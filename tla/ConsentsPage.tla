---------------------------- MODULE ConsentsPage ----------------------------
(***************************************************************************)
(* The consents page of a tenant: a consent is on until it is revoked.     *)
(* The policies tab sends what the server does not accept.  More is taken  *)
(* for working than works: the server answers the list as an object and    *)
(* cannot read the path of the DELETE; here it may do as the page expects. *)
(***************************************************************************)
EXTENDS Console

OpenConsents == Go("consents", "consents", FALSE, {"list"})

OnConsents == At("consents", "consents")

\* The tabs are parts of one page: its query, filters and selection stay.
Tab(at) == Free /\ ui' = [ui EXCEPT !.at = at] /\ Only
OpenConsentPolicies == OnConsents /\ Tab("policies")
OpenConsentsTab     == At("consents", "policies") /\ Tab("consents")

FilterConsents  == OnConsents /\ Filter

\* The refresh button is above the tabs.
RefreshConsents == area = "consents" /\ Refetch("list")

SelectConsent(i) == OnConsents /\ Toggle(i)

\* Unlike tokens and users: all are selected when each row is.
SelectAllConsents ==
    /\ OnConsents /\ Free
    /\ ui' = [ui EXCEPT !.selected = IF Rows # {} /\ Rows \subseteq @ THEN {} ELSE Rows]
    /\ Only

UnselectConsents == OnConsents /\ ClearSelection

RevokeConsent ==
    [Mutation("revokeConsent", "off", {"list"}) EXCEPT !.closes = {"revoke"}]

\* A click on a row, its menu, and the detail's own button.
ConsentRow(i) ==
    /\ OnConsents /\ Free /\ i \in Rows
    /\ \/ Show("detail", i, FALSE)
       \/ Value(i) = "on" /\ Show("revoke", i, FALSE)

ConsentDetail(i) ==
    /\ OnConsents /\ ui.dialog = "detail" /\ i = ui.item /\ Value(i) = "on"
    /\ Show("revoke", i, FALSE)

ConfirmRevokeConsent ==
    /\ OnConsents /\ ui.dialog = "revoke" /\ ~Pending(RevokeConsent)
    /\ Send(RevokeConsent, {ui.item})

\* Promise.all gives up at the first failure, and then no query is told.
RevokeConsents ==
    [Mutation("revokeConsents", "off", {"list"}) EXCEPT
       !.closes = {"bulkRevoke"}, !.clears = TRUE, !.mode = "all or error"]

AskRevokeConsents ==
    OnConsents /\ Free /\ ui.selected # {} /\ Show("bulkRevoke", NoItem, FALSE)

\* Of the selected ones, those in the list as it is now; none is a success.
ConfirmRevokeConsents ==
    LET is == {i \in ui.selected : Loaded /\ Value(i) # "none"} IN
    /\ OnConsents /\ ui.dialog = "bulkRevoke" /\ ~Pending(RevokeConsents)
    /\ \/ Send(RevokeConsents, is)
       \/ is = {} /\ ui' = [Closed EXCEPT !.selected = {}] /\ Only

CloseConsentDialog == OnConsents /\ Close({"detail", "revoke", "bulkRevoke"})

-----------------------------------------------------------------------------
(* Policies: the form starts from the tenant's settings; there is no PATCH  *)
(* of settings on the server, so saving them only ever fails.              *)

SaveConsentPolicy ==
    /\ At("consents", "policies")
    /\ ~Pending(Mutation("savePolicy", "refused", {}))
    /\ Send(Mutation("savePolicy", "refused", {}), {Every})

ConsentsNext ==
    \/ OpenConsents \/ FilterConsents \/ RefreshConsents \/ SelectAllConsents
    \/ UnselectConsents \/ ConfirmRevokeConsent \/ AskRevokeConsents
    \/ ConfirmRevokeConsents \/ CloseConsentDialog
    \/ OpenConsentPolicies \/ OpenConsentsTab \/ SaveConsentPolicy
    \/ \E i \in Items : SelectConsent(i) \/ ConsentRow(i) \/ ConsentDetail(i)

=============================================================================
