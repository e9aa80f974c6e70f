----------------------------- MODULE ClientsPage -----------------------------
(***************************************************************************)
(* The clients of a tenant: the list, and the page of one client ("side"   *)
(* is its query).  That page takes the first element of what the server    *)
(* sends, which is one object, so it always says that the client does not  *)
(* exist; only what it shows right after a creation or a rotation, before  *)
(* it looks at the client, can be reached.                                 *)
(***************************************************************************)
EXTENDS ClientWizard

OpenClients == Go("clients", "clients", FALSE, {"list"})

OnClients == At("clients", "clients")

SearchClients  == OnClients /\ Filter
RefreshClients == OnClients /\ Refetch("list")

\* A client nobody created yet has no page; one that is deleted keeps its.
CreateClient == [Mutation("createClient", "new", {"list"}) EXCEPT
                   !.misses = {"side"}, !.closes = {"wizard"}, !.goes = "created"]
RefusedClient == [CreateClient EXCEPT !.makes = "refused"]
DeleteClient == [Mutation("deleteClient", "none", {"list"}) EXCEPT
                   !.misses = {"side"}, !.closes = {"delete"}]
\* The lists do not show secrets.
RotateSecret == [Mutation("rotateSecret", "hidden", {"list"}) EXCEPT
                   !.closes = {"rotate"}, !.goes = "created"]

ClientRow(i) ==
    /\ OnClients /\ Free /\ i \in Rows
    /\ \E d \in {"delete", "rotate"} : Show(d, i, FALSE)

HandleDeleteClient ==
    /\ OnClients /\ ui.dialog = "delete" /\ ~Pending(DeleteClient)
    /\ Send(DeleteClient, {ui.item})

HandleRotateSecret ==
    /\ OnClients /\ ui.dialog = "rotate" /\ ~Pending(RotateSecret)
    /\ Send(RotateSecret, {ui.item})

AskCreateClient == OnClients /\ Free /\ Show("wizard", NoItem, FALSE)

\* Review is always content; the server is not, with a form left incomplete.
HandleWizardSubmit(i) ==
    /\ InWizard /\ wizard.step = 4 /\ ~Pending(CreateClient)
    /\ Send(IF Complete THEN CreateClient ELSE RefusedClient, {i})

CloseClientDialog == OnClients /\ Close({"wizard", "delete", "rotate"})

-----------------------------------------------------------------------------
ClientPage == Go("clients", "client", FALSE, {"side"})

OnCreated == At("clients", "created")

\* "I have saved the secret" lets Back and Done leave; nothing holds the menu.
ConfirmSecret == OnCreated /\ ui' = [ui EXCEPT !.form = ~@] /\ Only

HandleDone ==
    /\ OnCreated /\ ui.form
    /\ Move("clients", "clients", FALSE, {"list"}) /\ UNCHANGED events

ClientsNext ==
    \/ OpenClients \/ SearchClients \/ RefreshClients \/ AskCreateClient
    \/ HandleDeleteClient \/ HandleRotateSecret \/ CloseClientDialog
    \/ ClientPage \/ ConfirmSecret \/ HandleDone
    \/ \E i \in Items : ClientRow(i) \/ HandleWizardSubmit(i)

=============================================================================
