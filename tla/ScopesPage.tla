----------------------------- MODULE ScopesPage -----------------------------
(***************************************************************************)
(* The scopes of a tenant: the custom ones, which alone can be changed.    *)
(* A scope is there or not.                                                *)
(***************************************************************************)
EXTENDS Console

OpenScopes == Go("scopes", "scopes", FALSE, {"list"})

OnScopes == At("scopes", "scopes")

SearchScopes  == OnScopes /\ Filter
RefreshScopes == OnScopes /\ Refetch("list")

\* The server takes both a creation and an update for an upsert.
CreateScope == [Mutation("createScope", "put", {"list"}) EXCEPT !.closes = {"create"}]
UpdateScope == [Mutation("updateScope", "put", {"list"}) EXCEPT !.closes = {"edit"}]
DeleteScope ==
    [Mutation("deleteScope", "none", {"list"}) EXCEPT !.closes = {"delete", "detail"}]

\* A card or row; its detail leads to editing and deleting.
ScopeCard(i) ==
    /\ OnScopes /\ Free /\ i \in Rows
    /\ \E d \in {"detail", "edit", "delete"} : Show(d, i, d = "edit")

ScopeDetail ==
    /\ OnScopes /\ ui.dialog = "detail"
    /\ \E d \in {"edit", "delete"} : Show(d, ui.item, d = "edit")

AskCreateScope == OnScopes /\ Free /\ Show("create", NoItem, FALSE)

\* A name is needed, of the right letters and not a standard one's.
ScopeForm == OnScopes /\ Fill({"create"})

\* The name may be taken: then that scope is overwritten.
HandleCreateScope(i) ==
    /\ OnScopes /\ ui.dialog = "create" /\ ui.form /\ ~Pending(CreateScope)
    /\ Send(CreateScope, {i})

HandleUpdateScope ==
    /\ OnScopes /\ ui.dialog = "edit" /\ ~Pending(UpdateScope)
    /\ Send(UpdateScope, {ui.item})

HandleDeleteScope ==
    /\ OnScopes /\ ui.dialog = "delete" /\ ~Pending(DeleteScope)
    /\ Send(DeleteScope, {ui.item})

CloseScopeDialog == OnScopes /\ Close({"create", "edit", "detail", "delete"})

ScopesNext ==
    \/ OpenScopes \/ SearchScopes \/ RefreshScopes \/ ScopeDetail \/ AskCreateScope
    \/ ScopeForm \/ HandleUpdateScope \/ HandleDeleteScope \/ CloseScopeDialog
    \/ \E i \in Items : ScopeCard(i) \/ HandleCreateScope(i)

=============================================================================
