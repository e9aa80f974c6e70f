----------------------------- MODULE ClaimsPage -----------------------------
(***************************************************************************)
(* The claims of a tenant's tokens, standard and custom, all in one query: *)
(* a claim is on while enabled.  One editor is there from the start and    *)
(* keeps what was typed in it, whichever claim it is opened for.           *)
(***************************************************************************)
EXTENDS Console

OpenClaims == Go("claims", "claims", FALSE, {"list"})

OnClaims == At("claims", "claims")

ToggleStandard(r) == Mutation("toggleStandard", r, {"list"})
CreateClaim == [Mutation("createClaim", "new", {"list"}) EXCEPT !.closes = {"editor"}]
UpdateClaim(r) == [Mutation("updateClaim", r, {"list"}) EXCEPT !.closes = {"editor"}]
DeleteClaim == [Mutation("deleteClaim", "none", {"list"}) EXCEPT !.closes = {"delete"}]
UpdateClaimSettings == Mutation("updateSettings", "same", {"list"})

\* A switch sends the opposite of what the list says, which may be old: two
\* clicks send the same.  Before the list is there, defaults are shown.
Opposite(r) == IF r = "on" THEN "off" ELSE "on"

HandleToggleStandardClaim(i) ==
    /\ OnClaims /\ Free
    /\ LET r == IF Loaded THEN Value(i) ELSE "on" IN
       r # "none" /\ Send(ToggleStandard(Opposite(r)), {i})

HandleToggleCustomClaim(i) ==
    /\ OnClaims /\ Free /\ i \in Rows
    /\ Send(UpdateClaim(Opposite(Value(i))), {i})

\* Each change of a setting, each letter typed in one, is sent.
HandleSettingsChange == OnClaims /\ Free /\ Send(UpdateClaimSettings, {Every})

-----------------------------------------------------------------------------
AskCreateClaim == OnClaims /\ Free /\ Show("editor", NoItem, ui.form)

\* Editing and deleting.
ClaimRow(i) ==
    /\ OnClaims /\ Free /\ i \in Rows
    /\ \E d \in {"editor", "delete"} : Show(d, i, ui.form)

ClaimEditorDialog == OnClaims /\ Fill({"editor"})

\* handleSubmit closes the editor at once, whatever the server will answer.
\* The content decides whether the claim is enabled from then on.
SubmitClaim(i) ==
    /\ OnClaims /\ ui.dialog = "editor" /\ ui.form
    /\ \/ ui.item = NoItem /\ SendAs(Closed, CreateClaim, {i})
       \/ ui.item = i /\ \E r \in {"on", "off"} : SendAs(Closed, UpdateClaim(r), {i})

HandleDeleteClaim ==
    OnClaims /\ ui.dialog = "delete" /\ Send(DeleteClaim, {ui.item})

CloseClaimDialog == OnClaims /\ Close({"editor", "delete"})

ClaimsNext ==
    \/ OpenClaims \/ HandleSettingsChange \/ AskCreateClaim \/ ClaimEditorDialog
    \/ HandleDeleteClaim \/ CloseClaimDialog
    \/ \E i \in Items : \/ HandleToggleStandardClaim(i) \/ HandleToggleCustomClaim(i)
                        \/ ClaimRow(i) \/ SubmitClaim(i)

=============================================================================
