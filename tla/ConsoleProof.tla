---------------------------- MODULE ConsoleProof ----------------------------
(***************************************************************************)
(* The console's lists never pass for fresh without what this tab wrote,   *)
(* a bulk operation reported as done was done, and the wizards stay        *)
(* consistent: for any number of records, areas, events and requests that  *)
(* overlap, fail or lose their answers.                                    *)
(***************************************************************************)
EXTENDS ConsoleApp, TLAPS

-----------------------------------------------------------------------------
(* What the pages do, of which the properties need no more than this        *)

\* The queries of an area: the pages of the others never ask "side".
KeysOf(a) ==
    IF a \in {"tokens", "sessions", "clients", "tenants", "keys", "cluster"}
    THEN Keys ELSE {"list"}

\* The dialogs about one record.
AboutItem(a, d) ==
    \/ a = "users"    /\ d \in {"editUser", "blockUser", "userDetails"}
    \/ a = "sessions" /\ d \in {"detail", "revoke", "revokeUser"}
    \/ a = "consents" /\ d \in {"detail", "revoke"}
    \/ a = "scopes"   /\ d \in {"detail", "edit", "delete"}
    \/ a = "claims"   /\ d = "delete"
    \/ a = "clients"  /\ d \in {"delete", "rotate"}
    \/ a = "tenants"  /\ d = "delete"
    \/ a = "keys"     /\ d = "revoke"
    \/ a = "cluster"  /\ d = "removeNode"

\* A page reads its area's queries, and a dialog about a record has one.
Fits(u) ==
    /\ IsPage(u)
    /\ u.reads \subseteq KeysOf(area)
    /\ AboutItem(area, u.dialog) => u.item \in Items

\* A mutation that changes what a list shows - one the server never accepts does
\* not - tells each query of its area, or else misses it; one that sends several
\* requests at once does so after failures too.
\* Success goes to another page only where that page's query is.
Tells(m, ks) ==
    \/ m.makes \in {"hidden", "refused"}
    \/ KeysOf(area) \subseteq ks \cup m.misses

Sound(m, is) ==
    /\ IsOp(m)
    /\ Tells(m, m.ok)
    /\ m.mode = "all" => Tells(m, m.bad) \/ \E i \in Items : is = {i}
    /\ m.goes # Nowhere => KeysOf(area) = Keys

\* What a control of a page does.
PageStep ==
    \/ Fits(ui') /\ Only
    \/ /\ \E at : \E n \in BOOLEAN, ks \in SUBSET KeysOf(area) : Move(area, at, n, ks)
       /\ Event \/ UNCHANGED events
    \/ \E k \in Keys : Refetch(k)
    \/ \E u, m : \E is \in SUBSET Items : SendAs(u, m, is) /\ Fits(u) /\ Sound(m, is)

LEMMA Goes ==
    ASSUME NEW at, NEW n \in BOOLEAN, NEW ks, ks \subseteq KeysOf(area), Go(area, at, n, ks)
    PROVE  PageStep
  BY DEF Go, Move, PageStep

LEMMA GoesBlank ==
    ASSUME NEW at, Go(area, at, FALSE, {})
    PROVE  PageStep
  <1>1. ASSUME NEW n \in BOOLEAN, NEW ks, ks = {}, Go(area, at, n, ks)
        PROVE  PageStep
    BY <1>1, Goes
  <1>2. QED
    BY <1>1

LEMMA Refetches ==
    ASSUME NEW k \in Keys, Refetch(k)
    PROVE  PageStep
  BY DEF PageStep

LEMMA Shows ==
    ASSUME Fits(ui), NEW d, NEW i \in Items \cup {NoItem}, NEW f \in BOOLEAN,
           AboutItem(area, d) => i \in Items, Show(d, i, f)
    PROVE  PageStep
  <1>1. Fits(ui')
    BY DEF Fits, IsPage, Show
  <1>2. QED
    BY <1>1 DEF PageStep, Show

LEMMA ClosedFits ==
    ASSUME Fits(ui)
    PROVE  Fits(Closed)
  BY DEF Fits, IsPage, Closed, AboutItem

\* The controls every list has.
Common ==
    \/ \E ds : Close(ds) \/ Fill(ds)
    \/ ToggleAll \/ ClearSelection \/ Filter
    \/ \E i \in Items : Toggle(i)

LEMMA CommonSteps ==
    ASSUME Fits(ui), Common
    PROVE  PageStep
  <1>1. ASSUME NEW ds, Close(ds)
        PROVE  PageStep
    BY <1>1, ClosedFits DEF Close, PageStep
  <1>2. ASSUME NEW ds, Fill(ds)
        PROVE  PageStep
    <2>1. Fits(ui')
      BY <1>2 DEF Fill, Fits, IsPage
    <2>2. QED
      BY <1>2, <2>1 DEF Fill, PageStep
  <1>3. Rows \subseteq Items
    BY DEF Rows
  <1>4. ASSUME NEW S \in SUBSET Items, ui' = [ui EXCEPT !.selected = S]
        PROVE  Fits(ui')
    BY <1>4 DEF Fits, IsPage
  <1>5. ASSUME NEW i \in Items, Toggle(i)
        PROVE  PageStep
    <2>1. ui.selected \ {i} \in SUBSET Items /\ ui.selected \cup {i} \in SUBSET Items
      BY DEF Fits, IsPage
    <2>2. Fits(ui')
      BY <1>4, <1>5, <2>1 DEF Toggle
    <2>3. QED
      BY <1>5, <2>2 DEF Toggle, PageStep
  <1>6. CASE ToggleAll
    <2>1. Fits(ui')
      BY <1>3, <1>4, <1>6 DEF ToggleAll
    <2>2. QED
      BY <1>6, <2>1 DEF ToggleAll, PageStep
  <1>7. CASE ClearSelection
    <2>1. Fits(ui')
      BY <1>4, <1>7 DEF ClearSelection
    <2>2. QED
      BY <1>7, <2>1 DEF ClearSelection, PageStep
  <1>8. CASE Filter
    <2>1. Fits(ui')
      BY <1>8 DEF Filter, Fits, IsPage
    <2>2. QED
      BY <1>8, <2>1 DEF Filter, PageStep
  <1>9. QED
    BY <1>1, <1>2, <1>5, <1>6, <1>7, <1>8 DEF Common

LEMMA SendsAs ==
    ASSUME NEW u, Fits(u), NEW m, NEW is \in SUBSET Items, Sound(m, is), SendAs(u, m, is)
    PROVE  PageStep
  BY DEF PageStep, Fits, Sound

\* A mutation that stays on the page, sent about one record.
Routine(m) == IsOp(m) /\ Tells(m, m.ok) /\ m.goes = Nowhere

LEMMA Sends ==
    ASSUME NEW u, Fits(u), NEW m, Routine(m), NEW i \in Items, SendAs(u, m, {i})
    PROVE  PageStep
  <1>1. Sound(m, {i})
    BY DEF Sound, Routine
  <1>2. QED
    BY <1>1, SendsAs

LEMMA SomeItem == Every \in Items
  BY ConstantsAssumption DEF Every

-----------------------------------------------------------------------------
(* Page by page                                                             *)

LEMMA TokensSteps ==
    ASSUME Fits(ui), area = "tokens", TokensNext
    PROVE  PageStep
  <1>k. KeysOf(area) = Keys /\ Keys = {"list", "side"}
    BY DEF KeysOf, Keys
  <1>m. ASSUME NEW n, NEW r \in {"off", "all off"}
        PROVE  Routine(Mutation(n, r, Keys))
    BY <1>k DEF Mutation, Routine, IsOp, Tells, Record
  <1>1. CASE OpenInspector \/ OpenHistory \/ OpenActiveTokens \/ OpenTokenStats
    <2>1. CASE OpenInspector \/ OpenHistory
      BY <2>1, GoesBlank DEF OpenInspector, OpenHistory
    <2>2. CASE OpenActiveTokens \/ OpenTokenStats
      BY <1>k, <2>2, Goes DEF OpenActiveTokens, OpenTokenStats
    <2>3. QED
      BY <1>1, <2>1, <2>2
  <1>2. CASE FilterTokens \/ SelectAllTokens \/ UnselectTokens \/ CancelRevoke
    BY <1>2, CommonSteps
       DEF FilterTokens, SelectAllTokens, UnselectTokens, CancelRevoke, Common
  <1>3. ASSUME NEW i \in Items, SelectToken(i)
        PROVE  PageStep
    BY <1>3, CommonSteps DEF SelectToken, Common
  <1>4. CASE RefreshTokenList \/ RefreshTokenStats
    BY <1>k, <1>4, Refetches DEF RefreshTokenList, RefreshTokenStats
  <1>5. ASSUME NEW i \in Items, TypeToken(i)
        PROVE  PageStep
    <2>1. Fits(ui')
      BY <1>5 DEF TypeToken, Fits, IsPage, AboutItem
    <2>2. QED
      BY <1>5, <2>1 DEF TypeToken, PageStep
  <1>6. CASE TypeCredentials
    <2>1. Fits(ui')
      BY <1>6 DEF TypeCredentials, Fits, IsPage
    <2>2. QED
      BY <1>6, <2>1 DEF TypeCredentials, PageStep
  <1>7. CASE AskRevokeAll \/ AskRevokeByClient
    BY <1>7, Shows DEF AskRevokeAll, AskRevokeByClient, AboutItem
  <1>8. CASE Introspect \/ RevokeTyped
    <2>1. ui.item \in Items
      BY <1>8 DEF Introspect, RevokeTyped, InspectorReady, Fits, IsPage
    <2>2. Routine(Introspection) /\ Routine(Revocation)
      BY <1>k DEF Introspection, Revocation, Mutation, Routine, IsOp, Tells, Record
    <2>3. QED
      BY <1>8, <2>1, <2>2, Sends DEF Introspect, RevokeTyped, Send
  <1>9. CASE RevokeSelectedTokens
    <2>1. Sound(RevokeTokensInTurn, ui.selected)
      BY <1>k DEF Sound, Tells, RevokeTokensInTurn, RevokeToken, Mutation, IsOp, Record
    <2>2. QED
      BY <1>9, <2>1, SendsAs DEF RevokeSelectedTokens, Send, Fits, IsPage
  <1>10. ASSUME NEW i \in Items, RevokeTokenRow(i)
         PROVE  PageStep
    BY <1>m, <1>10, SomeItem, Sends DEF RevokeTokenRow, Send, RevokeToken, RevokeTokensByUser
  <1>11. CASE ConfirmRevokeAll \/ ConfirmRevokeByClient
    BY <1>m, <1>11, SomeItem, ClosedFits, Sends
       DEF ConfirmRevokeAll, ConfirmRevokeByClient, Confirmed, RevokeAllTokens, RevokeTokensByClient
  <1>12. QED
    BY <1>1, <1>2, <1>3, <1>4, <1>5, <1>6, <1>7, <1>8, <1>9, <1>10, <1>11 DEF TokensNext

LEMMA UsersSteps ==
    ASSUME Fits(ui), area = "users", UsersNext
    PROVE  PageStep
  <1>k. KeysOf(area) = {"list"} /\ {"list"} \subseteq Keys
    BY DEF KeysOf, Keys
  <1>m. /\ Routine(CreateUser) /\ Routine(UpdateUser) /\ Routine(DeleteUser)
        /\ Routine(BlockUser) /\ Routine(EnableUser) /\ Routine(SetEmailVerified)
        /\ Routine(ChangePassword) /\ Routine(ResendVerification)
    BY <1>k DEF CreateUser, UpdateUser, DeleteUser, BlockUser, EnableUser, SetEmailVerified,
                ChangePassword, ResendVerification, Mutation, Routine, IsOp, Tells, Record
  <1>i. AboutItem(area, ui.dialog) => ui.item \in Items
    BY DEF Fits
  <1>1. CASE OpenUsers
    BY <1>k, <1>1, Goes DEF OpenUsers
  <1>2. CASE \/ SearchUsers \/ SelectAllUsers \/ UnselectUsers \/ CreateUserForm
             \/ BlockUserDialog \/ TypeNewPassword \/ CloseUserDialog
    BY <1>2, CommonSteps
       DEF SearchUsers, SelectAllUsers, UnselectUsers, CreateUserForm, BlockUserDialog,
           TypeNewPassword, CloseUserDialog, Common
  <1>3. ASSUME NEW i \in Items, SelectUser(i)
        PROVE  PageStep
    BY <1>3, CommonSteps DEF SelectUser, Common
  <1>4. CASE RefreshUsers
    BY <1>k, <1>4, Refetches DEF RefreshUsers
  <1>5. CASE AskCreateUser \/ AskBulkUsers
    BY <1>5, Shows DEF AskCreateUser, AskBulkUsers, AboutItem
  <1>6. ASSUME NEW i \in Items, UserRow(i)
        PROVE  PageStep
    BY <1>m, <1>6, Shows, Sends DEF UserRow, Send
  <1>7. ASSUME NEW i \in Items, SubmitCreateUser(i)
        PROVE  PageStep
    BY <1>m, <1>7, Sends DEF SubmitCreateUser, Send
  <1>8. CASE EditUserForm \/ ConfirmBlockUser
    BY <1>i, <1>m, <1>8, Sends DEF EditUserForm, ConfirmBlockUser, Send, AboutItem
  <1>9. CASE UserDetails
    <2>1. ui.item \in Items
      BY <1>i, <1>9 DEF UserDetails, AboutItem
    <2>2. Fits([ui EXCEPT !.form = FALSE])
      BY DEF Fits, IsPage
    <2>3. QED
      BY <1>m, <1>9, <2>1, <2>2, Shows, Sends DEF UserDetails, Send
  <1>10. CASE ConfirmBulkUsers
    <2>1. Sound(BulkDeleteUsers, ui.selected) /\ Sound(BulkBlockUsers, ui.selected)
      BY <1>k DEF Sound, Tells, BulkDeleteUsers, BulkBlockUsers, Bulk, Mutation, IsOp, Record
    <2>2. QED
      BY <1>10, <2>1, SendsAs DEF ConfirmBulkUsers, Send, Fits, IsPage
  <1>11. QED
    BY <1>1, <1>2, <1>3, <1>4, <1>5, <1>6, <1>7, <1>8, <1>9, <1>10 DEF UsersNext

LEMMA SessionsSteps ==
    ASSUME Fits(ui), area = "sessions", SessionsNext
    PROVE  PageStep
  <1>k. KeysOf(area) = Keys /\ Keys = {"list", "side"}
    BY DEF KeysOf, Keys
  <1>m. Routine(RevokeSession) /\ Routine(RevokeUserSessions) /\ Routine(RevokeAllSessions)
    BY <1>k DEF RevokeSession, RevokeUserSessions, RevokeAllSessions,
                Mutation, Routine, IsOp, Tells, Record
  <1>i. AboutItem(area, ui.dialog) => ui.item \in Items
    BY DEF Fits
  <1>1. CASE OpenSessions
    BY <1>k, <1>1, Goes DEF OpenSessions
  <1>2. CASE FilterSessions \/ CloseSessionDialog
    BY <1>2, CommonSteps DEF FilterSessions, CloseSessionDialog, Common
  <1>3. CASE RefreshSessions
    BY <1>k, <1>3, Refetches DEF RefreshSessions
  <1>4. ASSUME NEW i \in Items, SessionRow(i)
        PROVE  PageStep
    BY <1>4, Shows DEF SessionRow
  <1>5. CASE AskRevokeAllSessions
    BY <1>5, Shows DEF AskRevokeAllSessions, AboutItem
  <1>6. CASE SessionDetail
    BY <1>i, <1>6, Shows DEF SessionDetail, AboutItem
  <1>7. CASE HandleRevoke
    BY <1>i, <1>m, <1>7, SomeItem, ClosedFits, Sends DEF HandleRevoke, AboutItem
  <1>8. QED
    BY <1>1, <1>2, <1>3, <1>4, <1>5, <1>6, <1>7 DEF SessionsNext

LEMMA ConsentsSteps ==
    ASSUME Fits(ui), area = "consents", ConsentsNext
    PROVE  PageStep
  <1>k. KeysOf(area) = {"list"} /\ {"list"} \subseteq Keys
    BY DEF KeysOf, Keys
  <1>i. AboutItem(area, ui.dialog) => ui.item \in Items
    BY DEF Fits
  <1>s. ASSUME NEW u, Fits(u), NEW S \in SUBSET Items, NEW v, v = [u EXCEPT !.selected = S]
        PROVE  Fits(v)
    <2>1. IsPage(v)
      BY <1>s DEF Fits, IsPage
    <2>2. v.reads = u.reads /\ v.dialog = u.dialog /\ v.item = u.item
      BY <1>s DEF Fits, IsPage
    <2>3. QED
      BY <1>s, <2>1, <2>2 DEF Fits
  <1>1. CASE OpenConsents
    BY <1>k, <1>1, Goes DEF OpenConsents
  <1>2. CASE FilterConsents \/ UnselectConsents \/ CloseConsentDialog
    BY <1>2, CommonSteps DEF FilterConsents, UnselectConsents, CloseConsentDialog, Common
  <1>3. ASSUME NEW i \in Items, SelectConsent(i)
        PROVE  PageStep
    BY <1>3, CommonSteps DEF SelectConsent, Common
  <1>4. CASE RefreshConsents
    BY <1>k, <1>4, Refetches DEF RefreshConsents
  <1>t. CASE OpenConsentPolicies \/ OpenConsentsTab
    <2>1. Fits(ui')
      BY <1>t DEF OpenConsentPolicies, OpenConsentsTab, Tab, Fits, IsPage
    <2>2. QED
      BY <1>t, <2>1 DEF OpenConsentPolicies, OpenConsentsTab, Tab, PageStep
  <1>5. CASE SelectAllConsents
    <2>1. Rows \subseteq Items
      BY DEF Rows
    <2>2. Fits(ui')
      BY <1>s, <1>5, <2>1 DEF SelectAllConsents
    <2>3. QED
      BY <1>5, <2>2 DEF SelectAllConsents, PageStep
  <1>6. ASSUME NEW i \in Items, ConsentRow(i) \/ ConsentDetail(i)
        PROVE  PageStep
    BY <1>6, Shows DEF ConsentRow, ConsentDetail
  <1>7. CASE ConfirmRevokeConsent
    <2>1. Routine(RevokeConsent)
      BY <1>k DEF RevokeConsent, Mutation, Routine, IsOp, Tells, Record
    <2>2. QED
      BY <1>i, <1>7, <2>1, Sends DEF ConfirmRevokeConsent, Send, AboutItem
  <1>8. CASE AskRevokeConsents
    BY <1>8, Shows DEF AskRevokeConsents, AboutItem
  <1>9. CASE ConfirmRevokeConsents
    <2> DEFINE is == {i \in ui.selected : Loaded /\ Value(i) # "none"}
    <2>1. CASE Send(RevokeConsents, is)
      <3>1. is \in SUBSET Items
        BY DEF Fits, IsPage
      <3>2. Sound(RevokeConsents, is)
        BY <1>k DEF Sound, Tells, RevokeConsents, Mutation, IsOp, Record
      <3>3. QED
        BY <2>1, <3>1, <3>2, SendsAs DEF Send
    <2>2. CASE ui' = [Closed EXCEPT !.selected = {}] /\ Only
      BY <1>s, <2>2, ClosedFits DEF PageStep
    <2>3. QED
      BY <1>9, <2>1, <2>2 DEF ConfirmRevokeConsents
  <1>10. CASE SaveConsentPolicy
    <2>1. Routine(Mutation("savePolicy", "refused", {}))
      BY DEF Mutation, Routine, IsOp, Tells, Record
    <2>2. QED
      BY <1>10, <2>1, SomeItem, Sends DEF SaveConsentPolicy, Send
  <1>11. QED
    BY <1>1, <1>2, <1>3, <1>4, <1>t, <1>5, <1>6, <1>7, <1>8, <1>9, <1>10 DEF ConsentsNext

LEMMA RbacSteps ==
    ASSUME Fits(ui), area \in {"roles", "assignments"}, RbacNext
    PROVE  PageStep
  <1>k. KeysOf(area) = {"list"} /\ {"list"} \subseteq Keys
    BY DEF KeysOf, Keys
  <1>m. /\ Routine(CreateRole) /\ Routine(UpdateRole) /\ Routine(DeleteRole)
        /\ Routine(AddUserRole) /\ Routine(RemoveUserRole)
    BY <1>k DEF CreateRole, UpdateRole, DeleteRole, AddUserRole, RemoveUserRole, Reassignment,
                Mutation, Routine, IsOp, Tells, Record
  <1>1. CASE OpenRoles
    BY <1>k, <1>1, Goes DEF OpenRoles, Go, Move
  <1>2. CASE OpenAssignments
    <2>1. Go(area, "assignments", FALSE, {})
      BY <1>2 DEF OpenAssignments, Go, Move
    <2>2. QED
      BY <2>1, GoesBlank
  <1>3. CASE SearchRoles \/ RoleForm \/ CloseRoleDialog
    BY <1>3, CommonSteps DEF SearchRoles, RoleForm, CloseRoleDialog, Common
  <1>4. CASE AskCreateRole
    BY <1>4, Shows DEF AskCreateRole, OnRoles, At, AboutItem
  <1>5. CASE TypeUser
    <2>1. Fits(ui')
      BY <1>k, <1>5 DEF TypeUser, Fits, IsPage
    <2>2. QED
      BY <1>5, <2>1 DEF TypeUser, PageStep
  <1>6. CASE LoadUserRoles
    BY <1>k, <1>6, Refetches DEF LoadUserRoles
  <1>7. ASSUME NEW i \in Items, RoleCard(i)
        PROVE  PageStep
    BY <1>m, <1>7, Shows, Sends DEF RoleCard, Send
  <1>8. ASSUME NEW i \in Items, SubmitRole(i) \/ ChangeAssignment(i)
        PROVE  PageStep
    BY <1>m, <1>8, Sends DEF SubmitRole, ChangeAssignment, Send
  <1>9. QED
    BY <1>1, <1>2, <1>3, <1>4, <1>5, <1>6, <1>7, <1>8 DEF RbacNext

LEMMA ScopesSteps ==
    ASSUME Fits(ui), area = "scopes", ScopesNext
    PROVE  PageStep
  <1>k. KeysOf(area) = {"list"} /\ {"list"} \subseteq Keys
    BY DEF KeysOf, Keys
  <1>m. Routine(CreateScope) /\ Routine(UpdateScope) /\ Routine(DeleteScope)
    BY <1>k DEF CreateScope, UpdateScope, DeleteScope, Mutation, Routine, IsOp, Tells, Record
  <1>i. AboutItem(area, ui.dialog) => ui.item \in Items
    BY DEF Fits
  <1>1. CASE OpenScopes
    BY <1>k, <1>1, Goes DEF OpenScopes
  <1>2. CASE SearchScopes \/ ScopeForm \/ CloseScopeDialog
    BY <1>2, CommonSteps DEF SearchScopes, ScopeForm, CloseScopeDialog, Common
  <1>3. CASE RefreshScopes
    BY <1>k, <1>3, Refetches DEF RefreshScopes
  <1>4. ASSUME NEW i \in Items, ScopeCard(i)
        PROVE  PageStep
    BY <1>4, Shows DEF ScopeCard
  <1>5. CASE ScopeDetail
    BY <1>i, <1>5, Shows DEF ScopeDetail, AboutItem
  <1>6. CASE AskCreateScope
    BY <1>6, Shows DEF AskCreateScope, AboutItem
  <1>7. ASSUME NEW i \in Items, HandleCreateScope(i)
        PROVE  PageStep
    BY <1>m, <1>7, Sends DEF HandleCreateScope, Send
  <1>8. CASE HandleUpdateScope \/ HandleDeleteScope
    BY <1>i, <1>m, <1>8, Sends DEF HandleUpdateScope, HandleDeleteScope, Send, AboutItem
  <1>9. QED
    BY <1>1, <1>2, <1>3, <1>4, <1>5, <1>6, <1>7, <1>8 DEF ScopesNext

LEMMA ClaimsSteps ==
    ASSUME Fits(ui), area = "claims", ClaimsNext
    PROVE  PageStep
  <1>k. KeysOf(area) = {"list"} /\ {"list"} \subseteq Keys
    BY DEF KeysOf, Keys
  <1>m. Routine(CreateClaim) /\ Routine(DeleteClaim) /\ Routine(UpdateClaimSettings)
    BY <1>k DEF CreateClaim, DeleteClaim, UpdateClaimSettings,
                Mutation, Routine, IsOp, Tells, Record
  <1>r. ASSUME NEW r \in {"on", "off"}
        PROVE  Routine(ToggleStandard(r)) /\ Routine(UpdateClaim(r))
    BY <1>k DEF ToggleStandard, UpdateClaim, Mutation, Routine, IsOp, Tells, Record
  <1>o. \A r : Opposite(r) \in {"on", "off"}
    BY DEF Opposite
  <1>f. ui.form \in BOOLEAN /\ (AboutItem(area, ui.dialog) => ui.item \in Items)
    BY DEF Fits, IsPage
  <1>1. CASE OpenClaims
    BY <1>k, <1>1, Goes DEF OpenClaims
  <1>2. CASE ClaimEditorDialog \/ CloseClaimDialog
    BY <1>2, CommonSteps DEF ClaimEditorDialog, CloseClaimDialog, Common
  <1>3. CASE HandleSettingsChange
    BY <1>m, <1>3, SomeItem, Sends DEF HandleSettingsChange, Send
  <1>4. CASE AskCreateClaim
    BY <1>f, <1>4, Shows DEF AskCreateClaim, AboutItem
  <1>5. CASE HandleDeleteClaim
    BY <1>f, <1>m, <1>5, Sends DEF HandleDeleteClaim, Send, AboutItem
  <1>6. ASSUME NEW i \in Items, HandleToggleStandardClaim(i) \/ HandleToggleCustomClaim(i)
        PROVE  PageStep
    BY <1>o, <1>r, <1>6, Sends DEF HandleToggleStandardClaim, HandleToggleCustomClaim, Send
  <1>7. ASSUME NEW i \in Items, ClaimRow(i)
        PROVE  PageStep
    BY <1>f, <1>7, Shows DEF ClaimRow
  <1>8. ASSUME NEW i \in Items, SubmitClaim(i)
        PROVE  PageStep
    BY <1>m, <1>r, <1>8, ClosedFits, Sends DEF SubmitClaim
  <1>9. QED
    BY <1>1, <1>2, <1>3, <1>4, <1>5, <1>6, <1>7, <1>8 DEF ClaimsNext

LEMMA ClientsSteps ==
    ASSUME Fits(ui), area = "clients", ClientsNext
    PROVE  PageStep
  <1>k. KeysOf(area) = Keys /\ Keys = {"list", "side"}
    BY DEF KeysOf, Keys
  <1>m. \A i \in Items : /\ Sound(CreateClient, {i}) /\ Sound(RefusedClient, {i})
                         /\ Sound(DeleteClient, {i}) /\ Sound(RotateSecret, {i})
    <2>1. /\ IsOp(CreateClient) /\ CreateClient.ok \cup CreateClient.misses = Keys
          /\ IsOp(RefusedClient) /\ RefusedClient.makes = "refused"
          /\ IsOp(DeleteClient) /\ DeleteClient.ok \cup DeleteClient.misses = Keys
          /\ IsOp(RotateSecret) /\ RotateSecret.makes = "hidden"
      BY <1>k DEF CreateClient, RefusedClient, DeleteClient, RotateSecret, Mutation, IsOp, Record
    <2>2. QED
      BY <1>k, <2>1 DEF Sound, Tells
  <1>i. AboutItem(area, ui.dialog) => ui.item \in Items
    BY DEF Fits
  <1>1. CASE OpenClients \/ ClientPage
    BY <1>k, <1>1, Goes DEF OpenClients, ClientPage
  <1>2. CASE SearchClients \/ CloseClientDialog
    BY <1>2, CommonSteps DEF SearchClients, CloseClientDialog, Common
  <1>3. CASE RefreshClients
    BY <1>k, <1>3, Refetches DEF RefreshClients
  <1>4. CASE AskCreateClient
    BY <1>4, Shows DEF AskCreateClient, AboutItem
  <1>5. ASSUME NEW i \in Items, ClientRow(i)
        PROVE  PageStep
    BY <1>5, Shows DEF ClientRow
  <1>6. CASE HandleDeleteClient \/ HandleRotateSecret
    <2>1. ui.item \in Items
      BY <1>i, <1>6 DEF HandleDeleteClient, HandleRotateSecret, AboutItem
    <2>2. QED
      BY <1>m, <1>6, <2>1, SendsAs DEF HandleDeleteClient, HandleRotateSecret, Send
  <1>7. CASE ConfirmSecret
    <2>1. Fits(ui')
      BY <1>7 DEF ConfirmSecret, Fits, IsPage
    <2>2. QED
      BY <1>7, <2>1 DEF ConfirmSecret, PageStep
  <1>8. CASE HandleDone
    <2>1. Move(area, "clients", FALSE, {"list"}) /\ UNCHANGED events
      BY <1>8 DEF HandleDone
    <2>2. {"list"} \in SUBSET KeysOf(area)
      BY <1>k
    <2>3. QED
      BY <2>1, <2>2 DEF PageStep
  <1>9. ASSUME NEW i \in Items, HandleWizardSubmit(i)
        PROVE  PageStep
    BY <1>m, <1>9, SendsAs DEF HandleWizardSubmit, Send
  <1>10. QED
    BY <1>1, <1>2, <1>3, <1>4, <1>5, <1>6, <1>7, <1>8, <1>9 DEF ClientsNext

LEMMA TenantsSteps ==
    ASSUME Fits(ui), area = "tenants", TenantsNext
    PROVE  PageStep
  <1>k. KeysOf(area) = Keys /\ Keys = {"list", "side"}
    BY DEF KeysOf, Keys
  <1>i. AboutItem(area, ui.dialog) => ui.item \in Items
    BY DEF Fits
  <1>1. CASE OpenTenants \/ OpenDashboard \/ OpenTenant
    BY <1>k, <1>1, Goes DEF OpenTenants, OpenDashboard, OpenTenant
  <1>2. CASE SearchTenants \/ CloseTenantDialog
    BY <1>2, CommonSteps DEF SearchTenants, CloseTenantDialog, Common
  <1>3. CASE RefreshTenants
    BY <1>k, <1>3, Refetches DEF RefreshTenants
  <1>4. CASE HandleDeleteTenant
    <2>1. Routine(DeleteTenant)
      BY <1>k DEF DeleteTenant, Mutation, Routine, IsOp, Tells, Record
    <2>2. QED
      BY <1>i, <1>4, <2>1, Sends DEF HandleDeleteTenant, Send, AboutItem
  <1>5. CASE AskCreateTenant
    BY <1>5, Shows DEF AskCreateTenant, AboutItem
  <1>6. ASSUME NEW i \in Items, TenantRow(i)
        PROVE  PageStep
    BY <1>6, Shows DEF TenantRow
  <1>7. QED
    BY <1>1, <1>2, <1>3, <1>4, <1>5, <1>6 DEF TenantsNext

\* The steps of the wizard of tenants that send something.
LEMMA SetupSends ==
    ASSUME Fits(ui), SetupTestConnection \/ \E i \in Items : HandleCreateTenant(i)
    PROVE  PageStep
  <1>k. KeysOf(area) = Keys /\ Keys = {"list", "side"}
    BY DEF KeysOf, Keys, SetupTestConnection, HandleCreateTenant, InSetup
  <1>1. Routine(TestConnection) /\ Routine(CreateTenant)
    BY <1>k DEF TestConnection, CreateTenant, Mutation, Routine, IsOp, Tells, Record
  <1>2. QED
    BY <1>1, SomeItem, Sends DEF SetupTestConnection, HandleCreateTenant, Send

LEMMA KeysSteps ==
    ASSUME Fits(ui), area = "keys", KeysNext
    PROVE  PageStep
  <1>k. KeysOf(area) = Keys /\ Keys = {"list", "side"}
    BY DEF KeysOf, Keys
  <1>m. Routine(RotateKey) /\ Routine(RevokeKey)
    BY <1>k DEF RotateKey, RevokeKey, Mutation, Routine, IsOp, Tells, Record
  <1>i. AboutItem(area, ui.dialog) => ui.item \in Items
    BY DEF Fits
  <1>1. CASE OpenKeys
    BY <1>k, <1>1, Goes DEF OpenKeys
  <1>2. CASE CloseKeyDialog
    BY <1>2, CommonSteps DEF CloseKeyDialog, Common
  <1>3. CASE RefreshKeys
    BY <1>k, <1>3, Refetches DEF RefreshKeys
  <1>4. CASE AskRotateKey
    BY <1>4, Shows DEF AskRotateKey, AboutItem
  <1>5. CASE ConfirmRotateKey
    BY <1>m, <1>5, SomeItem, Sends DEF ConfirmRotateKey, Send
  <1>6. CASE HandleRevokeConfirm
    BY <1>i, <1>m, <1>6, Sends DEF HandleRevokeConfirm, Send, AboutItem
  <1>7. ASSUME NEW i \in Items, HandleRevokeClick(i)
        PROVE  PageStep
    BY <1>7, Shows DEF HandleRevokeClick
  <1>8. QED
    BY <1>1, <1>2, <1>3, <1>4, <1>5, <1>6, <1>7 DEF KeysNext

LEMMA ClusterSteps ==
    ASSUME Fits(ui), area = "cluster", ClusterNext
    PROVE  PageStep
  <1>k. KeysOf(area) = Keys /\ Keys = {"list", "side"}
    BY DEF KeysOf, Keys
  <1>m. Routine(AddNode) /\ Routine(RemoveNode)
    BY <1>k DEF AddNode, RemoveNode, Mutation, Routine, IsOp, Tells, Record
  <1>f. ui.form \in BOOLEAN /\ (AboutItem(area, ui.dialog) => ui.item \in Items)
    BY DEF Fits, IsPage
  <1>1. CASE OpenCluster
    BY <1>k, <1>1, Goes DEF OpenCluster
  <1>2. CASE AutoRefresh \/ NewNodeForm \/ CloseNodeDialog
    BY <1>2, CommonSteps DEF AutoRefresh, NewNodeForm, CloseNodeDialog, Common
  <1>3. ASSUME RefreshHealth \/ \E k \in Keys : Poll(k)
        PROVE  PageStep
    BY <1>k, <1>3, Refetches DEF RefreshHealth, Poll
  <1>4. CASE AskAddNode
    BY <1>f, <1>4, Shows DEF AskAddNode, AboutItem
  <1>5. ASSUME NEW i \in Items, AskRemoveNode(i)
        PROVE  PageStep
    BY <1>f, <1>5, Shows DEF AskRemoveNode
  <1>6. ASSUME NEW i \in Items, HandleAddNode(i)
        PROVE  PageStep
    BY <1>m, <1>6, Sends DEF HandleAddNode, Send
  <1>7. CASE ConfirmRemoveNode
    BY <1>f, <1>m, <1>7, Sends DEF ConfirmRemoveNode, Send, AboutItem
  <1>8. QED
    BY <1>1, <1>2, <1>3, <1>4, <1>5, <1>6, <1>7 DEF ClusterNext

\* Any step of the application is one of these kinds.
LEMMA StepKinds ==
    ASSUME Fits(ui), [Next]_<<vars, wizard, setup>>
    PROVE  \/ Shared
           \/ PageStep
           \/ UNCHANGED vars
  <1>1. CASE Pages
    BY <1>1, TokensSteps, UsersSteps, SessionsSteps, ConsentsSteps, RbacSteps, ScopesSteps,
       ClaimsSteps, ClientsSteps, TenantsSteps, KeysSteps, ClusterSteps DEF Pages
  <1>2. CASE SetupNext
    BY <1>2, SetupSends
       DEF SetupNext, SetupBasics, ExpandableSection, SetupNextStep, SetupBack, ResetSetup
  <1>3. CASE WizardNext
    BY <1>3 DEF WizardNext, HandleNext, HandleBack, WizardStepper, HandleSubTypeSelect,
       StepBasicInfo, UriList, HandleAddDevUris, StepReview, OnStep, Stays
  <1>4. QED
    BY <1>1, <1>2, <1>3 DEF Next

-----------------------------------------------------------------------------
(* What is inductive.  Fresh data, and an answer that will count as fresh,  *)
(* has every confirmed write; a mutation under way accounts for each of its *)
(* records, to be done, done, or failed.                                    *)

Current(k) ==
    /\ ~cache[k].stale => cache[k].data # NoData /\ cache[k].data.ver >= seen[k]
    /\ gets[k] \notin {NoData, Asked} => gets[k].ver >= seen[k]
    /\ k \notin KeysOf(area) => cache[k].stale /\ gets[k] = NoData

DataInv ==
    /\ stored \in [Items -> Record] /\ version \in Nat
    /\ cache \in [Keys -> [data: Snapshot \cup {NoData}, stale: BOOLEAN]]
    /\ gets \in [Keys -> Snapshot \cup {NoData, Asked}]
    /\ seen \in [Keys -> 0..version]
    /\ \A k \in Keys : Current(k)

Accounts(c) ==
    /\ c.failed <=> c.items # c.todo \cup c.queue \cup c.done
    /\ c.done \cap (c.todo \cup c.queue) = {}
    /\ c.op.makes = "refused" => c.done = {} /\ (c.failed \/ c.todo # {})

CallInv(c) == IsCall(c) /\ Sound(c.op, c.items) /\ Accounts(c)

AppInv ==
    /\ area \in Areas /\ events \in 0..MaxEvents[area]
    /\ Fits(ui)
    /\ DataInv
    /\ \A c \in calls : CallInv(c)

LEMMA AppTypes ==
    ASSUME AppInv
    PROVE  TypeOK
  BY DEF AppInv, TypeOK, DataInv, CallInv, Fits

-----------------------------------------------------------------------------
(* Queries                                                                  *)

\* Data marked stale, fetches begun: nothing else, unless a mutation is
\* confirmed, and then each query it tells is stale and fetched anew.
LEMMA AskData ==
    ASSUME DataInv, NEW ks \in SUBSET Keys, UNCHANGED <<area, stored, version>>,
           cache' \in [Keys -> [data: Snapshot \cup {NoData}, stale: BOOLEAN]],
           gets' \in [Keys -> Snapshot \cup {NoData, Asked}],
           \A k \in Keys : /\ cache'[k].data = cache[k].data
                           /\ (cache[k].stale \/ k \in ks) => cache'[k].stale
                           /\ gets'[k] = gets[k] \/ (gets'[k] = Asked /\ k \in KeysOf(area)),
           \/ UNCHANGED seen
           \/ \E c : /\ c.op.makes # "refused" /\ Tells(c.op, ks) /\ Confirm(c)
                    /\ \A k \in ks \cap ui.reads :
                          (cache[k].data # NoData \/ gets[k] = NoData) => gets'[k] = Asked
    PROVE  DataInv'
  <1>1. \A k \in Keys : seen'[k] = seen[k] \/ seen'[k] = version
    BY DEF Confirm
  <1>2. seen' \in [Keys -> 0..version]
    BY <1>1 DEF Confirm, DataInv
  <1>3. ASSUME NEW k \in Keys, seen'[k] = seen[k]
        PROVE  Current(k)'
    BY <1>3 DEF DataInv, Current, KeysOf
  <1>4. ASSUME NEW k \in Keys, seen'[k] # seen[k]
        PROVE  Current(k)'
    <2>1. PICK c : /\ c.op.makes # "refused" /\ Tells(c.op, ks) /\ Confirm(c)
                   /\ \A j \in ks \cap ui.reads :
                          (cache[j].data # NoData \/ gets[j] = NoData) => gets'[j] = Asked
      BY <1>4
    <2>2. /\ c.op.makes # "hidden" /\ k \notin c.op.misses
          /\ ~(gets[k] # NoData /\ (k \notin ui.reads \/ cache[k].data = NoData))
      BY <1>4, <2>1 DEF Confirm
    <2>3. CASE k \in ks
      BY <2>1, <2>2, <2>3 DEF DataInv, Current, KeysOf
    <2>4. CASE k \notin KeysOf(area)
      BY <2>4 DEF DataInv, Current, KeysOf
    <2>5. QED
      BY <2>1, <2>2, <2>3, <2>4 DEF Tells
  <1>5. QED
    BY <1>2, <1>3, <1>4 DEF DataInv

LEMMA QuietData ==
    ASSUME DataInv, UNCHANGED <<area, stored, version, seen>>,
           cache' \in [Keys -> [data: Snapshot \cup {NoData}, stale: BOOLEAN]],
           gets' \in [Keys -> Snapshot \cup {NoData, Asked}],
           \A k \in Keys : /\ cache'[k].data = cache[k].data
                           /\ cache[k].stale => cache'[k].stale
                           /\ gets'[k] = gets[k] \/ (gets'[k] = Asked /\ k \in KeysOf(area))
    PROVE  DataInv'
  BY DEF DataInv, Current, KeysOf

LEMMA QueryData ==
    ASSUME DataInv, NEW k \in Keys, Serve(k) \/ Arrive(k) \/ GetFails(k) \/ Expire(k)
    PROVE  DataInv'
  <1>1. UNCHANGED <<area, stored, version, seen>>
    BY DEF Serve, Arrive, GetFails, Expire
  <1>2. CASE Serve(k)
    <2>1. [val |-> stored, ver |-> version] \in Snapshot
      BY DEF DataInv, Snapshot
    <2>2. /\ gets' = [gets EXCEPT ![k] = [val |-> stored, ver |-> version]]
          /\ gets[k] = Asked /\ cache' = cache
      BY <1>2 DEF Serve
    <2>3. version >= seen[k]
      BY DEF DataInv
    <2>4. k \in KeysOf(area)
      BY <2>2, ConstantsAssumption DEF DataInv, Current
    <2>5. \A j \in Keys : Current(j)'
      BY <1>1, <2>2, <2>3, <2>4 DEF DataInv, Current, KeysOf
    <2>6. QED
      BY <1>1, <2>1, <2>2, <2>5 DEF DataInv
  <1>3. CASE Arrive(k)
    <2>1. /\ cache' = [cache EXCEPT ![k] = [data |-> gets[k], stale |-> FALSE]]
          /\ gets' = [gets EXCEPT ![k] = NoData] /\ gets[k] \notin {NoData, Asked}
      BY <1>3 DEF Arrive
    <2>2. \A j \in Keys : Current(j)'
      BY <1>1, <2>1 DEF DataInv, Current, KeysOf
    <2>3. QED
      BY <1>1, <2>1, <2>2 DEF DataInv
  <1>4. CASE GetFails(k)
    <2>1. gets' = [gets EXCEPT ![k] = NoData] /\ cache' = cache
      BY <1>4 DEF GetFails
    <2>2. \A j \in Keys : Current(j)'
      BY <1>1, <2>1 DEF DataInv, Current, KeysOf
    <2>3. QED
      BY <1>1, <2>1, <2>2 DEF DataInv
  <1>5. CASE Expire(k)
    <2>1. cache' = [cache EXCEPT ![k].stale = TRUE] /\ gets' = gets
      BY <1>5 DEF Expire
    <2>2. QED
      BY <1>1, <2>1, QuietData DEF DataInv
  <1>6. QED
    BY <1>2, <1>3, <1>4, <1>5

LEMMA FetchTypes ==
    ASSUME DataInv, Fits(ui), NEW ks
    PROVE  /\ Refetched(ks) \in [Keys -> Snapshot \cup {NoData, Asked}]
           /\ \A k \in Keys : \/ Refetched(ks)[k] = gets[k]
                              \/ Refetched(ks)[k] = Asked /\ k \in ks
           /\ Told(ks) \in [Keys -> [data: Snapshot \cup {NoData}, stale: BOOLEAN]]
           /\ \A k \in Keys : /\ Told(ks)[k].data = cache[k].data
                              /\ (cache[k].stale \/ k \in ks) => Told(ks)[k].stale
  BY DEF DataInv, Refetched, Told

LEMMA PageData ==
    ASSUME AppInv, PageStep
    PROVE  DataInv'
  <1>1. CASE UNCHANGED <<area, stored, version, cache, gets, seen>>
    BY <1>1 DEF AppInv, DataInv, Current, KeysOf
  <1>2. ASSUME NEW at, NEW n \in BOOLEAN, NEW ks \in SUBSET KeysOf(area), Move(area, at, n, ks)
        PROVE  DataInv'
    <2>1. /\ gets' = Mounted(ui', cache, gets) /\ ui'.reads = ks
          /\ UNCHANGED <<area, stored, version, cache, seen>>
      BY <1>2 DEF Move, Blank
    <2>2. gets' \in [Keys -> Snapshot \cup {NoData, Asked}]
      BY <2>1 DEF AppInv, DataInv, Mounted
    <2>3. \A k \in Keys : gets'[k] = gets[k] \/ (gets'[k] = Asked /\ k \in KeysOf(area))
      BY <2>1 DEF Mounted
    <2>4. QED
      BY <2>1, <2>2, <2>3, QuietData DEF AppInv, DataInv
  <1>3. ASSUME NEW k \in Keys, Refetch(k)
        PROVE  DataInv'
    <2>1. /\ gets' = Refetched({k}) /\ k \in KeysOf(area)
          /\ UNCHANGED <<area, stored, version, cache, seen>>
      BY <1>3 DEF Refetch, AppInv, Fits
    <2>2. /\ gets' \in [Keys -> Snapshot \cup {NoData, Asked}]
          /\ \A j \in Keys : gets'[j] = gets[j] \/ (gets'[j] = Asked /\ j \in KeysOf(area))
      BY <2>1, FetchTypes DEF AppInv
    <2>3. QED
      BY <2>1, <2>2, QuietData DEF AppInv, DataInv
  <1>4. QED
    BY <1>1, <1>2, <1>3 DEF PageStep, Only, SendAs

-----------------------------------------------------------------------------
(* Mutations under way                                                      *)

LEMMA CallStays ==
    ASSUME UNCHANGED area, NEW c, CallInv(c)
    PROVE  CallInv(c)'
  BY DEF CallInv, Sound, Tells, KeysOf, Accounts, IsCall, IsOp

LEMMA RequestCall ==
    ASSUME NEW m, NEW is \in SUBSET Items, is # {}, Sound(m, is), events \in Nat,
           NEW first, first \in IF m.mode = "one by one" THEN {{i} : i \in is} ELSE {is}
    PROVE  CallInv(Request(m, is, first))
  <1>1. first \subseteq is /\ first # {}
    OBVIOUS
  <1>2. IsOp(m)
    BY DEF Sound
  <1>3. IsCall(Request(m, is, first))
    BY <1>1, <1>2 DEF IsCall, Request
  <1>4. Accounts(Request(m, is, first))
    BY <1>1 DEF Accounts, Request
  <1>5. Request(m, is, first).op = m /\ Request(m, is, first).items = is
    BY DEF Request
  <1>6. QED
    BY <1>3, <1>4, <1>5 DEF CallInv

\* A request is carried out, with its answer or without, or not at all.
LEMMA DoneCall ==
    ASSUME NEW c, CallInv(c), NEW i \in c.todo, Accepted(c, i),
           NEW d, d = [c EXCEPT !.todo = @ \ {i}, !.done = @ \cup {i}]
    PROVE  CallInv(d)
  <1>1. c.op.makes # "refused"
    BY DEF Accepted
  <1>2. /\ d.op = c.op /\ d.items = c.items /\ d.todo = c.todo \ {i} /\ d.queue = c.queue
        /\ d.done = c.done \cup {i} /\ d.failed = c.failed
    BY DEF CallInv, IsCall
  <1>3. d.todo \cup d.queue \cup d.done = c.todo \cup c.queue \cup c.done
    BY <1>2
  <1>4. IsCall(d)
    BY <1>2, <1>3 DEF CallInv, IsCall
  <1>5. Accounts(d)
    BY <1>1, <1>2, <1>3 DEF CallInv, IsCall, Accounts
  <1>6. QED
    BY <1>2, <1>4, <1>5 DEF CallInv

LEMMA LostCall ==
    ASSUME NEW c, CallInv(c), NEW i \in c.todo,
           NEW d, d = [c EXCEPT !.todo = @ \ {i}, !.failed = TRUE]
    PROVE  CallInv(d)
  <1>1. /\ d.op = c.op /\ d.items = c.items /\ d.todo = c.todo \ {i} /\ d.queue = c.queue
        /\ d.done = c.done /\ d.failed = TRUE
    BY DEF CallInv, IsCall
  <1>2. i \in c.items /\ i \notin d.todo \cup d.queue \cup d.done
    BY <1>1 DEF CallInv, IsCall, Accounts
  <1>3. IsCall(d)
    BY <1>1 DEF CallInv, IsCall
  <1>4. Accounts(d)
    BY <1>1, <1>2 DEF CallInv, IsCall, Accounts
  <1>5. QED
    BY <1>1, <1>3, <1>4 DEF CallInv

LEMMA NextCall ==
    ASSUME NEW c, CallInv(c), Over(c), ~c.failed, NEW i \in c.queue,
           NEW d, d = [c EXCEPT !.todo = {i}, !.queue = @ \ {i}]
    PROVE  CallInv(d)
  <1>1. c.todo = {}
    BY DEF Over
  <1>2. /\ d.op = c.op /\ d.items = c.items /\ d.todo = {i} /\ d.queue = c.queue \ {i}
        /\ d.done = c.done /\ d.failed = c.failed
    BY DEF CallInv, IsCall
  <1>3. d.todo \cup d.queue \cup d.done = c.todo \cup c.queue \cup c.done
    BY <1>1, <1>2
  <1>4. IsCall(d)
    BY <1>2, <1>3 DEF CallInv, IsCall
  <1>5. Accounts(d)
    BY <1>2, <1>3 DEF CallInv, IsCall, Accounts
  <1>6. QED
    BY <1>2, <1>4, <1>5 DEF CallInv

LEMMA GivenUpCall ==
    ASSUME NEW c, CallInv(c),
           NEW d, d = [c EXCEPT !.op.mode = "all", !.op.bad = {}, !.op.misses = Keys,
                                !.mine = FALSE]
    PROVE  CallInv(d)
  <1>1. /\ d.items = c.items /\ d.todo = c.todo /\ d.queue = c.queue
        /\ d.done = c.done /\ d.failed = c.failed
        /\ d.op = [c.op EXCEPT !.mode = "all", !.bad = {}, !.misses = Keys]
    BY DEF CallInv, IsCall
  <1>2. IsOp(d.op) /\ d.op.misses = Keys /\ d.op.makes = c.op.makes /\ d.op.goes = c.op.goes
    BY <1>1 DEF CallInv, IsCall, IsOp
  <1>3. IsCall(d)
    BY <1>1, <1>2 DEF CallInv, IsCall
  <1>4. KeysOf(area) \subseteq Keys
    BY DEF KeysOf, Keys
  <1>5. Sound(d.op, d.items)
    BY <1>1, <1>2, <1>4 DEF CallInv, Sound, Tells
  <1>6. Accounts(d)
    BY <1>1, <1>2 DEF CallInv, Accounts
  <1>7. QED
    BY <1>3, <1>5, <1>6 DEF CallInv

LEMMA AbandonedCalls ==
    ASSUME NEW cs, \A c \in cs : CallInv(c)
    PROVE  \A d \in Abandoned(cs) : CallInv(d)
  <1>1. ASSUME NEW c \in cs, NEW d, d = [c EXCEPT !.mine = FALSE]
        PROVE  CallInv(d)
    <2>1. CallInv(c)
      OBVIOUS
    <2>2. /\ d.op = c.op /\ d.items = c.items /\ d.todo = c.todo /\ d.queue = c.queue
          /\ d.done = c.done /\ d.failed = c.failed
      BY <1>1, <2>1 DEF CallInv, IsCall
    <2>3. IsCall(d)
      BY <1>1, <2>1, <2>2 DEF CallInv, IsCall
    <2>4. QED
      BY <2>1, <2>2, <2>3 DEF CallInv, Accounts
  <1>2. QED
    BY <1>1 DEF Abandoned

-----------------------------------------------------------------------------
(* A control of a page, and what the server does                            *)

LEMMA PageInvariant ==
    ASSUME AppInv, PageStep
    PROVE  AppInv'
  <1>1. DataInv'
    BY PageData
  <1>2. UNCHANGED area
    BY DEF PageStep, Only, Move, Refetch, SendAs
  <1>3. events \in Nat /\ events' \in 0..MaxEvents[area]
    <2>1. Event \/ UNCHANGED events
      BY DEF PageStep, Only, Refetch, SendAs
    <2>2. MaxEvents[area] \in Nat
      BY ConstantsAssumption DEF AppInv
    <2>3. QED
      BY <2>1, <2>2 DEF Event, AppInv
  <1>4. ASSUME Fits(ui')
        PROVE  Fits(ui)'
    BY <1>2, <1>4 DEF Fits, IsPage, AboutItem, KeysOf
  <1>5. CASE Fits(ui') /\ Only
    BY <1>1, <1>2, <1>3, <1>4, <1>5, CallStays DEF Only, AppInv
  <1>6. ASSUME NEW at, NEW n \in BOOLEAN, NEW ks \in SUBSET KeysOf(area), Move(area, at, n, ks)
        PROVE  AppInv'
    <2>1. Fits(ui')
      BY <1>6 DEF Move, Blank, Fits, IsPage, AboutItem, KeysOf, Keys
    <2>2. \A c \in calls' : CallInv(c)
      BY <1>6, AbandonedCalls DEF Move, AppInv
    <2>3. QED
      BY <1>1, <1>2, <1>3, <1>4, <2>1, <2>2, CallStays DEF AppInv
  <1>7. ASSUME NEW k \in Keys, Refetch(k)
        PROVE  AppInv'
    <2>1. ui' = ui /\ calls' = calls
      BY <1>7 DEF Refetch
    <2>2. QED
      BY <1>1, <1>2, <1>3, <1>4, <2>1, CallStays DEF AppInv
  <1>8. ASSUME NEW u, NEW m, NEW is \in SUBSET Items, SendAs(u, m, is), Fits(u), Sound(m, is)
        PROVE  AppInv'
    <2>1. PICK first \in (IF m.mode = "one by one" THEN {{i} : i \in is} ELSE {is}) :
             is # {} /\ calls' = calls \cup {Request(m, is, first)} /\ ui' = u
      BY <1>8 DEF SendAs
    <2>2. \A c \in calls' : CallInv(c)
      BY <1>3, <1>8, <2>1, RequestCall DEF AppInv
    <2>3. QED
      BY <1>1, <1>2, <1>3, <1>4, <1>8, <2>1, <2>2, CallStays DEF AppInv
  <1>9. QED
    BY <1>5, <1>6, <1>7, <1>8 DEF PageStep

LEMMA QueryInvariant ==
    ASSUME AppInv, NEW k \in Keys, Serve(k) \/ Arrive(k) \/ GetFails(k) \/ Expire(k)
    PROVE  AppInv'
  <1>1. DataInv'
    BY QueryData DEF AppInv
  <1>2. UNCHANGED <<area, ui, calls, events>>
    BY DEF Serve, Arrive, GetFails, Expire
  <1>3. QED
    BY <1>1, <1>2, CallStays DEF AppInv, Fits, IsPage, AboutItem, KeysOf

\* The records change, nothing the page knows does.
LEMMA WriteData ==
    ASSUME DataInv, stored' \in [Items -> Record],
           version' = version \/ version' = version + 1,
           UNCHANGED <<area, cache, gets, seen>>
    PROVE  DataInv'
  BY DEF DataInv, Current, KeysOf

LEMMA CarryData ==
    ASSUME DataInv, NEW c, IsCall(c), NEW i, Carry(c, i)
    PROVE  DataInv'
  <1>1. /\ i \in Items /\ Accepted(c, i)
        /\ c.op.makes \in Record \cup {"new", "put", "same", "hidden", "all off", "refused"}
    BY DEF Carry, IsCall, IsOp
  <1>2. stored \in [Items -> Record]
    BY DEF DataInv
  <1>3. CASE c.op.makes = "all off"
    BY <1>2, <1>3, WriteData DEF Carry, Record
  <1>4. CASE c.op.makes # "all off"
    <2>1. c.op.makes # "refused"
      BY <1>1 DEF Accepted
    <2>2. Result(c, i) \in Record
      BY <1>1, <1>2, <1>4, <2>1 DEF Result, Record
    <2>3. QED
      BY <1>1, <1>2, <1>4, <2>2, WriteData DEF Carry
  <1>5. QED
    BY <1>3, <1>4

LEMMA ServerInvariant ==
    ASSUME AppInv, NEW c \in calls, NEW i \in c.todo, Do(c, i) \/ LoseAnswer(c, i) \/ Refuse(c, i)
    PROVE  AppInv'
  <1>1. CallInv(c) /\ IsCall(c) /\ DataInv
    BY DEF AppInv, CallInv
  <1>2. DataInv'
    <2>1. CASE Refuse(c, i)
      BY <1>1, <2>1, WriteData DEF Refuse, DataInv
    <2>2. CASE Carry(c, i)
      BY <1>1, <2>2, CarryData
    <2>3. QED
      BY <2>1, <2>2 DEF Do, LoseAnswer
  <1>3. UNCHANGED <<area, ui, events>>
    BY DEF Do, LoseAnswer, Refuse, Carry
  <1>4. PICK d : CallInv(d) /\ Becomes(c, d)
    BY <1>1, DoneCall, LostCall DEF Do, LoseAnswer, Refuse, Carry
  <1>5. \A e \in calls' : CallInv(e)
    BY <1>4 DEF Becomes, AppInv
  <1>6. QED
    BY <1>2, <1>3, <1>5, CallStays DEF AppInv, Fits, IsPage, AboutItem, KeysOf

LEMMA OthersInvariant ==
    ASSUME AppInv, NEW i \in Items, NEW r \in Record, OthersWrite(i, r)
    PROVE  AppInv'
  <1>1. DataInv'
    BY WriteData DEF OthersWrite, AppInv, DataInv
  <1>2. MaxEvents[area] \in Nat
    BY ConstantsAssumption DEF AppInv
  <1>3. events' \in 0..MaxEvents[area] /\ UNCHANGED <<area, ui, calls>>
    BY <1>2 DEF OthersWrite, Event, AppInv
  <1>4. QED
    BY <1>1, <1>3, CallStays DEF AppInv, Fits, IsPage, AboutItem, KeysOf

-----------------------------------------------------------------------------
(* A mutation is reported done, or failed                                   *)

\* The page that success leaves, by the mutation it goes with.
LEMMA SuccessPage ==
    ASSUME AppInv, NEW c \in calls, Succeed(c)
    PROVE  Fits(ui')
  <1>1. Fits(ui) /\ Sound(c.op, c.items) /\ ui' = Page(c)
    BY DEF AppInv, CallInv, Succeed
  <1>2. CASE ui' = [Blank EXCEPT !.at = c.op.goes, !.reads = {"side"}] /\ c.op.goes # Nowhere
    <2>1. KeysOf(area) = Keys
      BY <1>1, <1>2 DEF Sound
    <2>2. QED
      BY <1>2, <2>1 DEF Blank, Fits, IsPage, AboutItem, Keys
  <1>3. ASSUME NEW u \in {ui, Closed}, ui' = [u EXCEPT !.selected = IF c.op.clears THEN {} ELSE @]
        PROVE  Fits(ui')
    <2>1. Fits(u)
      BY <1>1, <1>3, ClosedFits
    <2>2. IsPage(ui')
      BY <1>3, <2>1 DEF Fits, IsPage
    <2>3. ui'.reads = u.reads /\ ui'.dialog = u.dialog /\ ui'.item = u.item
      BY <1>3, <2>1 DEF Fits, IsPage
    <2>4. QED
      BY <2>1, <2>2, <2>3 DEF Fits
  <1>4. QED
    BY <1>1, <1>2, <1>3 DEF Page

LEMMA SuccessData ==
    ASSUME AppInv, NEW c \in calls, Succeed(c)
    PROVE  DataInv'
  <1> DEFINE ks == c.op.ok \cap ui.reads
  <1>1. /\ DataInv /\ Fits(ui) /\ Fits(ui')
        /\ IsOp(c.op) /\ Tells(c.op, c.op.ok) /\ c.op.ok \in SUBSET Keys
    BY SuccessPage DEF AppInv, CallInv, Sound, IsOp
  <1>2. c.op.makes # "refused"
    BY DEF AppInv, CallInv, Accounts, Succeed, Over
  <1>3. /\ cache' = Told(c.op.ok) /\ Confirm(c)
        /\ gets' = IF ui'.at = ui.at THEN Refetched(ks) ELSE Mounted(ui', cache', Refetched(ks))
        /\ UNCHANGED <<area, stored, version>>
    BY DEF Succeed
  <1>4. /\ Refetched(ks) \in [Keys -> Snapshot \cup {NoData, Asked}]
        /\ \A k \in Keys : \/ Refetched(ks)[k] = gets[k]
                           \/ Refetched(ks)[k] = Asked /\ k \in ks
    BY <1>1, FetchTypes
  <1>5. /\ cache' \in [Keys -> [data: Snapshot \cup {NoData}, stale: BOOLEAN]]
        /\ \A k \in Keys : /\ cache'[k].data = cache[k].data
                           /\ (cache[k].stale \/ k \in c.op.ok) => cache'[k].stale
    BY <1>1, <1>3, FetchTypes
  <1>6. \A k \in Keys : gets'[k] = Refetched(ks)[k] \/ (gets'[k] = Asked /\ k \in ui'.reads)
    BY <1>3, <1>4 DEF Mounted
  <1>7. gets' \in [Keys -> Snapshot \cup {NoData, Asked}]
    BY <1>3, <1>4 DEF Mounted
  <1>8. \A k \in Keys : gets'[k] = gets[k] \/ (gets'[k] = Asked /\ k \in KeysOf(area))
    BY <1>1, <1>4, <1>6 DEF Fits
  <1>9. \A k \in c.op.ok \cap ui.reads :
           (cache[k].data # NoData \/ gets[k] = NoData) => gets'[k] = Asked
    BY <1>1, <1>6 DEF Refetched
  <1>10. QED
    BY <1>1, <1>2, <1>3, <1>5, <1>7, <1>8, <1>9, AskData

LEMMA SuccessInvariant ==
    ASSUME AppInv, NEW c \in calls, Succeed(c)
    PROVE  AppInv'
  <1>1. Fits(ui') /\ DataInv'
    BY SuccessPage, SuccessData
  <1>2. UNCHANGED <<area, events>>
    BY DEF Succeed
  <1>3. \A e \in calls : CallInv(e)
    BY DEF AppInv
  <1>4. CASE c.queue = {}
    <2>1. calls' = calls \ {c} \/ calls' = Abandoned(calls \ {c})
      BY <1>4 DEF Succeed
    <2>2. \A e \in calls' : CallInv(e)
      BY <1>3, <2>1, AbandonedCalls
    <2>3. QED
      BY <1>1, <1>2, <2>2, CallStays DEF AppInv, Fits, IsPage, AboutItem, KeysOf
  <1>5. CASE c.queue # {}
    <2>1. PICK i \in c.queue : Becomes(c, [c EXCEPT !.todo = {i}, !.queue = @ \ {i}])
      BY <1>5 DEF Succeed
    <2>2. Over(c) /\ ~c.failed
      BY DEF Succeed
    <2>3. CallInv([c EXCEPT !.todo = {i}, !.queue = @ \ {i}])
      BY <1>3, <2>2, NextCall
    <2>4. \A e \in calls' : CallInv(e)
      BY <1>3, <2>1, <2>3 DEF Becomes
    <2>5. QED
      BY <1>1, <1>2, <2>4, CallStays DEF AppInv, Fits, IsPage, AboutItem, KeysOf
  <1>6. QED
    BY <1>4, <1>5

\* Only a mutation that sent several requests at once can fail with some of
\* them done, and that one tells the queries.
LEMMA FailureData ==
    ASSUME AppInv, NEW c \in calls, Fail(c)
    PROVE  DataInv'
  <1>1. /\ DataInv /\ Fits(ui) /\ CallInv(c) /\ c.failed
        /\ c.op.bad \in SUBSET Keys
    BY DEF AppInv, CallInv, IsCall, IsOp, Fail
  <1>2. /\ cache' = Told(c.op.bad) /\ gets' = Refetched(c.op.bad \cap ui.reads)
        /\ UNCHANGED <<area, stored, version>>
    BY DEF Fail, Invalidate
  <1>3. /\ gets' \in [Keys -> Snapshot \cup {NoData, Asked}]
        /\ \A k \in Keys : gets'[k] = gets[k] \/ (gets'[k] = Asked /\ k \in KeysOf(area))
    BY <1>1, <1>2, FetchTypes DEF Fits
  <1>4. \A k \in c.op.bad \cap ui.reads :
           (cache[k].data # NoData \/ gets[k] = NoData) => gets'[k] = Asked
    BY <1>1, <1>2 DEF Refetched
  <1>5. /\ cache' \in [Keys -> [data: Snapshot \cup {NoData}, stale: BOOLEAN]]
        /\ \A k \in Keys : /\ cache'[k].data = cache[k].data
                           /\ (cache[k].stale \/ k \in c.op.bad) => cache'[k].stale
    BY <1>1, <1>2, FetchTypes
  <1>6. CASE c.done # {} /\ c.op.mode = "all"
    <2>1. c.op.makes # "refused"
      BY <1>1, <1>6 DEF CallInv, Accounts
    <2>2. ASSUME NEW i \in Items, c.items = {i}
          PROVE  FALSE
      BY <1>1, <1>6, <2>2 DEF CallInv, IsCall, Accounts
    <2>3. Tells(c.op, c.op.bad)
      BY <1>1, <1>6, <2>2 DEF CallInv, Sound
    <2>4. Confirm(c)
      BY <1>6 DEF Fail
    <2>5. QED
      BY <1>1, <1>2, <1>3, <1>4, <1>5, <2>1, <2>3, <2>4, AskData
  <1>7. CASE ~(c.done # {} /\ c.op.mode = "all")
    <2>1. UNCHANGED seen
      BY <1>7 DEF Fail
    <2>2. QED
      BY <1>1, <1>2, <1>3, <1>5, <2>1, QuietData
  <1>8. QED
    BY <1>6, <1>7

LEMMA FailureInvariant ==
    ASSUME AppInv, NEW c \in calls, Fail(c)
    PROVE  AppInv'
  <1>1. DataInv'
    BY FailureData
  <1>2. UNCHANGED <<area, ui, events>>
    BY DEF Fail
  <1>3. \A e \in calls : CallInv(e)
    BY DEF AppInv
  <1>4. \A e \in calls' : CallInv(e)
    BY <1>3, GivenUpCall DEF Fail, Becomes
  <1>5. QED
    BY <1>1, <1>2, <1>4, CallStays DEF AppInv, Fits, IsPage, AboutItem, KeysOf

-----------------------------------------------------------------------------
(* The theorems                                                             *)

LEMMA AppInvStart ==
    ASSUME AppInit
    PROVE  AppInv
  <1>1. MaxEvents[area] \in Nat /\ area \in Areas
    BY ConstantsAssumption DEF AppInit, Init
  <1>2. Fits(ui)
    BY DEF AppInit, Init, Blank, Fits, IsPage, AboutItem
  <1>3. DataInv
    BY DEF AppInit, Init, DataInv, Current, Record
  <1>4. QED
    BY <1>1, <1>2, <1>3 DEF AppInv, AppInit, Init

LEMMA AppInvStep ==
    ASSUME AppInv, [Next]_<<vars, wizard, setup>>
    PROVE  AppInv'
  <1>1. Fits(ui)
    BY DEF AppInv
  <1>2. CASE Shared
    BY <1>2, QueryInvariant, SuccessInvariant, FailureInvariant, ServerInvariant, OthersInvariant
       DEF Shared
  <1>3. CASE UNCHANGED vars
    BY <1>3, CallStays DEF vars, AppInv, DataInv, Current, Fits, IsPage, AboutItem, KeysOf
  <1>4. QED
    BY <1>1, <1>2, <1>3, StepKinds, PageInvariant

LEMMA AppInvHolds == Spec => []AppInv
  <1>1. AppInit => AppInv
    BY AppInvStart
  <1>2. AppInv /\ [Next]_<<vars, wizard, setup>> => AppInv'
    BY AppInvStep
  <1>3. QED
    BY <1>1, <1>2, PTL DEF Spec

\* Every reachable state is well typed: the page, the queries and their data,
\* and each mutation under way, of whose requests none is sent twice.
THEOREM TypeCorrect == Spec => []TypeOK
  <1>1. AppInv => TypeOK
    BY AppTypes
  <1>2. QED
    BY <1>1, AppInvHolds, PTL

\* Once a mutation of this tab is reported done no query of the area passes for
\* fresh without it, on this page or on one opened later.
THEOREM WritesRead == Spec => []ReadYourWrites
  <1>1. AppInv => ReadYourWrites
    BY DEF AppInv, DataInv, Current, ReadYourWrites, Data
  <1>2. QED
    BY <1>1, AppInvHolds, PTL

\* A bulk operation is reported as done only when each of its requests was.
THEOREM DoneIsDone == Spec => SuccessMeansDone
  <1>1. ASSUME AppInv, [Next]_<<vars, wizard, setup>>, NEW c \in calls, Succeed(c), c.queue = {}
        PROVE  c.done = c.items
    BY <1>1 DEF AppInv, CallInv, Accounts, Succeed, Over
  <1>2. AppInv /\ [Next]_<<vars, wizard, setup>>
          => [\A c \in calls : (Succeed(c) /\ c.queue = {}) => c.done = c.items]_vars
    BY <1>1
  <1>3. QED
    BY <1>2, AppInvHolds, PTL DEF Spec, SuccessMeansDone

-----------------------------------------------------------------------------
(* The wizards                                                              *)

WizardInv ==
    /\ wizard \in [step: 1..4, visited: 1..4, subType: SubTypes, named: BOOLEAN,
                   redirectUris: SUBSET Uris,
                   grantTypes: SUBSET (Interactive \cup {"client_credentials"})]
    /\ WizardFits

\* Whatever the sub-type, its steps are among the four, the first always.
LEMMA StepsOf ==
    ASSUME NEW t
    PROVE  StepsForSubType(t) \subseteq 1..4 /\ 1 \in StepsForSubType(t)
  BY DEF StepsForSubType

LEMMA WizardStarts == (wizard = DefaultForm) => WizardInv
  BY DEF DefaultForm, WizardInv, WizardFits, Steps, StepsForSubType, DefaultGrantTypes,
         RelevantGrantTypes, SubTypes, Interactive

LEMMA WizardMoves ==
    ASSUME WizardInv, NEW n \in Steps,
           \/ GoToStep(n)
           \/ n < wizard.step /\ wizard' = [wizard EXCEPT !.step = n]
    PROVE  WizardInv'
  <1>1. n \in 1..4
    BY StepsOf DEF Steps
  <1>2. /\ wizard'.step = n /\ wizard'.visited \in 1..4 /\ n <= wizard'.visited
        /\ wizard'.subType = wizard.subType /\ wizard'.grantTypes = wizard.grantTypes
    <2>1. CASE wizard' = [wizard EXCEPT !.step = n] /\ n <= wizard.visited
      BY <1>1, <2>1 DEF WizardInv, WizardFits
    <2>2. CASE wizard' = [wizard EXCEPT !.step = n, !.visited = n] /\ ~(n <= wizard.visited)
      BY <1>1, <2>2 DEF WizardInv, WizardFits
    <2>3. /\ wizard.step \in 1..4 /\ wizard.visited \in 1..4 /\ wizard.step <= wizard.visited
          /\ n > wizard.visited <=> ~(n <= wizard.visited)
      BY <1>1 DEF WizardInv, WizardFits
    <2>4. CASE GoToStep(n)
      <3>1. CASE n > wizard.visited
        BY <2>2, <2>3, <2>4, <3>1 DEF GoToStep
      <3>2. CASE ~(n > wizard.visited)
        <4>1. wizard' = [wizard EXCEPT !.step = n, !.visited = wizard.visited]
          BY <2>4, <3>2 DEF GoToStep
        <4>2. QED
          BY <1>1, <2>3, <3>2, <4>1 DEF WizardInv
      <3>3. QED
        BY <3>1, <3>2
    <2>5. CASE n < wizard.step /\ wizard' = [wizard EXCEPT !.step = n]
      <3>1. n <= wizard.visited
        BY <1>1, <2>3, <2>5
      <3>2. QED
        BY <2>1, <2>5, <3>1
    <2>6. QED
      BY <2>4, <2>5
  <1>3. wizard' \in [step: 1..4, visited: 1..4, subType: SubTypes, named: BOOLEAN,
                    redirectUris: SUBSET Uris,
                    grantTypes: SUBSET (Interactive \cup {"client_credentials"})]
    BY <1>1 DEF WizardInv, GoToStep
  <1>4. QED
    BY <1>2, <1>3 DEF WizardInv, WizardFits, Steps

LEMMA WizardStep ==
    ASSUME WizardInv, [Next]_<<vars, wizard, setup>>
    PROVE  WizardInv'
  <1>t. wizard.subType \in SubTypes /\ wizard.step \in 1..4
    BY DEF WizardInv
  <1>1. CASE ResetWizard
    BY <1>1, WizardStarts DEF ResetWizard, WizardInv, WizardFits, Steps, DefaultForm,
       StepsForSubType, DefaultGrantTypes, RelevantGrantTypes, SubTypes, Interactive
  <1>2. CASE HandleNext \/ HandleBack \/ WizardStepper
    BY <1>2, WizardMoves DEF HandleNext, HandleBack, WizardStepper
  <1>3. CASE HandleSubTypeSelect
    <2>1. PICK t \in SubTypes :
             wizard' = [wizard EXCEPT !.subType = t, !.grantTypes = DefaultGrantTypes(t)]
      BY <1>3 DEF HandleSubTypeSelect
    <2>2. wizard.step = 1
      BY <1>3 DEF HandleSubTypeSelect, OnStep
    <2>3. QED
      BY <2>1, <2>2, StepsOf DEF WizardInv, WizardFits, Steps, DefaultGrantTypes,
         RelevantGrantTypes, Interactive
  <1>4. ASSUME NEW x \in BOOLEAN, NEW R \in SUBSET Uris,
               \/ wizard' = [wizard EXCEPT !.named = x]
               \/ wizard' = [wizard EXCEPT !.redirectUris = R]
        PROVE  WizardInv'
    BY <1>4 DEF WizardInv, WizardFits, Steps
  <1>5. CASE StepBasicInfo
    BY <1>4, <1>5 DEF StepBasicInfo, WizardInv
  <1>6. CASE UriList \/ HandleAddDevUris
    BY <1>4, <1>6 DEF UriList, HandleAddDevUris, WizardInv
  <1>7. CASE StepReview
    <2>1. PICK g \in RelevantGrantTypes(wizard.subType) :
             wizard' = [wizard EXCEPT !.grantTypes = IF g \in @ THEN @ \ {g} ELSE @ \cup {g}]
      BY <1>7 DEF StepReview
    <2>2. wizard.subType # "m2m"
      BY <1>7 DEF StepReview
    <2>3. RelevantGrantTypes(wizard.subType) \subseteq Interactive \cup {"client_credentials"}
      BY DEF RelevantGrantTypes, DefaultGrantTypes
    <2>4. QED
      BY <2>1, <2>2, <2>3 DEF WizardInv, WizardFits, Steps
  <1>8. CASE UNCHANGED wizard
    BY <1>8 DEF WizardInv, WizardFits, Steps
  <1>9. QED
    BY <1>1, <1>2, <1>3, <1>5, <1>6, <1>7, <1>8 DEF Next, WizardNext

SetupInv ==
    /\ setup \in [step: 0..2, valid: BOOLEAN, enabled: SUBSET Sections,
                  complete: SUBSET Sections]
    /\ SetupComplete

LEMMA SetupStep ==
    ASSUME SetupInv, [Next]_<<vars, wizard, setup>>
    PROVE  SetupInv'
  <1>1. CASE UNCHANGED setup
    BY <1>1, Zenon DEF SetupInv, SetupComplete, HasIncompleteInfrastructure
  <1>2. CASE SetupBasics
    <2>1. setup' = [setup EXCEPT !.valid = ~setup.valid] /\ setup.step = 0
      BY <1>2 DEF SetupBasics, InSetup
    <2>2. setup' \in [step: 0..2, valid: BOOLEAN, enabled: SUBSET Sections,
                      complete: SUBSET Sections]
      BY <2>1 DEF SetupInv
    <2>3. setup'.step = 0
      BY <2>1 DEF SetupInv
    <2>4. QED
      BY <2>2, <2>3 DEF SetupInv, SetupComplete
  <1>3. CASE ExpandableSection
    BY <1>3 DEF ExpandableSection, InSetup, SetupInv, SetupComplete
  <1>4. CASE SetupNextStep
    BY <1>4 DEF SetupNextStep, InSetup, SetupInv, SetupComplete, HasIncompleteInfrastructure
  <1>5. CASE SetupBack
    BY <1>5 DEF SetupBack, InSetup, SetupInv, SetupComplete
  <1>6. CASE ResetSetup
    BY <1>6 DEF ResetSetup, EmptySetup, Sections, SetupInv, SetupComplete
  <1>7. QED
    BY <1>1, <1>2, <1>3, <1>4, <1>5, <1>6
       DEF Next, SetupNext, SetupTestConnection, HandleCreateTenant

\* However the steps of the client wizard are taken, undone and jumped over, its
\* step and its grants are of the kind of application chosen last.
THEOREM WizardKeepsKind == Spec => []WizardFits
  <1>1. AppInit => WizardInv
    BY WizardStarts DEF AppInit, WizardInit
  <1>2. WizardInv /\ [Next]_<<vars, wizard, setup>> => WizardInv'
    BY WizardStep
  <1>3. WizardInv => WizardFits
    BY DEF WizardInv
  <1>4. QED
    BY <1>1, <1>2, <1>3, PTL DEF Spec

\* What the tenant wizard can submit was complete in each step, however often
\* the administrator went back, and whenever a late reset came.
THEOREM SetupStaysComplete == Spec => []SetupComplete
  <1>1. AppInit => SetupInv
    BY DEF AppInit, SetupInit, EmptySetup, Sections, SetupInv, SetupComplete
  <1>2. SetupInv /\ [Next]_<<vars, wizard, setup>> => SetupInv'
    BY SetupStep
  <1>3. SetupInv => SetupComplete
    BY DEF SetupInv
  <1>4. QED
    BY <1>1, <1>2, <1>3, PTL DEF Spec

=============================================================================
