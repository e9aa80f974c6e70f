# HelloJohn in TLA+

HelloJohn is a multi-tenant identity provider in Go (`src/internal`) with an admin console in
Next.js (`src/ui`). Each tenant has a directory of YAML files (the *control plane*: its settings,
clients, scopes, claims and signing keys) and, usually, a PostgreSQL database of its own (the *data
plane*: users, refresh tokens, sessions, MFA). One process serves every tenant over HTTP; an admin
API and the console change the files and the databases.

The modules beside this file model the parts of it where several requests, several statements,
several browser tabs, late answers or a crash meet: TLC checks them on small instances, and TLAPS
proves some of the results for instances of any size.

    tlc -workers 4 -config rt_concurrent.cfg MCRefreshTokens
    tlapm RefreshTokensProof.tla

## 1. The system

The server (paths under `src/internal`):

| Component | State it keeps | Operations | Where |
|---|---|---|---|
| Refresh tokens | table `refresh_token` of the tenant, `app_user` | login, register, two refresh endpoints, logout, revocation by user / client / all, disable, enable, delete user | `http/services/auth`, `http/services/oauth`, `http/services/admin`, `store/adapters/pg` |
| Signing keys | `active.json` and `retiring.json` of each key directory; three caches in memory | generate, rotate, revoke, sign, publish the JWKS, verify | `store/adapters/fs/key.go`, `jwt` |
| Tenant data access | the Manager's cache, the connection pool with its singleflight | look a tenant up, connect, refresh after a change of settings | `store/manager.go`, `store/factory.go`, `store/pool.go`, `http/services/admin/tenants_service.go` |
| Email tokens | two tables of one-use tokens | ask, resend, verify, reset | `http/services/email`, `store/adapters/pg/email_token.go`, `http/services/admin/users_service.go` |
| Control-plane files | `tenant.yaml`, `clients.yaml`, `scopes.yaml`, `claims.yaml` of each tenant; one RWMutex | create, read, update and delete each of them | `store/adapters/fs/adapter.go`, `controlplane` |
| Authorization codes, consent | cache entries with a lifetime | authorize, consent, exchange | `http/services/oauth` |
| Accounts | `app_user`, `identity` | register, log in, disable for a time | `http/services/auth`, `http/services/admin` |
| MFA, sessions, social login | cache entries, rows | enrol, challenge; log in, log out; start, callback, exchange | `http/services/auth`, `session`, `social` |
| Administrators | `admins.yaml`, `admin_refresh_tokens.yaml` | log in, refresh, revoke | `store/adapters/fs/admin.go` |
| Rate limiter, cluster | counters in Redis; a Raft log | allow or refuse; apply a mutation | `rate`, `cluster` |

The console (paths under `src/ui`):

| Component | State it keeps | Operations | Where |
|---|---|---|---|
| Session | the auth store of each tab, one localStorage, a refresh timer | log in, register, guard, refresh, answer 401, log out | `lib/auth-store.ts`, `lib/auth-refresh.ts`, `lib/api.ts`, `hooks/use-api.tsx`, `components/auth`, `app/(auth)` |
| Tenant settings | a query per page, the ETag in React state, forms | settings, mailing, database, user fields, providers; import | the pages of a tenant, `lib/api.ts` |
| Lists | React Query's cache, dialogs, selections, filters | tokens, users, sessions, consents, roles, assignments, scopes, claims, keys, cluster | the pages of a tenant, `admin/cluster` |
| Clients and tenants | the same, and two wizards | list, create by wizard, rotate a secret, delete | `clients/page.tsx`, `components/clients/wizard`, `components/tenant/CreateTenantWizard.tsx` |
| Playground, OIDC, metrics, palette, design system | what they show | read | `admin/playground`, `admin/oidc`, `admin/metrics`, `components` |

How they interact: a request looks its tenant up (tenant data access), which reads the tenant's
file (control plane) and opens its database; the services then issue SQL statements one by one,
without a transaction around them, and sign access tokens with the key of the tenant or the global
one (signing keys). An admin request changes files under the connection's lock and afterwards tells
the Manager's cache. Nothing but the database, the file lock, `singleflight` and the two `sync.Map`s
orders two requests. Some handlers have no route at this commit (section 6). The console keeps what it read in React Query, sends each change as a request
of its own, and invalidates what that change concerns when the answer is a success; settings go back
whole, with the ETag they were read with as `If-Match`.

What is hard about it, and the property that makes each part right:

- *Rotation of a refresh token* is a read, an INSERT and an UPDATE. A session should be a chain of
  which one token is usable; tokens must not outlive their user nor come back after a suspension.
- *Rotation of a signing key* replaces two files while others sign, verify and publish from caches
  with lifetimes of their own. What signs must be published, what was replaced must verify until its
  grace ends, what was revoked must not sign again.
- *Caches of tenants and connections* are filled from files that change. After a change has been
  answered, requests must see it, over a connection that is open, and no connection may be lost.
- *One-use tokens by mail* are looked up, used up and acted on by three statements, and asked for by
  two. A token must change something once, and the newest must void the older ones.
- *Files rewritten whole* must not lose an item another request has just added; checks made under
  one lock are used under the next; a crash between truncation and content empties a file.
- *The console's session* is copied between tabs through localStorage while refreshes and 401s are on
  their way. What a tab left it must not come back to, and an expired session must not stay.
- *Settings sent back whole* must not undo what others stored, whichever answers came late.
- *Cached lists* are invalidated by key. After a reported success nothing older may pass for fresh,
  and a bulk operation reported done must be done.
- *Wizards* go back, jump and reopen. The tenant wizard may end only with sections it accepts; in the client
  wizard, whose stepper jumps over validation, step and grants must fit the kind chosen last.

`PROJECT.json` lists each such place under `hazards`, with the property that covers it.

## 2. Modules

| Module | Models | Read it with |
|---|---|---|
| `SessionChain` | abstract: a session is a chain of tokens, at most one usable, swapped in one step | `RefreshTokens` |
| `RefreshTokens` | the rows of `refresh_token`, the users, every request as a sequence of SQL statements | `refresh_service.go`, `token_service_impl.go`, `pg/adapter.go`, `users_service.go` |
| `KeyRing` | abstract: the signing key is published, a replaced one stays until its grace ends | `KeyStore` |
| `KeyStore` | key files, rotation and revocation by steps, the two kinds of `keyRepo`, the caches | `fs/key.go`, `jwt/keystore.go`, `jwt/jwks_cache.go`, `atomicwrite.go` |
| `TenantAccess` | Manager cache, pool and singleflight against the admin operations | `manager.go`, `pool.go`, `factory.go`, `tenants_service.go` |
| `EmailTokens` | the token tables, their requests as SQL statements, the user they change | `flows_service.go`, `pg/email_token.go`, `users_service.go` |
| `ItemStore` | abstract: a write changes one item of one file in one step; what is lost was in somebody's hands | `ConfigStore` |
| `ConfigStore` | the YAML files of a tenant, their lock, truncation and content as two steps | `fs/adapter.go`, `controlplane/service.go` |
| `AdminSession` | the console's session in several tabs over one localStorage | `auth-store.ts`, `auth-refresh.ts`, `api.ts`, `admin-shell.tsx`, the login and register pages |
| `SettingsEditor` | five pages that edit a tenant's settings, and the endpoint's ETag check | the pages, `settings` handlers of `tenants_service.go` and its controller |
| `Console` | what list pages share: queries, mutations, bulk actions, dialogs, selections | React Query as configured by `query-provider.tsx`, `api.ts` |
| `TokensPage`, `UsersPage`, `SessionsPage`, `ConsentsPage`, `RbacPage`, `ScopesPage`, `ClaimsPage`, `ClientsPage`, `TenantsPage`, `KeysPage`, `ClusterPage` | one area each: when a control is there and what its mutation does | the page of that name |
| `ClientWizard` | the steps, grants and URIs of the client wizard | `components/clients/wizard` |
| `ConsoleApp` | the areas together: one is worked in at a time, over one query cache | `admin-shell.tsx` |
| `*Proof` | the theorems of the module of that name; `ConsoleProof` those of `ConsoleApp` | |
| `MC*` | constants and symmetry for TLC | |

### RefreshTokens
`db` is the table by token value (a value without a row, a live, a revoked or a deleted row; user,
client, expired). `req[h]` is what the goroutine `h` has read and will do next: every SQL statement
is an action, so the statements of two requests interleave. `/v2/auth/refresh` is `AuthRead`,
`AuthCheckUser`, `AuthCreate`, `AuthRevoke` (read, check the user, insert, then revoke the old one, best
effort); the OAuth grant is `OAuthRead`, `OAuthRevoke`, `OAuthCreate` (it revokes first and never loads
the user). `Fold` is `strings.EqualFold`. With `Faults` a statement may return an error, and each
error path is the code's. `family` and `clean` are history: the login a token descends from, and the
users whose suspension swept while nobody was past the check of their status. A social login, an
authorization code and an MFA challenge add no row to this table at this commit.

### KeyStore
The issuer's `keyRepo` lives as long as the process; `fsConnection.Keys()` makes a new one, with a
mutex of its own, for every request of the admin key service. So `Instances` has "shared" and "private", and
only shared ones exclude each other. `RotateStart`, `SaveRetiring`, `SaveActive` are the file accesses of
`Rotate`; `WriteFails` and `Restart` come between them. Looking the signing key up and caching it is
one step. `Patient` and `LongGrace` are assumptions on the operator that a property can be checked with
and without (nobody rotates again within the grace period; the period outlasts the 30-second cache).
A tenant whose active key was revoked is published through the global directory, as `JWKS` says. A
revocation finds a file and removes what is at its path by then (`RevokeFind`, `RevokeRemove`); its handler has no
route yet, and the model takes it as if it had one.

### TenantAccess
A request for data goes `Serve` (cache), `Resolve` (file), `PoolGet`, `Dial` and `Land` or `wait` (singleflight),
`Store`, `Use`. The settings are three parts, as far as the code tells them apart: the user database, the user
fields, the rest. `UpdateSettings` decides from what it read (`Notice`) whether to tell the Manager: to refresh
the connection and bootstrap when the database changed, to bootstrap when it is new or the user fields
changed, otherwise nothing (`tenants_service.go:374`, `384`). It then reads again and writes (`Read`, `Write`), and goes
on with `Refresh` (clear the entry), `PoolClose`, `ConnClose`, `Bootstrap` (look the tenant up, and for the migrations once more).
A tenant's PUT (`Update`) and an import tell nothing; an import leaves database and user fields alone. The two
`sync.Map` stores under slug and id are one step; so are the pool's `Store` and the end of `Dial`'s own work, while the
singleflight call ends in `Land`. Not in use at this commit and left out: the health
check loop, `ClearCache`, `Pool.Refresh`, `DefaultTenantDB`.

### EmailTokens
`db` is the two tables, by token; `user` is who the tokens change. Asking is `Start` (the lookup of the
user), `Invalidate`, `Insert`, `Mail`; redeeming is `Read`, `Use`, `Apply`; every SQL statement is an action, as
no service opens a transaction. `way` tells the two flows of users from the administrator's resend, which
writes its hash in base64 where redeeming looks for hexadecimal: `hex`. `GivesUp` is every early
return, error or lost race. `replaced` (tokens older than a request that has stored its own) and
`redeemed` (changes made with each token) are history. The sweeps of refresh tokens after a change
of password are actions of `RefreshTokens`.

### ConfigStore
A write takes the lock, reads the file, changes one item (`CreateItem`, `UpdateItem`, `DeleteItem`), and
writes it whole: `Truncate`, then `Fill`. Reads are one step that needs the lock free. Clients, scopes and
claims share the actions because the repositories share the code; `DeleteScope` is three locked sections
(`ScopeClients`, `ScopeDependents`, `ScopeDrop`), and tenants have their own actions. `Fails` is an error of
the file system at any point of a write, `Restart` a crash. A YAML file that was written in part is
taken for an empty one. In the mapping to `ItemStore` a truncated file counts as having what the holder of the lock
is about to write, so a write takes effect when it truncates; a tenant is there while its directory is. `kept` and `late` are history: the items whose creation was answered, and the clients
written since a `DeleteScope` began.

### AdminSession
`auth[t]` is the store of tab `t`, `disk` the one localStorage, `place[t]` what the tab shows. A session is
the outcome of a login; those in `Renewable` come with a refresh token. The timer of `AdminShell` is armed by
every way into the console (`Arms`); `TimerFires` sends a refresh whose answer (`RefreshAnswered`, `RefreshFails`) may
come in any later state. The two API clients answer 401 differently: one reloads the login page, one
signs out in memory. `left` is history: the sessions a tab signed out of. `NeedsClient` is what the server
does with a refresh that names no client.

### SettingsEditor
Settings are a record of groups, one per form. A page opens with a query under its own key, keeps the
ETag in React state (fields keeps it beside the data), and saves a payload built from its form and what
it read. `Check` and `Write` are the server's two steps; `Serve` and `Arrive` are the server's answer and its
arrival, so answers overtake each other, and a cancelled fetch still sets the ETag (`Arrive`). The ETag is a hash
of the settings: here the settings themselves. `version` is the file's updatedAt, which the tenant's query shows, so that
a refetch after any write refills its form. Social login is a group of its own (`social`) because two pages send it: the
Security tab, and a provider's save, which sends it as enabled. `Rename` reads and writes the whole tenant in one
step; a settings update between the two, which it would undo, is left out.

### Console and the pages
One query `list` and one `side` (statistics or a detail) per area; `Mutation` describes an operation: the
record it makes, which answer is a success, one request or many, what it invalidates, what it does to
dialog, selection and page. `Do`, `Refuse` and `LoseAnswer` are the server's answers to one request of a
mutation; `Confirm` runs the success callback. `Succeed` and `Fail` end it. The page modules give, for each
control, its guard (what is on screen, `disabled`, whether a dialog is open) and its mutation. Others
change the same records at any time (`OthersWrite`).

The server may carry out or refuse any request, so the modules say what a page does whatever it is
answered; for several requests there is no route at this commit, and the answer is always the refusal
(section 6). A button stays disabled while *any* call of its mutation is under way (`Pending`); React Query's
`isPending` follows the latest call alone, which matters where a mutation is called for many records. The
theorems do not depend on `Pending`. The two tabs of the consents page share query, selection and filters.

## 3. What the runs show

The constants and bounds of each run are in its `.cfg`; there are twelve, each for a question of its own.

| Run | Shows | Bounds |
|---|---|---|
| `rt_concurrent` | `NoOrphanRows`, `DisabledStaysClean`, `FamilyKeepsOwner` under any overlap and any failed statement | 2 users, 2 clients, 2 requests, 3 tokens: a token, its successor, and another user's or a competing successor |
| `rt_sequential` | `RotationIsAtomic` (refinement of `SessionChain`), `MintOnlyForActive` | 1 request at a time, 2 spellings of a client id, 4 tokens: three rotations, or two sessions |
| `ks_rotation` | `KeptForGrace`, `SignerPublished`, `OnlyRevokedDisappear`, `RotationIsAtomic` (refinement of `KeyRing`) through rotations, revocations, crashes and failed writes | 1 request at a time on both kinds of `keyRepo`, the global directory and a tenant's, 4 keys: both initial ones and two new ones, by rotation or restart; 0.8 million states |
| `ks_overlap` | `RevokedStaysInactive` with everything allowed at once, renames that destroy their target included | 2 requests on both kinds of `keyRepo`, 3 keys |
| `ta_sequential` | `SlugEntryCurrent`, `SlugEntryUsable` whatever fails to connect | 1 request at a time, settings updates and imports, 2 tenants asked for by slug and by id, 2 databases, 2 definitions of user fields, 2 values of the rest, 3 connections; 1.0 million states |
| `ta_requests` | `NoConnLeaks`, and `Answered` under fairness | 2 requests, by slug, settings, PUTs and deletions, a tenant created twice, 2 connections; 0.9 million states |
| `et_mail` | `RedeemedOnce`, `NewestOnly` with failing statements and restarts | 1 user, 2 requests, 3 tokens: an older one, a newer one, and one of the other kind or a third; 1.5 million states |
| `cs_files` | `AnsweredKept`, `ScopeInUseKept`, `WritesAreAtomic` (refinement of `ItemStore`) with crashes and failing writes | 2 requests, 1 tenant (files of two tenants share nothing but the lock), 2 clients, 2 scopes; 0.5 million states |
| `cs_client_update` | **refutes** `NoSelfWait` for the update of a client | 1 request |
| `ui_settings` | `ReadYourSave`, `NoForeignOverwrite` with answers out of order | 1 tab, all 5 pages, 2 openings, 1 edit, 2 saves, an import and another program; 1.3 million states |
| `ui_session` | `SignedOutForGood`, and `ExpiredSessionEnds` under fairness | 2 tabs, 2 logins, one with a refresh token, 1 request per tab; 0.2 million states |
| `ui_console` | `ReadYourWrites`, `SuccessMeansDone`, `WizardFits`, `SetupComplete` | all 12 areas, 2 records, 2 or 3 events (opening a page or a click that sends) with any number of answers, filters, dialogs; 1.4 million states |

The bounds are one more than what the hazard of each run needs: a race takes two requests; a file that
loses the *other* item takes two items; a chain that forks takes three tokens; a bulk action that half fails takes
two records; a stale answer takes a page opened before a save and the save. Section 4
says which results hold for every size and which rest on these instances alone.

In `ui_settings` there is one tab: what another tab or program does to the settings is `Import` and `OtherSave`,
which store at any moment; the proof of `NoForeignOverwrite` covers any number of tabs. In
`ui_console` the areas do not run one after the other, since moving to another area unmounts
every query of the first; each behaviour stays in one.

`CHECK_DEADLOCK FALSE` is set where behaviours end because the tokens, the keys, the logins or the events are used
up. `cs_files` leaves the update of clients out of `Updates`, since it never ends (`cs_client_update`), and has no
claims: their file is handled by the same actions as the one of clients, no check of `DeleteScope`
reads it, and the theorem about `AnsweredKept` covers it.

*Fairness.* `ta_requests` assumes weak fairness of the steps of each request that has begun. A goroutine
that can run is run by the Go scheduler, a dial ends by itself or by its timeout, and a request holds no
lock across these steps; no new request need ever arrive, and nothing is assumed about dials
succeeding. `ui_session` assumes weak fairness of a running timer (`setTimeout` of a page that stays open) and of a refresh
that was sent: `fetch` answers or rejects. Nothing is assumed about administrators, who need never click,
nor about other requests being sent or answered.

### The finding

*Updating a client never returns* (`cs_client_update`). `clientRepo.Update` ends in `Get`, which takes the
read side of the lock it holds; the whole control plane waits from then on.

### Further counterexamples

Each of these is a property of a module that TLC refutes in seconds with the named constants (the rest as
in the run of the first column). They are not kept as runs; a property named here is defined at the end of its module.

| Start from | Change | Property refuted | Because |
|---|---|---|---|
| `rt_sequential` | `Handlers` of two, `Endpoints = {"oauth"}`, three tokens | `AtMostOneLive` | `revoked_at` is checked by one statement and set by another: two requests with one token both get a successor |
| `ks_rotation` | | `NoSelfWait` | `Rotate` calls `Generate` under the mutex both lock: the first rotation of a directory never returns |
| `ks_rotation` | `Operations = {"revoke"}`, `Faults = FALSE` | `RevokedRejected` | `PublicKeyByKIDForTenant` answers from a cache that has no lifetime on that path |
| `ks_overlap` | `LockedFiles = FALSE` | `OnlyRevokedDisappear` | a revocation removes whatever is at the path of the key it found: a rotation in between loses its new key |
| `ks_rotation` | `LockedFiles = TRUE` | `OnlyRevokedDisappear` | where a rename needs its target removed first (`atomicwrite.go:52`), a failure after that leaves no active key |
| `ks_rotation` | | `RevokedGone` | a crash between the two files of a rotation leaves one key in both; revoking it empties one |
| `ks_rotation` | `Patient = FALSE` | `KeptForGrace` | there is one retiring file: a second rotation within the grace period overwrites it |
| `ta_sequential` | | `SettingsCurrent` | nobody tells the Manager that anything but the database and the user fields changed: requests get the old settings until the process ends |
| `ta_sequential` | `Operations = {"put"}` | `SlugEntryCurrent` | a tenant's PUT may change the database and tells nothing |
| `ta_sequential` | `Operations = {"delete"}` | `SlugEntryCurrent`, `OwnData` | neither deleting a tenant nor creating one of the same slug clears the entry or the pool |
| `ta_sequential` | | `IDEntryUsable` | a refresh clears the entry under the name it was given, the slug: the one under the id keeps the closed connection |
| `ta_sequential` | `Handlers` of two, `Operations = {"settings"}` | `SlugEntryCurrent`, `SlugEntryUsable` | a lookup that read the file before an update stores what it built after the update has cleared the entry, and a closed connection with it |
| `ta_sequential` | `Handlers` of two, `Operations = {"settings"}` | `ReplacesWhatItSaw` | the ETag is compared on one read and the file written later |
| `et_mail` | | `AtMostOneValid` | Create invalidates and inserts in two statements: two overlapping requests leave two valid tokens, where `domain/repository/email_token.go:41` says the active one is invalidated |
| `et_mail` | | `MailedWorks` | an administrator's resend hashes in base64: its link never works, and it has voided the earlier ones |
| `et_mail` | | `LastResetWins` | the change of a password is not tied to the use of its token: a slow older reset overwrites a newer one |
| `cs_client_update` | `Faults = TRUE` | `SlugIsUsable` | a crash between the directory and the file of a new tenant: the slug exists for Create and for nobody else |
| `ui_session` | `PROPERTY RefreshRenews` | `RefreshRenews` | a refresh of the console carries no client_id and `refresh_service.go:69` refuses it before it looks at the kind of token: every refresh signs the administrator out, where `auth-refresh.ts:46` says none is needed |
| `ui_session` | `NeedsClient = FALSE` | `SignedOutForGood` | once that is repaired, a refresh answered after a logout signs the tab in again |
| `ui_settings` | `Tabs = {a, b}`, `Pages = {"mailing"}`, `Editable = {"smtp", "templates"}`, `MaxEdits = 3`, `MaxSaves = 3` | `NoLostUpdate` | the ETag of a cancelled, late answer is kept beside older data, and the whole settings go back with it |
| `ui_settings` | | `ProviderAlone` | configuring Google also enables social login, whatever the Security tab says, and any save of a provider disables GitHub |
| `ui_settings` | `Tabs = {a, b}`, `Pages = {"fields"}`, `MaxEdits = 2`, `MaxServing = 2` | `NoForeignOverwrite` | two PUTs checked before either writes |

Other things a reader of the models will meet, all of them the code's behaviour:

*Settings.* Inputs stay editable while a save is under way. After 412 nothing is fetched again. A page
opened again within the 60 s of `staleTime` has no ETag, so the settings page stores the name of the tenant
and has its settings refused. A save on the providers page disables GitHub, and one of Google enables social login; what is not a Google form
reports success without storing; `smtp`, `db`, `cache` and an issuer override cannot be emptied. An import
invalidates two of the keys only. A fetch under way when its key is invalidated without an observer
clears the mark when it arrives.

*Session.* A soft 401 of an old session signs out the new one. One tab's failed refresh or logout clears
localStorage for the others, who stay signed in until they reload. `setLeaderUrl` does not exist, so the
redirect to a cluster leader does nothing; nothing enters demo mode.

*Lists.* Selections survive filters, pages and refetches, deleted records included, so a bulk action reaches
rows that are not on screen. A record created before the list's first answer stays invisible (the fetch is
joined). The success of a request for one record closes the dialog open for another (users, scopes, claims).
A revocation in the token inspector tells no query. A failed bulk revocation of consents leaves its list
as it was and reports how many were selected. Session policies, the RBAC matrix, snapshots and leadership
transfers report success without a request; the consent policy's PATCH is answered 405; upserting
a scope overwrites or resurrects one. Deleted clients and tenants and rotated keys stay fresh in their
detail and the JWKS. The keys page's tenant selector is always empty. The client page takes the
first element of an answer that is no array: every client "does not exist".

*Wizards.* The stepper of the client wizard jumps over validation; pasting several URIs keeps the last; reopening
within 200 ms keeps the old form. The tenant wizard's reset, 300 ms after closing, wipes one opened meanwhile.

## 4. What is proved

The `*Proof` modules are checked by TLAPS with no step left open, from the
assumptions stated with the constants (`ConstantsAssumption`, `NoRowAssumption`, ...): the sets may be of any
size, with and without faults. What a theorem assumes beyond that stands in its `ASSUME` and here.

| Theorem | Says | Assumes |
|---|---|---|
| `RefreshTokensProof!TypeCorrect` | `Spec => []TypeOK` | |
| `RefreshTokensProof!OrphanFreedom` | `Spec => []NoOrphanRows` | |
| `RefreshTokensProof!DisabledClean` | `Spec => []DisabledStaysClean` | |
| `RefreshTokensProof!OwnerKeeps` | `Spec => []FamilyKeepsOwner` | |
| `RefreshTokensProof!Refines` | `Spec => RotationIsAtomic` | `Sequential`: one request at a time, no faults |
| `RefreshTokensProof!MintedForActive` | `Spec => MintOnlyForActive` | `UserChecked`: one request at a time, no faults where the OAuth refresh is in use |
| `KeyStoreProof!TypeCorrect` | `Spec => []TypeOK` | |
| `KeyStoreProof!RevokedInactive` | `Spec => []RevokedStaysInactive` | |
| `KeyStoreProof!Refines` | `Spec => RotationIsAtomic` | `OneByOne` (one request at a time, rotations and revocations; renames keep their target), `LongGrace` |
| `KeyStoreProof!GraceKept` | `Spec => []KeptForGrace` | `OneByOne`, `LongGrace`, `Patient` |
| `KeyStoreProof!SignerKnown` | `Spec => []SignerPublished` | `OneByOne`, `LongGrace`, `Patient` |
| `KeyStoreProof!NoneDisappears` | `Spec => OnlyRevokedDisappear` | `Unmixed` (no rotation overlaps with a revocation), renames keep their target |
| `TenantAccessProof!TypeCorrect` | `Spec => []TypeOK` | |
| `TenantAccessProof!NoLeaks` | `Spec => []NoConnLeaks` | |
| `TenantAccessProof!EntriesCurrent` | `Spec => []SlugEntryCurrent` | one request at a time; settings updates and imports |
| `TenantAccessProof!EntriesUsable` | `Spec => []SlugEntryUsable` | one request at a time; settings updates and imports |
| `EmailTokensProof!TypeCorrect` | `Spec => []TypeOK` | |
| `EmailTokensProof!OneUse` | `Spec => []RedeemedOnce` | |
| `EmailTokensProof!NewestAccepted` | `Spec => NewestOnly` | |
| `ConfigStoreProof!TypeCorrect` | `Spec => []TypeOK` | |
| `ConfigStoreProof!AnsweredItemsKept` | `Spec => []AnsweredKept` | |
| `ConfigStoreProof!ScopesInUseKept` | `Spec => ScopeInUseKept` | |
| `ConfigStoreProof!Refines` | `Spec => WritesAreAtomic` | |
| `AdminSessionProof!TypeCorrect` | `Spec => [](TypeOK /\ TimerInv)` | |
| `AdminSessionProof!SignedOut` | `Spec => []SignedOutForGood` | `NeedsClient`, as the server is |
| `SettingsEditorProof!TypeCorrect` | `Spec => []TypeOK` | |
| `SettingsEditorProof!ForeignKept` | `Spec => NoForeignOverwrite` | `MaxServing <= 1` |
| `SettingsEditorProof!OwnSaveRead` | `Spec => []ReadYourSave` | |
| `ConsoleProof!TypeCorrect` | `Spec => []TypeOK` | |
| `ConsoleProof!WritesRead` | `Spec => []ReadYourWrites` | |
| `ConsoleProof!DoneIsDone` | `Spec => SuccessMeansDone` | |
| `ConsoleProof!WizardKeepsKind` | `Spec => []WizardFits` | |
| `ConsoleProof!SetupStaysComplete` | `Spec => []SetupComplete` | |

Assumptions about what the operator or the environment does (no overlap, `LongGrace`, `Patient`, ...) restrict the
theorem, not the model: the runs also leave them out, and the table above has counterexamples without them.

*Refresh tokens.* Both safety proofs go through one relation per row, `RowStep`: a row keeps its user, a
revoked or deleted row never comes back, and a new row belongs to a user that exists and for whom a
request was in flight. `NoOrphanRows` is inductive with that and the lemma that a user ends only
together with its rows. `DisabledStaysClean` is not: a request that has passed its check could still
insert. `CleanInv` adds that nobody is in flight for a clean user and that the user is disabled or gone;
`InFlightStep` shows that a request gets in flight only from a live token or after reading an absent or
active user, neither of which a clean user has.
`FamilyKeepsOwner` compares any two tokens of a session; `OwnerInv` compares each with the first, whose value
is the family, and with what a request read of its token.
`Refines` maps the tables to `SessionChain`, which knows one usable token per session. `ChainInv` says there is at most
one and that the request rotating it holds it; `UsableWith` says what is usable in terms of that request alone, for the
two endpoints revoke and create in opposite orders. `MintOnlyForActive` rests on `Backed`: a live token is
an active user's or about to be swept unless sweeps may fail, and a request that may still insert is an active user's.

*Signing keys.* `RevokedStaysInactive` is about keys that sign; what could bring one back is a rotation that
read it before, a removal that meets another file, or a new key. `RevokeInv` adds `Generated` (keys in files and in
the hands of rotations were generated, so a new key is none of them), `Unshared` (no two directories sign
with one key) and `Found` (the key a revocation is about to remove signs at most where it looked). Every
step then keeps or removes active keys or installs a new one: `Installs` and `Removes`.
`Refines` maps the two files of each directory to `KeyRing`. `RingInv` adds that a retiring key belongs to one
directory, that a revocation finds in the file what it removes (`Removed` says it empties one of the two), and that between the two writes of a rotation the retiring file already holds the key that is still
active. `GraceInv` serves both grace properties: a key that was replaced is the retiring one until its grace
ends (`Kept`), a rotation about to overwrite a retiring file has found it useless (`Useless`), and what signs from the cache is
active, in its grace or revoked (`Signs`). `KeptForGrace` speaks of directories that have an active key: without one
the global keys are shown. For `OnlyRevokedDisappear`, revocations included, `Aimed`: an active key a revocation has
found is still there when it removes the file, or is gone already.

*Tenant access.* `NoConnLeaks` needs to know that whoever dials does so for the entry it holds in
singleflight and over an empty place in the pool, or has put its connection there: `Dialers`. `SlugEntryCurrent` and `SlugEntryUsable` hold
between requests only, so `SeqInv` says for each step of a request what it has already told: `CacheInv` and `PoolInv` may fail for a slug
whose request has written and not yet refreshed, and `Agrees` says what that request will still do. Its crux is
`Notice`: a change that will not be told is one of the rest alone, or of the user fields of a tenant without a database,
so the entry still has the file's database and, with one, its user fields.

*Email tokens.* Both properties rest on one lemma, `SpentStays`: a token that is used up or deleted stays so, because
only a token that was never stored is inserted. `OnceInv` adds that a request about to change something holds a
spent token, alone, with which nothing was changed; `Use` establishes that from the conditions of its UPDATE. `OldSpent`
says that what a request found while invalidating is spent until it inserts and after.

*Control-plane files.* `AnsweredKept` allows an item to be in the hands of the request that truncated its
file, so the invariant has to say what that request will write. `KeptInv` adds `Exclusion` (the steps
between lock and unlock belong to the holder of the lock), `Rewriter` (what is to be written has every
answered item of that file) and `Remover` (a tenant being removed has none). `Rewriter` holds when the
file is read because the lock is free then, so nobody is between the halves of a write, and stays true because
nobody else writes until it is filled.

`ScopeInUseKept` relates the clients a deletion has looked at to those that use the scope when it rewrites the file:
`KnownInv` says that every client using it, stored or about to be, is one of `late`, those written since the deletion began.

`Refines` maps the files to `ItemStore`. What a request is about to write was computed when it took the lock, so that
its truncation is a change of one item needs `Prepared`: until the truncation it differs from the file in that item only,
and an open file is empty, which is what an error or a crash then leaves. `Housed` says that a slug without a directory has no
files, since a directory is removed only after them. `Waits` leaves only the holder of the lock to be considered.

*Admin session.* While the server refuses every refresh, only a login or localStorage fills a store. `LeftInv` says that
localStorage holds nothing any tab has left - whoever signs out clears it for all - and `Fresh` that the
session a login form is about to store is in no store, has been left by nobody and is in no other form.

*Settings editor.* `Protected` says, phase by phase, why a save may write: while it is on its way, whatever of its
payload was not edited equals its ETag, but for the two values a provider's save puts in (`Besides`); once checked, it equals what is stored. With one PUT in the server at a
time (`OneWriter`) nothing is stored between check and write. `ReadYourSave` needs `ReadInv`: once a page has saved,
its data exist, and neither they, unless marked stale, nor any answer on the way to them are older than the save, because
the success of a save discards the answers that are.

*Console.* The controls of all pages are too many cases for each invariant, so `StepKinds` first says of every control of every
page that it is one of four things (`PageStep`): it changes only what is shown, mounts a query, sends a mutation that is
`Sound`, or ends one. The lemma of each page proves that of its controls; the invariants are then proved for
the kinds. `Sound` is what a programmer must not forget: each query of the area is invalidated by the mutation
or is one the model records as missed (`Tells`; `misses` names those: the detail of deleted clients and tenants, the JWKS of rotated keys,
what the token inspector revokes, the assignments, whose query follows what is typed), and those the theorem excepts. `Current` is the invariant for `ReadYourWrites`: what passes for
fresh, and any answer on its way that will, contains every confirmed write. `Accounts` is that for
`SuccessMeansDone`: each record of a bulk operation is queued, sent, done or failed. `WizardInv` adds that the steps visited lie within the four, `SetupInv` only the types:
`SetupComplete` is inductive because each way forward asks again.

*Model-checked only.* Liveness (`Answered`, `ExpiredSessionEnds`), which is beyond this prover, as are ENABLED and
induction over data. No module uses a RECURSIVE operator.

## 5. What would come next

`AdminTokens` (reads under one lock, writes under another) and `Sessions` (cookie
cache against rows) the next modules. Authorization codes, MFA and the social login wait for the code:
at this commit none of the three gets past the first exchange (below).

## 6. Not modelled

*Server.* *Authorization codes*: no stored code can be exchanged. *MFA*: every query names `mfa_totp`, the schema has
`user_mfa_totp` (`0001_init_up.sql:157`), and authorize stores its challenge under another key and other names
than the challenge endpoint reads. *Social login*: its token issue fails on a column. *Accounts*: one INSERT
and one UPDATE each, with the database's constraints deciding races. *Administrators' tokens*: any two writes of their file can undo each other
(`fs/admin.go:399` reads under one lock and writes under another). *Sessions, rate limiting, caches*: key-value entries
of one request each. *Cluster replication*: the state machine that would apply the log is not in the repository. *Migrations*: one run under
a database lock, part of opening a connection. *Email sending, HTTP server, middlewares, discovery, configuration*: no
state of their own, or pure I/O. *The MySQL, Mongo and noop adapters.*

*Control-plane files.* The toggles in `claims.yaml` and the settings in `tenant.yaml` are rewritten like the items
that are modelled; the conversions between inputs and YAML are left out.

*Console.* The playground (it sends a client_id the API does not return, to paths the server does not have), the OIDC and
metrics pages, the command palette and the export dialogs (they read), the quick start and the tabs of a client's
detail (unreachable, see above), `admin/users/page.tsx` (a copy of a tenant's users page no link leads to), charts, design system and
translations. Each has its reason under `components`.

*Routes.* Handlers without a route at this commit are modelled as if they had one, since the pages call
them and the services are there: `router/admin_routes.go:46` registers none for disabling and enabling a user, for
its verified e-mail and its password, none for the kinds of claims, a user's roles and a role's permissions, the cluster's
nodes, revoking a client's secrets, and none under `/v2/admin/keys`; `adminUsersHandler` (`:234`), which has the administrator's resend, is never mounted.
The list of consents is answered as an object (`consents_controller.go:177`), for which the page shows sample data, and
a DELETE under a tenant is refused (`:272`).

Seen while reading, and outside what the modules keep of the data:

- `register_service.go:156` and three other places store argon2id hashes; `CheckPassword` of the PostgreSQL
  adapter (`pg/adapter.go:549`) compares with bcrypt.
- `dto/oauth/authorize.go:29` writes the code's method as `code_challenge_method`, `oauth/token_service.go:77`
  reads `challenge_method`.
- `social/token_service_impl.go:151` inserts into columns that `refresh_token` does not have.
- `fs/adapter.go:313`: the secret, grant types and lifetimes of a client are not written to its file, so
  `DecryptClientSecret` answers an empty secret.
- `tenants_service.go:1363` and `1420`: an import looks clients and scopes up under the tenant's id, and the
  directory is named by the slug.
- `consents_service.go:232` returns an internal client id that the FS adapter never sets.
- `pg/adapter.go:528`: a suspension with an end date also sets `disabled_at`, which `IsUserDisabled` reads as a
  permanent one.
- `verification_sender.go:15`: the mail of a registration carries no token.
- `pg` consents: the repository's columns (`tenant_id`, `client_id`, `scopes`) are not the schema's (`client_id_text`,
  `granted_scopes`).
- `flows_service.go:193`: an invalid redirect is refused after the older tokens were voided and the new one stored.
- `flows_service.go:446`: a reset revokes the refresh tokens of the client named in the request, and no others.
