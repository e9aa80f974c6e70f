--------------------------- MODULE SettingsEditor ---------------------------
(***************************************************************************)
(* The five console pages that edit a tenant's settings - settings,        *)
(* mailing, database, user fields, social providers - and the endpoint     *)
(* they all write to: GET and PUT /v2/admin/tenants/{id}/settings with     *)
(* ETag and If-Match.  Several browser tabs edit at the same time.         *)
(*                                                                         *)
(* Each page reads the settings through React Query under a key of its     *)
(* own, keeps the ETag in React state (fields keeps it beside the data)    *)
(* and writes back a payload built from its form and from what it read.    *)
(* Settings fall into groups, one per part of a form; what a group holds   *)
(* is one value.  The ETag is a hash of the settings: here, the settings.  *)
(*                                                                         *)
(* Bounds: MaxOpens pages opened, MaxEdits inputs changed and MaxSaves      *)
(* saves clicked, over all tabs; MaxServing updates between the server's   *)
(* check and its write.                                                    *)
(***************************************************************************)
EXTENDS Naturals, FiniteSets

CONSTANTS
    Tabs,          \* browser tabs, each with a query cache of its own
    Pages,         \* pages the administrators open
    Editable,      \* groups they edit
    Elsewhere,     \* groups changed by imports and by other programs
    Values, Empty, \* what a group holds; Empty is "", 0, false or no entry
    On,            \* of social login: true
    MaxOpens, MaxEdits, MaxSaves, MaxServing,
    NoPage, NoData

AllPages == {"settings", "mailing", "database", "fields", "providers"}

\* The groups each page has a form for.
Own == [settings  |-> {"name", "branding", "security", "social", "issuer"},
        mailing   |-> {"smtp", "templates"},
        database  |-> {"db", "cache"},
        fields    |-> {"fields"},
        providers |-> {"google"}]

Groups == {"github"} \cup UNION {Own[p] : p \in AllPages}

\* The name belongs to the tenant, not to its settings.
Setting == Groups \ {"name"}

\* Groups of which the server keeps the old value when it is sent an empty one.
KeptWhenEmpty == {"issuer", "smtp", "db", "cache"}

\* React Query keys, and the ones each page reads; the last one has the ETag.
Keys == {"tenant", "settings", "mailing", "storage", "fields"}
MainKey == [settings  |-> "settings", mailing |-> "mailing", database |-> "storage",
            fields    |-> "fields", providers |-> "tenant"]
KeysOf(p) == IF p = "settings" THEN {"tenant", "settings"} ELSE {MainKey[p]}

\* Keys whose query function puts the ETag into the page's state.
ETagInState == {"settings", "mailing", "storage"}

ASSUME ConstantsAssumption ==
    /\ Pages \subseteq AllPages /\ NoPage \notin AllPages
    /\ Editable \subseteq Groups /\ Elsewhere \subseteq Setting
    /\ Empty \in Values /\ On \in Values \ {Empty}
    /\ MaxOpens \in Nat /\ MaxEdits \in Nat /\ MaxSaves \in Nat /\ MaxServing \in Nat

VARIABLES
    stored,    \* the tenant's file: a value per group
    version,   \* how many times it was written, its updatedAt
    view,      \* each tab's page and its React state
    cache,     \* each tab's query cache
    gets,      \* GETs on their way; answers nothing tells apart are one
    puts,      \* saves under way
    opens, edits, saves

vars == <<stored, version, view, cache, gets, puts, opens, edits, saves>>

Content  == [Groups -> Values]
Snapshot == [val: Content, ver: Nat]
ASSUME NoDataAssumption == NoData \notin Snapshot /\ NoData \notin Content

ETag(content) == [content EXCEPT !["name"] = Empty]

Phase == {"rename", "renamed", "read", "sent", "checked", "ok", "refused"}
Get   == [tab: Tabs, key: Keys, snap: Snapshot \cup {NoData},
          mine: BOOLEAN, current: BOOLEAN]
Entry == [data: Snapshot \cup {NoData}, stale: BOOLEAN]
View  == [page: AllPages \cup {NoPage}, etag: Content \cup {NoData},
          form: Content, dirty: BOOLEAN, saved: Nat]

\* A save; its payload is a value for some of the groups, and for all of them
\* once the server has merged it.
IsSave(u) ==
    /\ u \in [tab: Tabs, page: AllPages, phase: Phase, etag: Content \cup {NoData},
              payload: {u.payload}, edited: SUBSET Groups, mine: BOOLEAN]
    /\ DOMAIN u.payload \subseteq Groups
    /\ u.payload \in [DOMAIN u.payload -> Values]
    /\ u.phase = "rename" => "name" \in DOMAIN u.payload
    /\ u.phase = "read" => "google" \in DOMAIN u.payload
    /\ u.phase = "checked" => DOMAIN u.payload = Groups

TypeOK ==
    /\ stored \in Content
    /\ version \in Nat
    /\ view \in [Tabs -> View]
    /\ cache \in [Tabs -> [Keys -> Entry]]
    /\ gets \subseteq Get
    /\ \A u \in puts : IsSave(u)
    /\ opens \in 0..MaxOpens /\ edits \in 0..MaxEdits /\ saves \in 0..MaxSaves

Blank  == [g \in Groups |-> Empty]
Closed == [page |-> NoPage, etag |-> NoData, form |-> Blank, dirty |-> FALSE,
           saved |-> 0]

Init ==
    /\ \E v \in Values \ {Empty} : stored = [Blank EXCEPT !["github"] = v]
    /\ version = 0
    /\ view = [t \in Tabs |-> Closed]
    /\ cache = [t \in Tabs |-> [k \in Keys |-> [data |-> NoData, stale |-> TRUE]]]
    /\ gets = {} /\ puts = {}
    /\ opens = 0 /\ edits = 0 /\ saves = 0

-----------------------------------------------------------------------------
(* Queries                                                                  *)

Fetching(t, k) == {g \in gets : g.tab = t /\ g.key = k /\ g.current}

NewGet(t, k) == [tab |-> t, key |-> k, snap |-> NoData, mine |-> TRUE,
                 current |-> TRUE]

Loaded(t) == \A k \in KeysOf(view[t].page) : cache[t][k].data # NoData

\* The form a page fills from its data, as the effects on [tenant, settings] do;
\* the database's DSN and the providers' credentials are always typed anew.
Filled(c, p) ==
    [g \in Groups |->
        IF g \notin Own[p] \ {"db", "google"} THEN Empty
        ELSE IF g = "name" THEN c["tenant"].data.val[g]
        ELSE c[MainKey[p]].data.val[g]]

\* What a key's answer shows: a refetch that finds the same is not a change.  The
\* tenant has its updatedAt, which every write of the file renews.
Shows(k, snap) == IF k = "tenant" THEN snap.ver ELSE ETag(snap.val)

\* A page is mounted: data still fresh is used as it is, and then no query
\* function runs to set the ETag; a fetch under way is joined.
Open(t, p) ==
    LET ready == \A k \in KeysOf(p) : cache[t][k].data # NoData
        ask   == {k \in KeysOf(p) : cache[t][k].stale /\ Fetching(t, k) = {}}
    IN
    /\ view[t].page = NoPage
    /\ opens < MaxOpens
    /\ opens' = opens + 1
    /\ view' = [view EXCEPT ![t] =
          [Closed EXCEPT !.page = p,
                         !.form = IF ready THEN Filled(cache[t], p) ELSE Blank]]
    /\ gets' = gets \cup {NewGet(t, k) : k \in ask}
    /\ UNCHANGED <<stored, version, cache, puts, edits, saves>>

\* The page is left.  Requests go on; what they set in the page is lost, and a
\* save between its two requests keeps the ETag it last saw.  (Bound: the last
\* page opened is not left.)
Leave(t) ==
    /\ view[t].page # NoPage /\ opens < MaxOpens
    /\ view' = [view EXCEPT ![t] = Closed]
    /\ gets' = {IF g.tab = t THEN [g EXCEPT !.mine = FALSE] ELSE g : g \in gets}
    /\ puts' = {IF u.tab = t /\ u.mine
                THEN [u EXCEPT !.mine = FALSE,
                               !.etag = IF u.phase \in {"rename", "renamed"}
                                        THEN view[t].etag ELSE @]
                ELSE u : u \in puts}
    /\ UNCHANGED <<stored, version, cache, opens, edits, saves>>

\* The server answers a GET with what is stored now.
Serve(g) ==
    /\ g.snap = NoData
    /\ gets' = (gets \ {g}) \cup {[g EXCEPT !.snap = [val |-> stored, ver |-> version]]}
    /\ UNCHANGED <<stored, version, view, cache, puts, opens, edits, saves>>

\* An answer arrives.  The query function sets the ETag even when the query has
\* been fetched again since; only the latest fetch becomes data, and only data
\* that differs resets the form.
Arrive(g) ==
    LET t == g.tab
        new == [cache[t] EXCEPT ![g.key] = [data |-> g.snap, stale |-> FALSE]]
        p == view[t].page
        etag == IF g.mine /\ g.key \in ETagInState THEN ETag(g.snap.val)
                ELSE view[t].etag
        changed == \/ cache[t][g.key].data = NoData
                   \/ Shows(g.key, cache[t][g.key].data) # Shows(g.key, g.snap)
        refill == /\ p # NoPage /\ g.current /\ changed
                  /\ g.key \in KeysOf(p)
                  /\ \A k \in KeysOf(p) : new[k].data # NoData
    IN
    /\ g.snap # NoData
    /\ gets' = gets \ {g}
    /\ cache' = IF g.current THEN [cache EXCEPT ![t] = new] ELSE cache
    /\ view' = [view EXCEPT ![t].etag = etag,
                            ![t].form = IF refill THEN Filled(new, p) ELSE @,
                            ![t].dirty = IF refill THEN FALSE ELSE @]
    /\ UNCHANGED <<stored, version, puts, opens, edits, saves>>

\* A GET fails for good: the old data stays, marked as it was.
GetFails(g) ==
    /\ g.snap = NoData
    /\ gets' = gets \ {g}
    /\ UNCHANGED <<stored, version, view, cache, puts, opens, edits, saves>>

\* Data is fresh for a minute (staleTime); after that the next mount fetches.
Expire(t, k) ==
    /\ view[t].page = NoPage /\ ~cache[t][k].stale
    /\ cache' = [cache EXCEPT ![t][k].stale = TRUE]
    /\ UNCHANGED <<stored, version, view, gets, puts, opens, edits, saves>>

\* queryClient.invalidateQueries: a key on screen is fetched again and whatever
\* is on its way is dropped - but a first fetch, with no data yet, is joined;
\* any other key is fetched when next mounted.
Invalidate(t, ks) ==
    LET shown == IF view[t].page = NoPage THEN {} ELSE KeysOf(view[t].page)
        again == {k \in ks \cap shown : \/ cache[t][k].data # NoData
                                        \/ Fetching(t, k) = {}}
        drop(g) == g.tab = t /\ g.key \in again
    IN
    /\ cache' = [cache EXCEPT ![t] =
          [k \in Keys |-> IF k \in ks THEN [@[k] EXCEPT !.stale = TRUE] ELSE @[k]]]
    /\ gets' = {IF drop(g) THEN [g EXCEPT !.current = FALSE] ELSE g : g \in gets}
               \cup {NewGet(t, k) : k \in again}

-----------------------------------------------------------------------------
(* Editing                                                                  *)

Type(t, p, g, v) ==
    /\ view[t].page = p /\ Loaded(t)
    /\ g \in Editable
    /\ v # view[t].form[g]
    /\ edits < MaxEdits
    /\ edits' = edits + 1
    /\ view' = [view EXCEPT ![t].form[g] = v, ![t].dirty = TRUE]
    /\ UNCHANGED <<stored, version, cache, gets, puts, opens, saves>>

\* The tabs of the settings page; nothing is disabled while a save runs.
EditGeneral(t, v)  == Type(t, "settings", "name", v)
EditBranding(t, v) == Type(t, "settings", "branding", v)
EditSecurity(t, v) == Type(t, "settings", "security", v)
EditSocial(t, v)   == Type(t, "settings", "social", v)
EditIssuer(t, v)   == Type(t, "settings", "issuer", v)

EditSMTP(t, v)      == Type(t, "mailing", "smtp", v)
EditTemplates(t, v) == Type(t, "mailing", "templates", v)

EditDatabase(t, v) == Type(t, "database", "db", v)
EditCache(t, v)    == Type(t, "database", "cache", v)

EditFields(t, v) == Type(t, "fields", "fields", v)

\* handleCancelFieldChanges
CancelFields(t) ==
    /\ view[t].page = "fields" /\ Loaded(t) /\ view[t].dirty
    /\ view' = [view EXCEPT ![t].form = Filled(cache[t], "fields"), ![t].dirty = FALSE]
    /\ UNCHANGED <<stored, version, cache, gets, puts, opens, edits, saves>>

-----------------------------------------------------------------------------
(* Saving                                                                   *)

\* isPending of the page's mutation: a page has one save at a time.
Pending(t) == \E u \in puts : u.tab = t /\ u.mine

\* What the page last read, with the groups gs from its form.
Edit(t, gs) ==
    [g \in Setting |-> IF g \in gs THEN view[t].form[g]
                      ELSE cache[t][MainKey[view[t].page]].data.val[g]]

Changed(t) ==
    {g \in Own[view[t].page] : view[t].form[g] # Filled(cache[t], view[t].page)[g]}

Submit(t, p, phase, etag, payload, edited) ==
    /\ view[t].page = p /\ ~Pending(t)
    /\ saves < MaxSaves
    /\ saves' = saves + 1
    /\ puts' = puts \cup {[tab |-> t, page |-> p, phase |-> phase, etag |-> etag,
                           payload |-> payload, edited |-> edited, mine |-> TRUE]}
    /\ UNCHANGED <<stored, version, view, cache, gets, opens, edits>>

\* Mutant: the language, of which the server has no field, is sent as well.
SaveSettingsAll(t) ==
    /\ view[t].page = "settings" /\ Loaded(t) /\ view[t].dirty
    /\ Submit(t, "settings", "rename", NoData,
              [g \in Own["settings"] \cup {"language"} |->
                 IF g = "language" THEN Empty ELSE view[t].form[g]], Changed(t))

\* handleSave: the tenant first, its settings in a second request.
SaveSettings(t) ==
    LET sent == {"name", "branding", "security", "social"}
                \cup {g \in {"issuer"} : view[t].form[g] # Empty}
    IN
    /\ view[t].page = "settings" /\ Loaded(t) /\ view[t].dirty
    /\ Submit(t, "settings", "rename", NoData, [g \in sent |-> view[t].form[g]],
              Changed(t))

\* saveSettings; the button is there while the form differs from the data.
SaveMailing(t) ==
    /\ view[t].page = "mailing" /\ Loaded(t) /\ Changed(t) # {}
    /\ view[t].etag # NoData
    /\ Submit(t, "mailing", "sent", view[t].etag, Edit(t, Own["mailing"]), Changed(t))

\* handleSaveDB and handleSaveCache, without looking at the ETag.
SaveDatabase(t) ==
    /\ view[t].page = "database" /\ Loaded(t)
    /\ view[t].form["db"] # Empty
    /\ Submit(t, "database", "sent", view[t].etag, Edit(t, {"db"}), {"db"})

SaveCache(t) ==
    /\ view[t].page = "database" /\ Loaded(t) /\ "cache" \in Changed(t)
    /\ Submit(t, "database", "sent", view[t].etag, Edit(t, {"cache"}), {"cache"})

\* Mutant: the ETag is asked for when the save is clicked.
SaveFieldsFreshETag(t) ==
    /\ view[t].page = "fields" /\ Loaded(t) /\ view[t].dirty
    /\ Submit(t, "fields", "sent", ETag(stored), Edit(t, {"fields"}), {"fields"})

\* handleSaveAllFields: the ETag that came with the data.
SaveFields(t) ==
    /\ view[t].page = "fields" /\ Loaded(t) /\ view[t].dirty
    /\ Submit(t, "fields", "sent", ETag(cache[t]["fields"].data.val),
              Edit(t, {"fields"}), {"fields"})

\* The provider dialog: Google is the one provider the console stores, and
\* storing it enables social login for the tenant.
SaveProvider(t, v) ==
    /\ v # Empty /\ "google" \in Editable
    /\ Submit(t, "providers", "read", NoData,
              [g \in {"google", "social"} |-> IF g = "social" THEN On ELSE v],
              {"google"})

DisableProvider(t) ==
    /\ "google" \in Editable
    /\ Submit(t, "providers", "read", NoData, [g \in {"google"} |-> Empty], {"google"})

Becomes(u, w) == puts' = (puts \ {u}) \cup {w}

\* A provider save reads the settings and sends them back under the ETag they
\* came with; GitHub is not among what it sends, so it is sent as disabled.
ReadBeforeSave(u) ==
    /\ u.phase = "read"
    /\ Becomes(u, [u EXCEPT !.phase = "sent", !.etag = ETag(stored),
          !.payload = [g \in Setting |-> IF g \in DOMAIN u.payload THEN u.payload[g]
                                         ELSE IF g = "github" THEN Empty
                                         ELSE stored[g]]])
    /\ UNCHANGED <<stored, version, view, cache, gets, opens, edits, saves>>

\* PUT of the tenant, with no ETag.  (Its read and its write of the whole tenant
\* are one step here: a settings update between the two would be undone.)
Rename(u) ==
    /\ u.phase = "rename"
    /\ stored' = [stored EXCEPT !["name"] = u.payload["name"]]
    /\ version' = version + 1
    /\ Becomes(u, [u EXCEPT !.phase = "renamed"])
    /\ UNCHANGED <<view, cache, gets, opens, edits, saves>>

\* The tenant's answer: its query is refetched and the settings are sent under
\* the ETag the page holds by now; without one the save ends half done.
Renamed(u) ==
    LET etag == IF u.mine THEN view[u.tab].etag ELSE u.etag IN
    /\ u.phase = "renamed"
    /\ Invalidate(u.tab, {"tenant"})
    /\ IF etag = NoData
       THEN puts' = puts \ {u}
       ELSE Becomes(u, [u EXCEPT !.phase = "sent", !.etag = etag])
    /\ UNCHANGED <<stored, version, view, opens, edits, saves>>

\* What the server makes of a payload: groups it was sent replace the old ones.
Merge(old, payload) ==
    [g \in Groups |->
        IF g \in DOMAIN payload \ {"name"} /\ ~(g \in KeptWhenEmpty /\ payload[g] = Empty)
        THEN payload[g] ELSE old[g]]

\* Updates between their check and their write.
Serving == {u \in puts : u.phase = "checked"}

\* The server compares the ETag (none is refused) and merges into what it read,
Check(u) ==
    /\ u.phase = "sent"
    /\ IF u.etag = ETag(stored)
       THEN /\ Cardinality(Serving) < MaxServing
            /\ Becomes(u, [u EXCEPT !.phase = "checked",
                                    !.payload = Merge(stored, u.payload)])
       ELSE Becomes(u, [u EXCEPT !.phase = "refused"])
    /\ UNCHANGED <<stored, version, view, cache, gets, opens, edits, saves>>

\* and writes it later, whatever was written meanwhile.
Write(u) ==
    /\ u.phase = "checked"
    /\ stored' = [u.payload EXCEPT !["name"] = stored["name"]]
    /\ version' = version + 1
    /\ Becomes(u, [u EXCEPT !.phase = "ok"])
    /\ UNCHANGED <<view, cache, gets, opens, edits, saves>>

\* What the page that made the save sets in its state.
Acknowledge(u) ==
    view' = IF u.mine
            THEN [view EXCEPT ![u.tab].dirty = FALSE, ![u.tab].saved = version]
            ELSE view

\* Mutant: the success handler forgets the query.
SavedSilently(u) ==
    /\ u.phase = "ok"
    /\ Acknowledge(u)
    /\ puts' = puts \ {u}
    /\ UNCHANGED <<stored, version, cache, gets, opens, edits, saves>>

Saved(u) ==
    /\ u.phase = "ok"
    /\ Acknowledge(u)
    /\ Invalidate(u.tab, {MainKey[u.page]})
    /\ puts' = puts \ {u}
    /\ UNCHANGED <<stored, version, opens, edits, saves>>

\* 412 or 428: a message, and the form stays; nothing is fetched again.
Rejected(u) ==
    /\ u.phase = "refused"
    /\ puts' = puts \ {u}
    /\ UNCHANGED <<stored, version, view, cache, gets, opens, edits, saves>>

\* A request or its answer is lost: the page reports an error.
SaveFails(u) ==
    /\ u.phase \in {"rename", "renamed", "read", "sent", "ok"}
    /\ puts' = puts \ {u}
    /\ UNCHANGED <<stored, version, view, cache, gets, opens, edits, saves>>

\* handleImport: an exported file is merged into the settings without an ETag;
\* only the tenant's query is told.
Import(t, g, v) ==
    /\ view[t].page = "settings" /\ g \in Elsewhere
    /\ Cardinality(Serving) < MaxServing
    /\ saves < MaxSaves
    /\ saves' = saves + 1
    /\ stored' = Merge(stored, [h \in {g} |-> v])
    /\ version' = version + 1
    /\ Invalidate(t, {"tenant"})
    /\ UNCHANGED <<view, puts, opens, edits>>

\* Another administrator, or a program, changes one group through the same PUT.
OtherSave(g, v) ==
    /\ Cardinality(Serving) < MaxServing
    /\ saves < MaxSaves
    /\ saves' = saves + 1
    /\ g \in Elsewhere /\ v # stored[g]
    /\ stored' = Merge(stored, [h \in {g} |-> v])
    /\ version' = version + 1
    /\ UNCHANGED <<view, cache, gets, puts, opens, edits>>

-----------------------------------------------------------------------------
TabStep(t) ==
    \/ \E p \in Pages : Open(t, p)
    \/ Leave(t)
    \/ \E k \in Keys : Expire(t, k)
    \/ \E v \in Values :
          \/ EditGeneral(t, v) \/ EditBranding(t, v) \/ EditSecurity(t, v) \/ EditSocial(t, v)
          \/ EditIssuer(t, v)
          \/ EditSMTP(t, v) \/ EditTemplates(t, v)
          \/ EditDatabase(t, v) \/ EditCache(t, v) \/ EditFields(t, v)
          \/ SaveProvider(t, v)
          \/ \E g \in Groups : Import(t, g, v)
    \/ CancelFields(t)
    \/ SaveSettings(t) \/ SaveMailing(t) \/ SaveDatabase(t) \/ SaveCache(t)
    \/ SaveFields(t) \/ DisableProvider(t)

GetStep == \E g \in gets : Serve(g) \/ Arrive(g) \/ GetFails(g)

PutStep ==
    \E u \in puts : \/ ReadBeforeSave(u) \/ Rename(u) \/ Renamed(u) \/ Check(u)
                    \/ Write(u) \/ Saved(u) \/ Rejected(u) \/ SaveFails(u)

Next ==
    \/ \E t \in Tabs : TabStep(t)
    \/ GetStep
    \/ PutStep
    \/ \E g \in Groups, v \in Values : OtherSave(g, v)

Spec == Init /\ [][Next]_vars

-----------------------------------------------------------------------------
(* Properties                                                               *)

OnlyEdited(u) == Write(u) => \A g \in Groups \ u.edited : stored'[g] = stored[g]

\* What a save of a provider is known to store besides what was edited: GitHub,
\* which it does not send, is disabled, and configuring Google enables social
\* login.
Besides(u) ==
    {c \in {<<"github", Empty>>, <<"social", On>>} :
        /\ u.page = "providers"
        /\ c[1] = "social" => u.payload["google"] # Empty}

(***************************************************************************)
(* A save of the user fields or of a provider, which send back all the     *)
(* settings they read, changes nothing its administrator did not edit,     *)
(* whatever other tabs stored meanwhile and in whatever order answers      *)
(* came: the If-Match of these two pages belongs to the settings sent.     *)
(* Excepted are the two values a save of a provider puts in by itself.     *)
(***************************************************************************)
NoForeignOverwrite ==
    [][\A u \in puts :
          u.page \in {"fields", "providers"} /\ Write(u) =>
             \A g \in Groups \ u.edited :
                stored'[g] = stored[g] \/ <<g, stored'[g]>> \in Besides(u)]_vars

(***************************************************************************)
(* The same for every page and without exception: the ETag protects what   *)
(* others stored (Check ETag for concurrency control, tenants_service.go). *)
(* It does not hold.                                                       *)
(***************************************************************************)
NoLostUpdate == [][\A u \in puts : OnlyEdited(u)]_vars

(***************************************************************************)
(* A provider is configured or disabled without any other setting being    *)
(* changed.  It does not hold: what the Security tab says of social login  *)
(* and what was stored for GitHub are overwritten.                         *)
(***************************************************************************)
ProviderAlone ==
    [][\A u \in puts : u.page = "providers" => OnlyEdited(u)]_vars

(***************************************************************************)
(* A page that stays open after its own save was confirmed shows data at   *)
(* least as new as that save, once nothing of it is being fetched and its  *)
(* last fetch did not fail: no answer from before the save comes last.     *)
(* Left out is the providers page, which can save before its first fetch   *)
(* of the tenant is answered and then joins that fetch.                     *)
(***************************************************************************)
ReadYourSave ==
    \A t \in Tabs :
        LET k == MainKey[view[t].page] IN
        (view[t].page \notin {NoPage, "providers"} /\ view[t].saved > 0
         /\ Fetching(t, k) = {} /\ ~cache[t][k].stale)
        => cache[t][k].data.ver >= view[t].saved

=============================================================================
