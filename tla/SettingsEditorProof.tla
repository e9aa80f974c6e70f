------------------------- MODULE SettingsEditorProof -------------------------
(***************************************************************************)
(* Invariants of SettingsEditor, proved for every set of tabs, pages and   *)
(* values and every number of edits and saves.                             *)
(***************************************************************************)
EXTENDS SettingsEditor, FiniteSetTheorems, TLAPS

-----------------------------------------------------------------------------
(* Types                                                                    *)

LEMMA GroupNames ==
    /\ Groups = {"name", "branding", "security", "social", "issuer", "smtp", "templates",
                 "db", "cache", "fields", "google", "github"}
    /\ \A p \in AllPages : Own[p] \subseteq Groups
    /\ \A p \in AllPages : MainKey[p] \in Keys
    /\ \A p \in AllPages : KeysOf(p) \subseteq Keys /\ MainKey[p] \in KeysOf(p)
    /\ \A p \in AllPages : "name" \in Own[p] => p = "settings"
    /\ Setting = Groups \ {"name"}
  BY DEF Groups, AllPages, Own, MainKey, KeysOf, Keys, Setting

LEMMA FilledType ==
    ASSUME NEW c \in [Keys -> Entry], NEW p \in AllPages,
           \A k \in KeysOf(p) : c[k].data # NoData
    PROVE  Filled(c, p) \in Content
  <1>1. \A k \in KeysOf(p) : c[k].data.val \in Content
    BY GroupNames DEF Entry, Snapshot
  <1>2. Empty \in Values
    BY ConstantsAssumption
  <1>3. ASSUME NEW g \in Groups
        PROVE  (IF g \notin Own[p] \ {"db", "google"} THEN Empty
                ELSE IF g = "name" THEN c["tenant"].data.val[g]
                ELSE c[MainKey[p]].data.val[g]) \in Values
    <2>1. CASE g \notin Own[p] \ {"db", "google"}
      BY <2>1, <1>2
    <2>2. CASE g \in Own[p] \ {"db", "google"} /\ g = "name"
      <3>1. "tenant" \in KeysOf(p)
        BY <2>2, GroupNames DEF KeysOf
      <3>2. QED
        BY <3>1, <2>2, <1>1 DEF Content
    <2>3. CASE g \in Own[p] \ {"db", "google"} /\ g # "name"
      BY <2>3, <1>1, GroupNames DEF Content
    <2>4. QED
      BY <2>1, <2>2, <2>3
  <1>4. QED
    BY <1>3 DEF Filled, Content

LEMMA ETagType ==
    ASSUME NEW c \in Content
    PROVE  ETag(c) \in Content
  BY ConstantsAssumption DEF ETag, Content

LEMMA MergeType ==
    ASSUME NEW old \in Content, NEW D, NEW payload \in [D -> Values]
    PROVE  Merge(old, payload) \in Content
  BY DEF Merge, Content

LEMMA InvalidateType ==
    ASSUME TypeOK, NEW t \in Tabs, NEW ks \in SUBSET Keys, Invalidate(t, ks)
    PROVE  /\ cache' \in [Tabs -> [Keys -> Entry]]
           /\ gets' \subseteq Get
  <1>1. cache' \in [Tabs -> [Keys -> Entry]]
    <2>1. ASSUME NEW k \in Keys
          PROVE  (IF k \in ks THEN [cache[t][k] EXCEPT !.stale = TRUE] ELSE cache[t][k]) \in Entry
      <3>1. cache[t] \in [Keys -> Entry]
        BY DEF TypeOK
      <3>2. cache[t][k] \in Entry
        BY <3>1
      <3>3. [cache[t][k] EXCEPT !.stale = TRUE] \in Entry
        BY <3>2 DEF Entry
      <3>4. QED
        BY <3>2, <3>3
    <2>2. QED
      BY <2>1 DEF TypeOK, Invalidate
  <1>2. ASSUME NEW g \in gets
        PROVE  [g EXCEPT !.current = FALSE] \in Get
    BY DEF TypeOK, Get
  <1>3. ASSUME NEW k \in Keys
        PROVE  NewGet(t, k) \in Get
    BY DEF NewGet, Get
  <1>4. gets' \subseteq Get
    BY <1>2, <1>3 DEF TypeOK, Invalidate
  <1>5. QED
    BY <1>1, <1>4

LEMMA SubmitType ==
    ASSUME TypeOK, NEW t \in Tabs, NEW p \in AllPages, NEW phase \in Phase,
           NEW etag \in Content \cup {NoData}, NEW D \in SUBSET Groups,
           NEW payload \in [D -> Values], NEW edited \in SUBSET Groups,
           Submit(t, p, phase, etag, payload, edited),
           phase = "rename" => "name" \in D,
           phase = "read" => "google" \in D,
           phase # "checked"
    PROVE  TypeOK'
  <1> DEFINE w == [tab |-> t, page |-> p, phase |-> phase, etag |-> etag,
                   payload |-> payload, edited |-> edited, mine |-> TRUE]
  <1>1. IsSave(w)
    BY DEF IsSave
  <1>2. puts' = puts \cup {w}
    BY DEF Submit
  <1>3. \A u \in puts' : IsSave(u)
    BY <1>1, <1>2 DEF TypeOK
  <1>4. saves' \in 0..MaxSaves
    BY ConstantsAssumption DEF TypeOK, Submit
  <1> HIDE DEF w
  <1>5. (\A u \in puts : IsSave(u))'
    BY <1>3 DEF IsSave
  <1>6. QED
    BY <1>4, <1>5 DEF TypeOK, Submit

LEMMA TypingType ==
    ASSUME TypeOK, NEW t \in Tabs, NEW p \in AllPages, NEW g \in Groups,
           NEW v \in Values, Type(t, p, g, v)
    PROVE  TypeOK'
  <1>1. [view[t] EXCEPT !.form = [view[t].form EXCEPT ![g] = v], !.dirty = TRUE] \in View
    BY DEF TypeOK, View, Content
  <1>2. view' = [view EXCEPT ![t] =
          [view[t] EXCEPT !.form = [view[t].form EXCEPT ![g] = v], !.dirty = TRUE]]
    BY DEF Type, TypeOK
  <1>3. view' \in [Tabs -> View]
    BY <1>1, <1>2 DEF TypeOK
  <1>4. edits' \in 0..MaxEdits
    BY ConstantsAssumption DEF TypeOK, Type
  <1>5. QED
    BY <1>3, <1>4 DEF TypeOK, Type, IsSave

\* What a page makes of its form and of what it read.
LEMMA EditType ==
    ASSUME TypeOK, NEW t \in Tabs, view[t].page \in AllPages, Loaded(t),
           NEW gs \in SUBSET Groups
    PROVE  /\ Edit(t, gs) \in [Setting -> Values]
           /\ Changed(t) \subseteq Groups
  <1>1. cache[t][MainKey[view[t].page]].data.val \in Content
    BY GroupNames DEF TypeOK, Entry, Snapshot, Loaded
  <1>2. view[t].form \in Content
    BY DEF TypeOK, View
  <1>3. QED
    BY <1>1, <1>2, GroupNames DEF Edit, Changed, Content

LEMMA OpenType ==
    ASSUME TypeOK, NEW t \in Tabs, NEW p \in AllPages, Open(t, p)
    PROVE  TypeOK'
  <1> DEFINE form == IF \A k \in KeysOf(p) : cache[t][k].data # NoData
                     THEN Filled(cache[t], p) ELSE Blank
  <1>1. form \in Content
    BY FilledType, ConstantsAssumption DEF TypeOK, Blank, Content
  <1>2. [Closed EXCEPT !.page = p, !.form = form] \in View
    BY <1>1, ConstantsAssumption DEF Closed, View
  <1>3. view' = [view EXCEPT ![t] = [Closed EXCEPT !.page = p, !.form = form]]
    BY DEF Open
  <1>4. view' \in [Tabs -> View]
    BY <1>2, <1>3 DEF TypeOK
  <1>5. ASSUME NEW k \in Keys
        PROVE  NewGet(t, k) \in Get
    BY DEF NewGet, Get
  <1>6. gets' \subseteq Get
    BY <1>5, GroupNames DEF TypeOK, Open
  <1>7. opens' \in 0..MaxOpens
    BY ConstantsAssumption DEF TypeOK, Open
  <1>8. QED
    BY <1>4, <1>6, <1>7 DEF TypeOK, Open, IsSave

LEMMA LeaveType ==
    ASSUME TypeOK, NEW t \in Tabs, Leave(t)
    PROVE  TypeOK'
  <1>1. Closed \in View
    BY ConstantsAssumption DEF Closed, View, Blank, Content
  <1>2. ASSUME NEW g \in gets
        PROVE  [g EXCEPT !.mine = FALSE] \in Get
    BY DEF TypeOK, Get
  <1>3. ASSUME NEW u \in puts, NEW e \in Content \cup {NoData}
        PROVE  IsSave([u EXCEPT !.mine = FALSE, !.etag = e])
    BY DEF TypeOK, IsSave
  <1>4. view[t].etag \in Content \cup {NoData}
    BY DEF TypeOK, View
  <1>5. ASSUME NEW u \in puts
        PROVE  u.etag \in Content \cup {NoData}
    BY DEF TypeOK, IsSave
  <1>6. ASSUME NEW w \in puts'
        PROVE  IsSave(w)
    <2>1. PICK u \in puts :
            w = IF u.tab = t /\ u.mine
                THEN [u EXCEPT !.mine = FALSE,
                               !.etag = IF u.phase \in {"rename", "renamed"}
                                        THEN view[t].etag ELSE @]
                ELSE u
      BY DEF Leave
    <2>2. QED
      BY <2>1, <1>3, <1>4, <1>5 DEF TypeOK
  <1>7. gets' \subseteq Get
    BY <1>2 DEF TypeOK, Leave
  <1>8. view' \in [Tabs -> View]
    BY <1>1 DEF TypeOK, Leave
  <1>9. QED
    BY <1>6, <1>7, <1>8 DEF TypeOK, Leave, IsSave

LEMMA ArriveType ==
    ASSUME TypeOK, NEW g \in gets, Arrive(g)
    PROVE  TypeOK'
  <1> DEFINE t == g.tab
             p == view[t].page
             new == [cache[t] EXCEPT ![g.key] = [data |-> g.snap, stale |-> FALSE]]
  <1>1. g.tab \in Tabs /\ g.key \in Keys /\ g.snap \in Snapshot
    BY DEF TypeOK, Get, Arrive
  <1>2. new \in [Keys -> Entry]
    BY <1>1 DEF TypeOK, Entry
  <1>3. view[t] \in View /\ p \in AllPages \cup {NoPage}
    BY <1>1 DEF TypeOK, View
  <1>4. ETag(g.snap.val) \in Content
    BY <1>1, ETagType DEF Snapshot
  <1>5. p # NoPage /\ (\A k \in KeysOf(p) : new[k].data # NoData)
        => Filled(new, p) \in Content
    BY <1>2, <1>3, FilledType
  <1> HIDE DEF new, p, t
  <1>6. \E e \in Content \cup {NoData}, f \in Content, d \in BOOLEAN :
           view' = [view EXCEPT ![t].etag = e, ![t].form = f, ![t].dirty = d]
    <2>1. view[t].etag \in Content \cup {NoData} /\ view[t].form \in Content
          /\ view[t].dirty \in BOOLEAN
      BY <1>3 DEF View
    <2> DEFINE changed == \/ cache[t][g.key].data = NoData
                          \/ Shows(g.key, cache[t][g.key].data) # Shows(g.key, g.snap)
               refill == /\ p # NoPage /\ g.current /\ changed
                         /\ g.key \in KeysOf(p)
                         /\ \A k \in KeysOf(p) : new[k].data # NoData
               e == IF g.mine /\ g.key \in ETagInState THEN ETag(g.snap.val) ELSE view[t].etag
               f == IF refill THEN Filled(new, p) ELSE view[t].form
               d == IF refill THEN FALSE ELSE view[t].dirty
    <2>2. e \in Content \cup {NoData}
      BY <2>1, <1>4
    <2>3. f \in Content
      BY <2>1, <1>5
    <2>4. d \in BOOLEAN
      BY <2>1
    <2>5. view' = [view EXCEPT ![t].etag = e, ![t].form = f, ![t].dirty = d]
      BY <1>1, <1>3 DEF Arrive, new, p, t, TypeOK, View
    <2>6. QED
      BY <2>2, <2>3, <2>4, <2>5
  <1>7. view' \in [Tabs -> View]
    BY <1>1, <1>3, <1>6 DEF TypeOK, View, t
  <1>8. cache' \in [Tabs -> [Keys -> Entry]]
    BY <1>1, <1>2 DEF TypeOK, Arrive, new, t
  <1>9. gets' \subseteq Get
    BY DEF TypeOK, Arrive
  <1>10. QED
    BY <1>7, <1>8, <1>9 DEF TypeOK, Arrive, IsSave

\* The four actions that change nothing but a query or a form.
LEMMA QueryType ==
    ASSUME TypeOK,
           \/ \E g \in gets : Serve(g) \/ GetFails(g)
           \/ \E t \in Tabs, k \in Keys : Expire(t, k)
           \/ \E t \in Tabs : CancelFields(t)
    PROVE  TypeOK'
  <1>1. ASSUME NEW g \in gets, Serve(g)
        PROVE  TypeOK'
    <2>1. [g EXCEPT !.snap = [val |-> stored, ver |-> version]] \in Get
      BY DEF TypeOK, Get, Snapshot
    <2>2. QED
      BY <1>1, <2>1 DEF TypeOK, Serve, IsSave
  <1>2. ASSUME NEW g \in gets, GetFails(g)
        PROVE  TypeOK'
    BY <1>2 DEF TypeOK, GetFails, IsSave
  <1>3. ASSUME NEW t \in Tabs, NEW k \in Keys, Expire(t, k)
        PROVE  TypeOK'
    <2>1. cache[t] \in [Keys -> Entry] /\ cache[t][k] \in Entry
      BY DEF TypeOK
    <2>2. [cache[t][k] EXCEPT !.stale = TRUE] \in Entry
      BY <2>1 DEF Entry
    <2>3. cache' = [cache EXCEPT ![t] =
                     [cache[t] EXCEPT ![k] = [cache[t][k] EXCEPT !.stale = TRUE]]]
      BY <1>3 DEF Expire
    <2>4. cache' \in [Tabs -> [Keys -> Entry]]
      BY <2>1, <2>2, <2>3 DEF TypeOK
    <2>5. QED
      BY <1>3, <2>4 DEF TypeOK, Expire, IsSave
  <1>4. ASSUME NEW t \in Tabs, CancelFields(t)
        PROVE  TypeOK'
    <2>1. Filled(cache[t], "fields") \in Content
      BY <1>4, FilledType DEF TypeOK, CancelFields, Loaded, AllPages
    <2>2. [view[t] EXCEPT !.form = Filled(cache[t], "fields"), !.dirty = FALSE] \in View
      BY <2>1 DEF TypeOK, View
    <2>3. view' = [view EXCEPT ![t] =
            [view[t] EXCEPT !.form = Filled(cache[t], "fields"), !.dirty = FALSE]]
      BY <1>4 DEF TypeOK, CancelFields
    <2>4. view' \in [Tabs -> View]
      BY <2>2, <2>3 DEF TypeOK
    <2>5. QED
      BY <1>4, <2>4 DEF TypeOK, CancelFields, IsSave
  <1>5. QED
    BY <1>1, <1>2, <1>3, <1>4

\* A group stored at once, by an import or by another program.
LEMMA ElsewhereType ==
    ASSUME TypeOK,
           \E g \in Groups, v \in Values : OtherSave(g, v) \/ \E t \in Tabs : Import(t, g, v)
    PROVE  TypeOK'
  <1>1. ASSUME NEW g \in Groups, NEW v \in Values
        PROVE  Merge(stored, [h \in {g} |-> v]) \in Content
    <2>1. [h \in {g} |-> v] \in [{g} -> Values]
      OBVIOUS
    <2>2. QED
      BY <2>1, MergeType DEF TypeOK
  <1>2. ASSUME NEW g \in Groups, NEW v \in Values, OtherSave(g, v)
        PROVE  TypeOK'
    <2>1. stored' \in Content
      BY <1>1, <1>2 DEF OtherSave
    <2>2. saves' \in 0..MaxSaves
      BY <1>2, ConstantsAssumption DEF TypeOK, OtherSave
    <2>3. QED
      BY <1>2, <2>1, <2>2 DEF TypeOK, OtherSave, IsSave
  <1>3. ASSUME NEW g \in Groups, NEW v \in Values, NEW t \in Tabs, Import(t, g, v)
        PROVE  TypeOK'
    <2>1. {"tenant"} \subseteq Keys
      BY DEF Keys
    <2>2. /\ cache' \in [Tabs -> [Keys -> Entry]]
          /\ gets' \subseteq Get
      BY <1>3, <2>1, InvalidateType DEF Import
    <2>3. stored' \in Content
      BY <1>1, <1>3 DEF Import
    <2>4. saves' \in 0..MaxSaves
      BY <1>3, ConstantsAssumption DEF TypeOK, Import
    <2>5. QED
      BY <1>3, <2>2, <2>3, <2>4 DEF TypeOK, Import, IsSave
  <1>4. QED
    BY <1>2, <1>3

\* A save is clicked.
LEMMA SaveType ==
    ASSUME TypeOK, NEW t \in Tabs,
           \/ SaveSettings(t) \/ SaveMailing(t) \/ SaveDatabase(t) \/ SaveCache(t)
           \/ SaveFields(t) \/ DisableProvider(t)
           \/ \E v \in Values : SaveProvider(t, v)
    PROVE  TypeOK'
  <1>0. view[t].form \in Content /\ view[t].etag \in Content \cup {NoData}
    BY DEF TypeOK, View
  <1>1. CASE SaveSettings(t)
    <2> DEFINE sent == {"name", "branding", "security", "social"}
                       \cup {g \in {"issuer"} : view[t].form[g] # Empty}
    <2>1. sent \subseteq Groups
      BY GroupNames
    <2>2. [g \in sent |-> view[t].form[g]] \in [sent -> Values]
      BY <1>0, <2>1 DEF Content
    <2>3. Changed(t) \subseteq Groups
      BY <1>1, EditType DEF SaveSettings, AllPages
    <2>4. Submit(t, "settings", "rename", NoData, [g \in sent |-> view[t].form[g]],
                 Changed(t))
      BY <1>1 DEF SaveSettings
    <2>5. "name" \in sent
      OBVIOUS
    <2> HIDE DEF sent
    <2>6. QED
      BY <2>1, <2>2, <2>3, <2>4, <2>5, SubmitType DEF AllPages, Phase
  <1>2. CASE SaveMailing(t)
    <2>1. /\ Edit(t, Own["mailing"]) \in [Setting -> Values]
          /\ Changed(t) \subseteq Groups
      BY <1>2, EditType, GroupNames DEF SaveMailing, AllPages
    <2>2. QED
      BY <1>0, <1>2, <2>1, SubmitType, GroupNames DEF SaveMailing, AllPages, Phase
  <1>3. CASE SaveDatabase(t)
    <2>1. Edit(t, {"db"}) \in [Setting -> Values]
      BY <1>3, EditType, GroupNames DEF SaveDatabase, AllPages
    <2>2. QED
      BY <1>0, <1>3, <2>1, SubmitType, GroupNames DEF SaveDatabase, AllPages, Phase
  <1>4. CASE SaveCache(t)
    <2>1. Edit(t, {"cache"}) \in [Setting -> Values]
      BY <1>4, EditType, GroupNames DEF SaveCache, AllPages
    <2>2. QED
      BY <1>0, <1>4, <2>1, SubmitType, GroupNames DEF SaveCache, AllPages, Phase
  <1>5. CASE SaveFields(t)
    <2>1. Edit(t, {"fields"}) \in [Setting -> Values]
      BY <1>5, EditType, GroupNames DEF SaveFields, AllPages
    <2>2. cache[t]["fields"].data.val \in Content
      BY <1>5 DEF SaveFields, Loaded, KeysOf, MainKey, TypeOK, Keys, Entry, Snapshot
    <2>3. QED
      BY <1>5, <2>1, <2>2, ETagType, SubmitType, GroupNames DEF SaveFields, AllPages, Phase
  <1>6. ASSUME NEW D \in SUBSET Groups, NEW payload \in [D -> Values], "google" \in D,
               Submit(t, "providers", "read", NoData, payload, {"google"})
        PROVE  TypeOK'
    BY <1>6, SubmitType, GroupNames DEF AllPages, Phase
  <1>7. ASSUME NEW v \in Values, SaveProvider(t, v)
        PROVE  TypeOK'
    <2> DEFINE payload == [g \in {"google", "social"} |-> IF g = "social" THEN On ELSE v]
    <2>1. payload \in [{"google", "social"} -> Values]
      BY ConstantsAssumption
    <2>2. Submit(t, "providers", "read", NoData, payload, {"google"})
      BY <1>7 DEF SaveProvider
    <2> HIDE DEF payload
    <2>3. QED
      BY <1>6, <2>1, <2>2, GroupNames
  <1>8. CASE DisableProvider(t)
    <2>1. [g \in {"google"} |-> Empty] \in [{"google"} -> Values]
      BY ConstantsAssumption
    <2>2. QED
      BY <1>6, <1>8, <2>1, GroupNames DEF DisableProvider
  <1>9. QED
    BY <1>1, <1>2, <1>3, <1>4, <1>5, <1>7, <1>8

\* A step of a save under way.
LEMMA PutType ==
    ASSUME TypeOK, PutStep
    PROVE  TypeOK'
  <1>0. ASSUME NEW u \in puts
        PROVE  /\ u.tab \in Tabs /\ u.page \in AllPages
               /\ u.payload \in [DOMAIN u.payload -> Values]
    BY DEF TypeOK, IsSave
  <1>1. ASSUME NEW u \in puts, NEW ph \in {"renamed", "ok", "refused"}
        PROVE  IsSave([u EXCEPT !.phase = ph])
    BY DEF TypeOK, IsSave, Phase
  <1>2. ASSUME NEW u \in puts, ReadBeforeSave(u)
        PROVE  TypeOK'
    <2> DEFINE payload == [g \in Setting |-> IF g \in DOMAIN u.payload THEN u.payload[g]
                                             ELSE IF g = "github" THEN Empty
                                             ELSE stored[g]]
    <2>1. ETag(stored) \in Content
      BY ETagType DEF TypeOK
    <2>2. payload \in [Setting -> Values]
      <3>1. \A g \in DOMAIN u.payload : u.payload[g] \in Values
        BY <1>0
      <3>2. QED
        BY <3>1, ConstantsAssumption, GroupNames DEF TypeOK, Content
    <2> DEFINE w == [u EXCEPT !.phase = "sent", !.etag = ETag(stored), !.payload = payload]
    <2>3. puts' = (puts \ {u}) \cup {w}
      BY <1>2 DEF ReadBeforeSave, Becomes
    <2>4. DOMAIN payload = Setting
      OBVIOUS
    <2> HIDE DEF payload
    <2>5. IsSave(w)
      <3>1. w.payload = payload /\ w.phase = "sent"
        BY DEF TypeOK, IsSave
      <3>2. w \in [tab: Tabs, page: AllPages, phase: Phase, etag: Content \cup {NoData},
                   payload: {payload}, edited: SUBSET Groups, mine: BOOLEAN]
        BY <2>1 DEF TypeOK, IsSave, Phase
      <3> HIDE DEF w
      <3>3. DOMAIN payload \subseteq Groups
        BY <2>4, GroupNames
      <3>4. QED
        BY <2>2, <2>4, <3>1, <3>2, <3>3 DEF IsSave
    <2> HIDE DEF w
    <2>6. QED
      BY <1>2, <2>3, <2>5 DEF TypeOK, ReadBeforeSave, IsSave
  <1>3. ASSUME NEW u \in puts, Rename(u)
        PROVE  TypeOK'
    <2>1. IsSave([u EXCEPT !.phase = "renamed"])
      BY <1>1 DEF Phase
    <2>2. stored' \in Content
      <3>1. u.payload["name"] \in Values
        BY <1>0, <1>3 DEF TypeOK, IsSave, Rename
      <3>2. QED
        BY <1>3, <3>1 DEF TypeOK, Rename, Content
    <2>3. puts' = (puts \ {u}) \cup {[u EXCEPT !.phase = "renamed"]}
      BY <1>3 DEF Rename, Becomes
    <2>4. (\A x \in puts : IsSave(x))'
      BY <2>1, <2>3 DEF TypeOK, IsSave
    <2>5. QED
      BY <1>3, <2>2, <2>4 DEF TypeOK, Rename
  <1>4. ASSUME NEW u \in puts, Renamed(u)
        PROVE  TypeOK'
    <2>1. {"tenant"} \subseteq Keys
      BY DEF Keys
    <2>2. /\ cache' \in [Tabs -> [Keys -> Entry]]
          /\ gets' \subseteq Get
      BY <1>0, <1>4, <2>1, InvalidateType DEF Renamed
    <2>3. view[u.tab].etag \in Content \cup {NoData}
      BY <1>0 DEF TypeOK, View
    <2>4. ASSUME NEW e \in Content \cup {NoData}
          PROVE  IsSave([u EXCEPT !.phase = "sent", !.etag = e])
      BY DEF TypeOK, IsSave, Phase
    <2>5. \A w \in puts' : IsSave(w)
      <3>1. u.etag \in Content \cup {NoData}
        BY DEF TypeOK, IsSave
      <3>2. QED
        BY <1>4, <2>3, <2>4, <3>1 DEF TypeOK, Renamed, Becomes
    <2>6. QED
      BY <1>4, <2>2, <2>5 DEF TypeOK, Renamed, IsSave
  <1>5. ASSUME NEW u \in puts, Check(u)
        PROVE  TypeOK'
    <2>1. Merge(stored, u.payload) \in Content
      BY <1>0, MergeType DEF TypeOK
    <2>2. IsSave([u EXCEPT !.phase = "checked", !.payload = Merge(stored, u.payload)])
      BY <2>1 DEF TypeOK, IsSave, Phase, Content
    <2>3. IsSave([u EXCEPT !.phase = "refused"])
      BY <1>1 DEF Phase
    <2>4. \A w \in puts' : IsSave(w)
      BY <1>5, <2>2, <2>3 DEF TypeOK, Check, Becomes
    <2>5. QED
      BY <1>5, <2>4 DEF TypeOK, Check, IsSave
  <1>6. ASSUME NEW u \in puts, Write(u)
        PROVE  TypeOK'
    <2>1. u.payload \in Content
      BY <1>0, <1>6 DEF TypeOK, IsSave, Write, Content
    <2>2. stored' \in Content
      BY <1>6, <2>1, GroupNames DEF TypeOK, Write, Content
    <2>3. IsSave([u EXCEPT !.phase = "ok"])
      BY <1>1
    <2>4. QED
      BY <1>6, <2>2, <2>3 DEF TypeOK, Write, Becomes, IsSave
  <1>7. ASSUME NEW u \in puts, Saved(u)
        PROVE  TypeOK'
    <2>1. {MainKey[u.page]} \subseteq Keys
      BY <1>0, GroupNames
    <2>2. /\ cache' \in [Tabs -> [Keys -> Entry]]
          /\ gets' \subseteq Get
      BY <1>0, <1>7, <2>1, InvalidateType DEF Saved
    <2>3. [view[u.tab] EXCEPT !.dirty = FALSE, !.saved = version] \in View
      BY <1>0 DEF TypeOK, View
    <2>4. view' \in [Tabs -> View]
      BY <1>0, <1>7, <2>3 DEF TypeOK, Saved, Acknowledge
    <2>5. QED
      BY <1>7, <2>2, <2>4 DEF TypeOK, Saved, IsSave
  <1>8. ASSUME NEW u \in puts, Rejected(u) \/ SaveFails(u)
        PROVE  TypeOK'
    BY <1>8 DEF TypeOK, Rejected, SaveFails, IsSave
  <1>9. QED
    BY <1>2, <1>3, <1>4, <1>5, <1>6, <1>7, <1>8 DEF PutStep

LEMMA NextType ==
    ASSUME TypeOK, [Next]_vars
    PROVE  TypeOK'
  <1>1. ASSUME NEW t \in Tabs, TabStep(t)
        PROVE  TypeOK'
    <2>1. ASSUME NEW p \in Pages, Open(t, p)
          PROVE  TypeOK'
      BY <2>1, OpenType, ConstantsAssumption
    <2>2. ASSUME NEW v \in Values, NEW p \in AllPages, NEW g \in Groups, Type(t, p, g, v)
          PROVE  TypeOK'
      BY <2>2, TypingType
    <2>3. ASSUME NEW v \in Values,
                 \/ EditGeneral(t, v) \/ EditBranding(t, v) \/ EditSecurity(t, v)
                 \/ EditSocial(t, v) \/ EditIssuer(t, v) \/ EditSMTP(t, v) \/ EditTemplates(t, v)
                 \/ EditDatabase(t, v) \/ EditCache(t, v) \/ EditFields(t, v)
          PROVE  TypeOK'
      BY <2>2, <2>3, GroupNames
         DEF AllPages, EditGeneral, EditBranding, EditSecurity, EditSocial, EditIssuer, EditSMTP,
             EditTemplates, EditDatabase, EditCache, EditFields
    <2>4. QED
      BY <1>1, <2>1, <2>3, LeaveType, QueryType, SaveType, ElsewhereType DEF TabStep
  <1>2. CASE GetStep
    BY <1>2, QueryType, ArriveType DEF GetStep
  <1>3. CASE UNCHANGED vars
    BY <1>3 DEF vars, TypeOK, IsSave
  <1>4. QED
    BY <1>1, <1>2, <1>3, PutType, ElsewhereType DEF Next

LEMMA InitType == Init => TypeOK
  <1>1. Blank \in Content
    BY ConstantsAssumption DEF Blank, Content
  <1>2. Closed \in View
    BY <1>1, ConstantsAssumption DEF Closed, View
  <1>3. [data |-> NoData, stale |-> TRUE] \in Entry
    BY DEF Entry
  <1>4. SUFFICES ASSUME Init
                 PROVE  TypeOK
    OBVIOUS
  <1>5. stored \in Content
    BY <1>1, <1>4 DEF Init, Content
  <1>6. view \in [Tabs -> View] /\ cache \in [Tabs -> [Keys -> Entry]]
    BY <1>2, <1>3, <1>4 DEF Init
  <1>7. 0 \in 0..MaxOpens /\ 0 \in 0..MaxEdits /\ 0 \in 0..MaxSaves
    BY ConstantsAssumption
  <1>8. version = 0 /\ gets = {} /\ puts = {} /\ opens = 0 /\ edits = 0 /\ saves = 0
    BY <1>4 DEF Init
  <1>9. QED
    BY <1>5, <1>6, <1>7, <1>8 DEF TypeOK

(***************************************************************************)
(* TypeOK: every reachable state is well formed.  In particular a save     *)
(* sends groups the server knows, and the merged settings it writes are    *)
(* whole.                                                                  *)
(***************************************************************************)
THEOREM TypeCorrect == Spec => []TypeOK
  <1>1. Init => TypeOK
    BY InitType
  <1>2. TypeOK /\ [Next]_vars => TypeOK'
    BY NextType
  <1>3. QED
    BY <1>1, <1>2, PTL DEF Spec

-----------------------------------------------------------------------------
(* Saves of fields and providers                                            *)

\* What a save of these two pages sends of the groups that were not edited is what
\* its ETag says, and what the server merged of them is what it still stores - but
\* for what a provider's save puts in by itself.
Protected(u) ==
    u.page \in {"fields", "providers"} =>
       /\ u.phase \notin {"rename", "renamed"}
       /\ u.phase = "read" =>
             /\ u.page = "providers"
             /\ \A g \in DOMAIN u.payload \ u.edited : <<g, u.payload[g]>> \in Besides(u)
       /\ u.phase = "sent" =>
             /\ u.page = "providers" => "google" \in DOMAIN u.payload
             /\ \A g \in (DOMAIN u.payload \ {"name"}) \ u.edited :
                   u.payload[g] = u.etag[g] \/ <<g, u.payload[g]>> \in Besides(u)
       /\ u.phase = "checked" =>
             \A g \in Setting \ u.edited :
                u.payload[g] = stored[g] \/ <<g, u.payload[g]>> \in Besides(u)

OneWriter == \A u, w \in Serving : u = w

SaveInv == TypeOK /\ OneWriter /\ \A u \in puts : Protected(u)

LEMMA NobodyServed ==
    ASSUME OneWriter, Cardinality(Serving) < MaxServing, MaxServing <= 1
    PROVE  Serving = {}
  <1>1. SUFFICES ASSUME NEW u \in Serving
                 PROVE  FALSE
    OBVIOUS
  <1>2. Serving = {u}
    BY DEF OneWriter
  <1>3. Cardinality(Serving) = 1
    BY <1>2, FS_Singleton
  <1>4. QED
    BY <1>3, ConstantsAssumption

\* Saves and settings left as they are, but for the name.
LEMMA SavesUntouched ==
    ASSUME SaveInv, TypeOK', puts' = puts,
           \A g \in Setting : stored'[g] = stored[g]
    PROVE  SaveInv'
  <1>1. Serving' = Serving
    BY DEF Serving
  <1>2. OneWriter'
    BY <1>1 DEF SaveInv, OneWriter
  <1>3. ASSUME NEW u \in puts
        PROVE  Protected(u)'
    BY <1>3 DEF SaveInv, Protected, Besides
  <1>4. QED
    BY <1>2, <1>3 DEF SaveInv

\* One save replaced by w, which is not in the server, and no setting stored.
LEMMA SaveReplaced ==
    ASSUME SaveInv, TypeOK', NEW S, NEW w, puts' \subseteq S \cup {w}, S \subseteq puts,
           \A g \in Setting : stored'[g] = stored[g],
           w.phase # "checked", Protected(w)
    PROVE  SaveInv'
  <1>1. Serving' \subseteq Serving
    BY DEF Serving
  <1>2. OneWriter'
    BY <1>1 DEF SaveInv, OneWriter
  <1>3. ASSUME NEW u \in S
        PROVE  Protected(u)'
    BY <1>3 DEF SaveInv, Protected, Besides
  <1>4. Protected(w)'
    BY DEF Protected, Besides
  <1>5. QED
    BY <1>2, <1>3, <1>4 DEF SaveInv

\* The page is left: a save's ETag changes only while it renames the tenant.
LEMMA LeaveSaves ==
    ASSUME SaveInv, TypeOK', NEW t \in Tabs, Leave(t)
    PROVE  SaveInv'
  <1> DEFINE f(u) == IF u.tab = t /\ u.mine
                     THEN [u EXCEPT !.mine = FALSE,
                                    !.etag = IF u.phase \in {"rename", "renamed"}
                                             THEN view[t].etag ELSE @]
                     ELSE u
  <1>1. puts' = {f(u) : u \in puts} /\ stored' = stored
    BY DEF Leave
  <1>2. ASSUME NEW u \in puts
        PROVE  /\ f(u).phase = u.phase /\ f(u).page = u.page
               /\ f(u).payload = u.payload /\ f(u).edited = u.edited
               /\ u.phase \notin {"rename", "renamed"} => f(u).etag = u.etag
    BY DEF SaveInv, TypeOK, IsSave
  <1> HIDE DEF f
  <1>3. OneWriter'
    BY <1>1, <1>2 DEF SaveInv, OneWriter, Serving
  <1>4. ASSUME NEW w \in puts'
        PROVE  Protected(w)'
    <2>1. PICK u \in puts : w = f(u)
      BY <1>1
    <2>2. Protected(u)
      BY DEF SaveInv
    <2>3. QED
      BY <1>1, <1>2, <2>1, <2>2 DEF Protected, Besides
  <1>5. QED
    BY <1>3, <1>4 DEF SaveInv

\* A save begins with the ETag of what it sends back, or before it has read it.
LEMMA SubmitSaves ==
    ASSUME SaveInv, TypeOK', NEW t \in Tabs,
           \/ SaveSettings(t) \/ SaveMailing(t) \/ SaveDatabase(t) \/ SaveCache(t)
           \/ SaveFields(t) \/ DisableProvider(t)
           \/ \E v \in Values : SaveProvider(t, v)
    PROVE  SaveInv'
  <1>1. ASSUME NEW p, NEW phase, NEW etag, NEW payload, NEW edited,
               Submit(t, p, phase, etag, payload, edited),
               phase \notin {"checked"},
               p \in {"fields", "providers"} =>
                  /\ phase \notin {"rename", "renamed"}
                  /\ phase = "read" =>
                        /\ p = "providers"
                        /\ \A g \in DOMAIN payload \ edited :
                              g = "social" /\ payload[g] = On /\ payload["google"] # Empty
                  /\ phase = "sent" =>
                        /\ p = "fields"
                        /\ \A g \in (DOMAIN payload \ {"name"}) \ edited :
                              payload[g] = etag[g]
        PROVE  SaveInv'
    <2> DEFINE w == [tab |-> t, page |-> p, phase |-> phase, etag |-> etag,
                     payload |-> payload, edited |-> edited, mine |-> TRUE]
    <2>1. puts' = puts \cup {w} /\ stored' = stored
      BY <1>1 DEF Submit
    <2>2. Protected(w) /\ w.phase # "checked"
      BY <1>1 DEF Protected, Besides
    <2> HIDE DEF w
    <2>3. QED
      BY <2>1, <2>2, SaveReplaced
  <1>2. CASE SaveSettings(t)
    BY <1>1, <1>2 DEF SaveSettings
  <1>3. CASE SaveMailing(t)
    BY <1>1, <1>3 DEF SaveMailing
  <1>4. CASE SaveDatabase(t) \/ SaveCache(t)
    BY <1>1, <1>4 DEF SaveDatabase, SaveCache
  <1>5. CASE SaveFields(t)
    <2> DEFINE c == cache[t]["fields"].data.val
    <2>1. c \in Content
      BY <1>5 DEF SaveFields, Loaded, KeysOf, MainKey, SaveInv, TypeOK, Keys, Entry, Snapshot
    <2>2. \A g \in Setting \ {"fields"} : Edit(t, {"fields"})[g] = c[g]
      BY <1>5 DEF SaveFields, Edit, MainKey
    <2>3. \A g \in Setting : ETag(c)[g] = c[g]
      BY <2>1 DEF ETag, Content, Setting
    <2>4. DOMAIN Edit(t, {"fields"}) = Setting
      BY DEF Edit
    <2>5. Submit(t, "fields", "sent", ETag(c), Edit(t, {"fields"}), {"fields"})
      BY <1>5 DEF SaveFields
    <2>6. QED
      BY <1>1, <2>2, <2>3, <2>4, <2>5
  <1>6. CASE DisableProvider(t)
    BY <1>1, <1>6 DEF DisableProvider
  <1>7. ASSUME NEW v \in Values, SaveProvider(t, v)
        PROVE  SaveInv'
    BY <1>1, <1>7 DEF SaveProvider
  <1>8. QED
    BY <1>2, <1>3, <1>4, <1>5, <1>6, <1>7

\* A provider's save reads the settings, and sends them under their ETag.
LEMMA ReadSaves ==
    ASSUME SaveInv, TypeOK', NEW u \in puts, ReadBeforeSave(u)
    PROVE  SaveInv'
  <1> DEFINE payload == [g \in Setting |-> IF g \in DOMAIN u.payload THEN u.payload[g]
                                           ELSE IF g = "github" THEN Empty
                                           ELSE stored[g]]
             w == [u EXCEPT !.phase = "sent", !.etag = ETag(stored), !.payload = payload]
  <1>1. puts' \subseteq (puts \ {u}) \cup {w} /\ stored' = stored
    BY DEF ReadBeforeSave, Becomes
  <1>2. /\ w.phase = "sent" /\ w.etag = ETag(stored) /\ w.payload = payload
        /\ w.page = u.page /\ w.edited = u.edited
    BY DEF SaveInv, TypeOK, IsSave
  <1>3. \A g \in Groups : g # "name" => ETag(stored)[g] = stored[g]
    BY DEF SaveInv, TypeOK, ETag, Content
  <1>4. /\ DOMAIN payload = Setting
        /\ \A g \in DOMAIN u.payload \cap Setting : payload[g] = u.payload[g]
        /\ \A g \in Setting \ DOMAIN u.payload :
              payload[g] = stored[g] \/ (g = "github" /\ payload[g] = Empty)
    OBVIOUS
  <1> HIDE DEF w, payload
  <1>5. u.page \in {"fields", "providers"} =>
           /\ u.page = "providers"
           /\ \A g \in DOMAIN u.payload \ u.edited : <<g, u.payload[g]>> \in Besides(u)
    BY DEF SaveInv, Protected, ReadBeforeSave
  <1>6. "google" \in DOMAIN u.payload /\ "google" \in Setting
    BY GroupNames DEF SaveInv, TypeOK, IsSave, ReadBeforeSave
  <1>7. Besides(w) = Besides(u)
    BY <1>2, <1>4, <1>6 DEF Besides
  <1>8. Protected(w)
    <2> SUFFICES ASSUME u.page \in {"fields", "providers"}
                 PROVE  \A g \in Setting \ u.edited :
                           payload[g] = ETag(stored)[g] \/ <<g, payload[g]>> \in Besides(w)
      BY <1>2, <1>4, <1>6 DEF Protected
    <2>1. ASSUME NEW g \in Setting \ u.edited
          PROVE  payload[g] = ETag(stored)[g] \/ <<g, payload[g]>> \in Besides(w)
      <3>1. CASE g \in DOMAIN u.payload
        BY <1>4, <1>5, <1>7, <3>1
      <3>2. CASE g \notin DOMAIN u.payload /\ payload[g] = stored[g]
        BY <1>3, <3>2 DEF Setting
      <3>3. CASE g = "github" /\ payload[g] = Empty
        BY <1>2, <1>5, <3>3 DEF Besides
      <3>4. QED
        BY <1>4, <3>1, <3>2, <3>3
    <2>2. QED
      BY <2>1
  <1>9. QED
    BY <1>1, <1>2, <1>8, SaveReplaced

\* The server takes a save whose ETag it still has, and only one at a time.
LEMMA CheckSaves ==
    ASSUME SaveInv, TypeOK', NEW u \in puts, Check(u), MaxServing <= 1
    PROVE  SaveInv'
  <1>1. CASE u.etag # ETag(stored)
    <2> DEFINE w == [u EXCEPT !.phase = "refused"]
    <2>1. puts' \subseteq (puts \ {u}) \cup {w} /\ stored' = stored
      BY <1>1 DEF Check, Becomes
    <2>2. w.phase = "refused" /\ Protected(w)
      BY DEF SaveInv, TypeOK, IsSave, Protected
    <2> HIDE DEF w
    <2>3. QED
      BY <2>1, <2>2, SaveReplaced
  <1>2. CASE u.etag = ETag(stored)
    <2>0. PICK w : w = [u EXCEPT !.phase = "checked", !.payload = Merge(stored, u.payload)]
      OBVIOUS
    <2>1. puts' = (puts \ {u}) \cup {w} /\ stored' = stored
      BY <1>2, <2>0 DEF Check, Becomes
    <2>2. Serving = {}
      BY <1>2, NobodyServed DEF SaveInv, Check
    <2>3. /\ w.phase = "checked" /\ w.payload = Merge(stored, u.payload)
          /\ w.page = u.page /\ w.edited = u.edited
      BY <2>0 DEF SaveInv, TypeOK, IsSave
    <2>4. OneWriter'
      BY <2>1, <2>2 DEF OneWriter, Serving
    <2>5. \A g \in Setting : ETag(stored)[g] = stored[g]
      BY DEF SaveInv, TypeOK, ETag, Content, Setting
    <2>6. Protected(u) /\ u.phase = "sent"
      BY DEF SaveInv, Check
    <2>7. Protected(w)'
      <3> SUFFICES ASSUME u.page \in {"fields", "providers"},
                          NEW g \in Setting \ u.edited
                   PROVE  \/ Merge(stored, u.payload)[g] = stored[g]
                          \/ <<g, Merge(stored, u.payload)[g]>> \in Besides(w)
        BY <2>1, <2>3 DEF Protected, Besides
      <3>1. CASE g \notin DOMAIN u.payload \/ (g \in KeptWhenEmpty /\ u.payload[g] = Empty)
        BY <3>1 DEF Merge, Setting
      <3>2. CASE g \in DOMAIN u.payload /\ Merge(stored, u.payload)[g] = u.payload[g]
        <4>1. CASE u.payload[g] = u.etag[g]
          BY <1>2, <2>5, <3>2, <4>1
        <4>2. CASE <<g, u.payload[g]>> \in Besides(u)
          <5>1. "google" \in DOMAIN u.payload
            BY <2>6, <4>2 DEF Protected, Besides
          <5>2. Merge(stored, u.payload)["google"] = u.payload["google"]
            BY <5>1, GroupNames DEF Merge, KeptWhenEmpty
          <5>3. Besides(w) = Besides(u)
            BY <2>3, <5>2 DEF Besides
          <5>4. QED
            BY <3>2, <4>2, <5>3
        <4>3. QED
          BY <2>6, <3>2, <4>1, <4>2 DEF Protected, Setting
      <3>3. QED
        BY <3>1, <3>2 DEF Merge, Setting
    <2>8. ASSUME NEW x \in puts \ {u}
          PROVE  Protected(x)'
      BY <2>1, <2>8 DEF SaveInv, Protected, Besides
    <2>9. QED
      BY <2>1, <2>4, <2>7, <2>8 DEF SaveInv
  <1>3. QED
    BY <1>1, <1>2

\* A write leaves nobody between check and write.
LEMMA WriteSaves ==
    ASSUME SaveInv, TypeOK', NEW u \in puts, Write(u)
    PROVE  SaveInv'
  <1> DEFINE w == [u EXCEPT !.phase = "ok"]
  <1>1. puts' = (puts \ {u}) \cup {w}
    BY DEF Write, Becomes
  <1>2. w.phase = "ok"
    BY DEF SaveInv, TypeOK, IsSave
  <1> HIDE DEF w
  <1>3. \A x \in puts \ {u} : x.phase # "checked"
    BY DEF SaveInv, OneWriter, Serving, Write
  <1>4. OneWriter'
    BY <1>1, <1>2, <1>3 DEF OneWriter, Serving
  <1>5. ASSUME NEW x \in puts \ {u}
        PROVE  Protected(x)'
    BY <1>3, <1>5 DEF SaveInv, Protected, Besides
  <1>6. Protected(w)'
    BY <1>2 DEF Protected
  <1>7. QED
    BY <1>1, <1>4, <1>5, <1>6 DEF SaveInv

\* Settings stored by somebody else, while nobody is between check and write.
LEMMA ElsewhereSaves ==
    ASSUME SaveInv, TypeOK', puts' = puts, Serving = {}
    PROVE  SaveInv'
  <1>1. OneWriter'
    BY DEF OneWriter, Serving
  <1>2. ASSUME NEW u \in puts
        PROVE  Protected(u)'
    BY <1>2 DEF SaveInv, Serving, Protected, Besides
  <1>3. QED
    BY <1>1, <1>2 DEF SaveInv

LEMMA PutSaves ==
    ASSUME SaveInv, TypeOK', PutStep, MaxServing <= 1
    PROVE  SaveInv'
  <1>1. ASSUME NEW u \in puts, Rename(u)
        PROVE  SaveInv'
    <2> DEFINE w == [u EXCEPT !.phase = "renamed"]
    <2>1. puts' \subseteq (puts \ {u}) \cup {w} /\ (\A g \in Setting : stored'[g] = stored[g])
      BY <1>1 DEF Rename, Becomes, SaveInv, TypeOK, Content, Setting
    <2>2. w.phase = "renamed" /\ w.page = u.page
      BY DEF SaveInv, TypeOK, IsSave
    <2> HIDE DEF w
    <2>3. Protected(w)
      BY <1>1, <2>2 DEF SaveInv, Protected, Rename
    <2>4. QED
      BY <2>1, <2>2, <2>3, SaveReplaced
  <1>2. ASSUME NEW u \in puts, Renamed(u)
        PROVE  SaveInv'
    <2> DEFINE e == IF u.mine THEN view[u.tab].etag ELSE u.etag
               w == [u EXCEPT !.phase = "sent", !.etag = e]
    <2>1. puts' \subseteq (puts \ {u}) \cup {w} /\ stored' = stored
      BY <1>2 DEF Renamed, Becomes
    <2>2. w.phase = "sent" /\ w.page = u.page
      BY DEF SaveInv, TypeOK, IsSave
    <2> HIDE DEF w
    <2>3. Protected(w)
      BY <1>2, <2>2 DEF SaveInv, Protected, Renamed
    <2>4. QED
      BY <2>1, <2>2, <2>3, SaveReplaced
  <1>3. ASSUME NEW u \in puts, Saved(u) \/ Rejected(u) \/ SaveFails(u)
        PROVE  SaveInv'
    <2>1. puts' \subseteq puts /\ stored' = stored
      BY <1>3 DEF Saved, Rejected, SaveFails
    <2>2. OneWriter'
      BY <2>1 DEF SaveInv, OneWriter, Serving
    <2>3. ASSUME NEW x \in puts
          PROVE  Protected(x)'
      BY <2>1, <2>3 DEF SaveInv, Protected, Besides
    <2>4. QED
      BY <2>1, <2>2, <2>3 DEF SaveInv
  <1>4. QED
    BY <1>1, <1>2, <1>3, ReadSaves, CheckSaves, WriteSaves DEF PutStep

LEMMA NextSaves ==
    ASSUME SaveInv, [Next]_vars, MaxServing <= 1
    PROVE  SaveInv'
  <1>1. TypeOK'
    BY NextType DEF SaveInv
  <1>2. ASSUME NEW t \in Tabs, TabStep(t)
        PROVE  SaveInv'
    <2>1. ASSUME NEW p \in AllPages, NEW g, NEW v, Type(t, p, g, v)
          PROVE  SaveInv'
      BY <1>1, <2>1, SavesUntouched DEF Type
    <2>2. ASSUME NEW v \in Values,
                 \/ EditGeneral(t, v) \/ EditBranding(t, v) \/ EditSecurity(t, v)
                 \/ EditSocial(t, v) \/ EditIssuer(t, v) \/ EditSMTP(t, v) \/ EditTemplates(t, v)
                 \/ EditDatabase(t, v) \/ EditCache(t, v) \/ EditFields(t, v)
          PROVE  SaveInv'
      BY <2>1, <2>2
         DEF AllPages, EditGeneral, EditBranding, EditSecurity, EditSocial, EditIssuer, EditSMTP,
             EditTemplates, EditDatabase, EditCache, EditFields
    <2>3. ASSUME \/ \E p \in Pages : Open(t, p)
                 \/ \E k \in Keys : Expire(t, k)
                 \/ CancelFields(t)
          PROVE  SaveInv'
      BY <1>1, <2>3, SavesUntouched DEF Open, Expire, CancelFields
    <2>4. ASSUME NEW g, NEW v, Import(t, g, v)
          PROVE  SaveInv'
      <3>1. Serving = {}
        BY <2>4, NobodyServed DEF SaveInv, Import
      <3>2. QED
        BY <1>1, <2>4, <3>1, ElsewhereSaves DEF Import
    <2>5. QED
      BY <1>1, <1>2, <2>2, <2>3, <2>4, LeaveSaves, SubmitSaves DEF TabStep
  <1>3. CASE GetStep
    BY <1>1, <1>3, SavesUntouched DEF GetStep, Serve, Arrive, GetFails
  <1>4. ASSUME NEW g, NEW v, OtherSave(g, v)
        PROVE  SaveInv'
    <2>1. Serving = {}
      BY <1>4, NobodyServed DEF SaveInv, OtherSave
    <2>2. QED
      BY <1>1, <1>4, <2>1, ElsewhereSaves DEF OtherSave
  <1>5. CASE UNCHANGED vars
    BY <1>1, <1>5, SavesUntouched DEF vars
  <1>6. QED
    BY <1>1, <1>2, <1>3, <1>4, <1>5, PutSaves DEF Next

(***************************************************************************)
(* NoForeignOverwrite: when the server compares the ETag and writes in one *)
(* go (MaxServing <= 1), a save of the user fields or of a provider        *)
(* changes nothing that its administrator did not edit, whatever any       *)
(* number of tabs, imports and other programs store in between; except     *)
(* that one of a provider disables GitHub, and enables social login when   *)
(* it configures Google.                                                   *)
(***************************************************************************)
THEOREM ForeignKept ==
    ASSUME MaxServing <= 1
    PROVE  Spec => NoForeignOverwrite
  <1>1. Init => SaveInv
    <2>1. Init => OneWriter /\ \A u \in puts : Protected(u)
      BY DEF Init, OneWriter, Serving
    <2>2. Init => TypeOK
      BY InitType
    <2>3. QED
      BY <2>1, <2>2 DEF SaveInv
  <1>2. SaveInv /\ [Next]_vars => SaveInv'
    BY NextSaves
  <1>3. SaveInv =>
           [\A u \in puts :
              u.page \in {"fields", "providers"} /\ Write(u) =>
                 \A g \in Groups \ u.edited :
                    stored'[g] = stored[g] \/ <<g, stored'[g]>> \in Besides(u)]_vars
    <2>1. ASSUME SaveInv, NEW u \in puts, u.page \in {"fields", "providers"}, Write(u),
                 NEW g \in Groups \ u.edited
          PROVE  stored'[g] = stored[g] \/ <<g, stored'[g]>> \in Besides(u)
      <3>1. u.payload \in Content
        BY <2>1 DEF SaveInv, TypeOK, IsSave, Write, Content
      <3>2. g # "name" => u.payload[g] = stored[g] \/ <<g, u.payload[g]>> \in Besides(u)
        BY <2>1 DEF SaveInv, Protected, Write, Setting
      <3>3. QED
        BY <2>1, <3>1, <3>2 DEF Write, Content
    <2>2. QED
      BY <2>1
  <1>4. QED
    BY <1>1, <1>2, <1>3, PTL DEF Spec, NoForeignOverwrite

-----------------------------------------------------------------------------
(* A page reads its own save                                                *)

\* A save of the open page was made from data, and data is only ever replaced.
MineOpen(u) ==
    u.mine => /\ view[u.tab].page = u.page
              /\ u.page # "providers" => cache[u.tab][MainKey[u.page]].data # NoData

Confirmed(t) == view[t].page \notin {NoPage, "providers"} /\ view[t].saved > 0

\* What is on its way to a page that has saved is from after the save, as is
\* what it shows unless that is marked stale.
NewEnough(t) ==
    LET k == MainKey[view[t].page] IN
    /\ cache[t][k].data # NoData
    /\ view[t].saved <= version
    /\ cache[t][k].stale \/ cache[t][k].data.ver >= view[t].saved
    /\ \A g \in gets : g.tab = t /\ g.key = k /\ g.current /\ g.snap # NoData
                          => g.snap.ver >= view[t].saved

ReadInv ==
    /\ \A u \in puts : MineOpen(u)
    /\ \A t \in Tabs : Confirmed(t) => NewEnough(t)

\* What a step may do to a tab's page, its cache and the answers on their way.
SamePage(t) == view'[t].page = view[t].page /\ view'[t].saved = view[t].saved

Answered(t, k) == {g \in gets : g.tab = t /\ g.key = k /\ g.current /\ g.snap # NoData}

Filling(t) ==
    \A k \in Keys :
       \/ cache'[t][k] = cache[t][k]
       \/ cache'[t][k].data = cache[t][k].data /\ cache'[t][k].stale
       \/ \E g \in Answered(t, k) : cache'[t][k].data = g.snap

Answering(t) ==
    \A g \in gets' : g.tab = t /\ g.current /\ g.snap # NoData
                     => g \in gets \/ g.snap.ver >= version

LEMMA MainKeys ==
    ASSUME TypeOK
    PROVE  /\ \A t \in Tabs : view[t].page # NoPage => MainKey[view[t].page] \in Keys
           /\ \A u \in puts : u.tab \in Tabs /\ u.page \in AllPages /\ MainKey[u.page] \in Keys
  <1>1. \A t \in Tabs : view[t].page \in AllPages \cup {NoPage}
    BY DEF TypeOK, View
  <1>2. \A u \in puts : u.tab \in Tabs /\ u.page \in AllPages
    BY DEF TypeOK, IsSave
  <1>3. QED
    BY <1>1, <1>2, GroupNames

\* A page that stays open keeps what it has confirmed.
LEMMA PageKept ==
    ASSUME TypeOK, TypeOK', NEW t \in Tabs, Confirmed(t) => NewEnough(t),
           SamePage(t), Filling(t), Answering(t), version' >= version
    PROVE  Confirmed(t)' => NewEnough(t)'
  <1> SUFFICES ASSUME Confirmed(t)'
               PROVE  NewEnough(t)'
    OBVIOUS
  <1>1. Confirmed(t) /\ NewEnough(t)
    BY DEF Confirmed, SamePage
  <1>2. PICK k \in Keys : k = MainKey[view[t].page] /\ k = MainKey[view'[t].page]
    BY <1>1, MainKeys DEF Confirmed, SamePage
  <1>3. PICK n \in Nat : n = view[t].saved /\ n = view'[t].saved
    BY DEF TypeOK, View, SamePage
  <1>4. version \in Nat /\ version' \in Nat /\ n <= version
    BY <1>1, <1>3 DEF TypeOK, NewEnough
  <1>5. \A g \in Answered(t, k) : g.snap # NoData /\ g.snap.ver >= n
    BY <1>1, <1>2, <1>3 DEF NewEnough, Answered
  <1>6. cache[t][k].data # NoData /\ (cache[t][k].stale \/ cache[t][k].data.ver >= n)
    BY <1>1, <1>2, <1>3 DEF NewEnough
  <1>7. cache'[t][k].data # NoData /\ (cache'[t][k].stale \/ cache'[t][k].data.ver >= n)
    BY <1>5, <1>6 DEF Filling
  <1>8. ASSUME NEW g \in gets', g.tab = t, g.key = k, g.current, g.snap # NoData
        PROVE  g.snap.ver >= n
    <2>1. CASE g \in gets
      BY <1>5, <1>8, <2>1 DEF Answered
    <2>2. CASE g.snap.ver >= version
      <3>1. g.snap.ver \in Nat
        BY <1>8 DEF TypeOK, Get, Snapshot
      <3>2. QED
        BY <1>4, <2>2, <3>1
    <2>3. QED
      BY <1>8, <2>1, <2>2 DEF Answering
  <1>9. n <= version'
    BY <1>4
  <1>10. QED
    BY <1>2, <1>3, <1>7, <1>8, <1>9 DEF NewEnough

\* So does a save, or what has become of it.
LEMMA MineKept ==
    ASSUME TypeOK, TypeOK', NEW u \in puts, MineOpen(u), NEW w,
           w.tab = u.tab, w.page = u.page, w.mine => u.mine,
           view'[u.tab].page = view[u.tab].page, Filling(u.tab)
    PROVE  MineOpen(w)'
  <1> SUFFICES ASSUME w.mine
               PROVE  /\ view'[u.tab].page = u.page
                      /\ u.page # "providers" => cache'[u.tab][MainKey[u.page]].data # NoData
    BY DEF MineOpen
  <1>1. /\ view[u.tab].page = u.page
        /\ u.page # "providers" => cache[u.tab][MainKey[u.page]].data # NoData
    BY DEF MineOpen
  <1>2. MainKey[u.page] \in Keys
    BY MainKeys
  <1>3. u.page # "providers" => cache'[u.tab][MainKey[u.page]].data # NoData
    BY <1>1, <1>2 DEF Filling, Answered
  <1>4. QED
    BY <1>1, <1>3

\* Steps that open, leave and confirm no page and begin no save.
LEMMA ReadKept ==
    ASSUME TypeOK, TypeOK', ReadInv, version' >= version,
           \A t \in Tabs : SamePage(t) /\ Filling(t) /\ Answering(t),
           \A w \in puts' : \E u \in puts : w.tab = u.tab /\ w.page = u.page /\ w.mine = u.mine
    PROVE  ReadInv'
  <1>1. ASSUME NEW w \in puts'
        PROVE  MineOpen(w)'
    <2>1. PICK u \in puts : w.tab = u.tab /\ w.page = u.page /\ w.mine = u.mine
      OBVIOUS
    <2>2. u.tab \in Tabs
      BY MainKeys
    <2>3. QED
      BY <2>1, <2>2, MineKept DEF ReadInv, SamePage
  <1>2. \A t \in Tabs : Confirmed(t)' => NewEnough(t)'
    BY PageKept DEF ReadInv
  <1>3. QED
    BY <1>1, <1>2 DEF ReadInv

\* With cache and requests as they were.
LEMMA ReadSame ==
    ASSUME UNCHANGED <<cache, gets>>
    PROVE  \A t \in Tabs : Filling(t) /\ Answering(t)
  BY DEF Filling, Answering

\* An invalidation marks data stale and drops answers; it brings none.
LEMMA Invalidated ==
    ASSUME TypeOK, NEW s \in Tabs, NEW ks \in SUBSET Keys, Invalidate(s, ks)
    PROVE  \A t \in Tabs : Filling(t) /\ Answering(t)
  <1>1. ASSUME NEW t \in Tabs
        PROVE  Filling(t)
    <2>1. \A k \in Keys : cache[t][k] \in Entry
      BY DEF TypeOK
    <2>2. \A k \in Keys : LET e == [cache[t][k] EXCEPT !.stale = TRUE] IN
             e.data = cache[t][k].data /\ e.stale
      BY <2>1 DEF Entry
    <2>3. \A k \in Keys : \/ cache'[t][k] = cache[t][k]
                          \/ cache'[t][k] = [cache[t][k] EXCEPT !.stale = TRUE]
      BY DEF Invalidate, TypeOK
    <2>4. QED
      BY <2>2, <2>3 DEF Filling
  <1>2. ASSUME NEW g \in gets', g.current, g.snap # NoData
        PROVE  g \in gets
    <2>1. \A h \in gets : ~[h EXCEPT !.current = FALSE].current
      BY DEF TypeOK, Get
    <2>2. \A k \in Keys : NewGet(s, k).snap = NoData
      BY DEF NewGet
    <2>3. \/ \E h \in gets : g = h \/ g = [h EXCEPT !.current = FALSE]
          \/ \E k \in Keys : g = NewGet(s, k)
      BY DEF Invalidate
    <2>4. QED
      BY <1>2, <2>1, <2>2, <2>3
  <1>3. QED
    BY <1>1, <1>2 DEF Answering

\* A key on screen with data is fetched anew, whatever was on its way.
LEMMA Refetched ==
    ASSUME TypeOK, NEW t \in Tabs, NEW k \in Keys, Invalidate(t, {k}),
           view[t].page # NoPage, k \in KeysOf(view[t].page), cache[t][k].data # NoData
    PROVE  /\ cache'[t][k].stale /\ cache'[t][k].data # NoData
           /\ \A g \in gets' : g.tab = t /\ g.key = k /\ g.current => g.snap = NoData
  <1>1. cache'[t][k] = [cache[t][k] EXCEPT !.stale = TRUE]
    BY DEF Invalidate, TypeOK
  <1>2. cache[t][k] \in Entry
    BY DEF TypeOK
  <1>3. ASSUME NEW g \in gets', g.tab = t, g.key = k, g.current
        PROVE  g.snap = NoData
    <2>1. \A h \in gets : ~[h EXCEPT !.current = FALSE].current
      BY DEF TypeOK, Get
    <2>2. \/ g \in gets /\ ~(g.tab = t /\ g.key = k)
          \/ \E h \in gets : g = [h EXCEPT !.current = FALSE]
          \/ \E j \in Keys : g = NewGet(t, j)
      BY DEF Invalidate
    <2>3. \A j \in Keys : NewGet(t, j).snap = NoData
      BY DEF NewGet
    <2>4. QED
      BY <1>3, <2>1, <2>2, <2>3
  <1>4. QED
    BY <1>1, <1>2, <1>3 DEF Entry

\* A save is clicked on a page that has its data, or on the providers page.
LEMMA SubmitReads ==
    ASSUME TypeOK, TypeOK', ReadInv, NEW t \in Tabs,
           \/ SaveSettings(t) \/ SaveMailing(t) \/ SaveDatabase(t) \/ SaveCache(t)
           \/ SaveFields(t) \/ DisableProvider(t)
           \/ \E v \in Values : SaveProvider(t, v)
    PROVE  ReadInv'
  <1>1. PICK p, w : /\ p \in AllPages
                    /\ puts' = puts \cup {w}
                    /\ w.tab = t /\ w.page = p
                    /\ view[t].page = p
                    /\ p # "providers" => Loaded(t)
                    /\ UNCHANGED <<version, view, cache, gets>>
    <2>1. ASSUME NEW p \in AllPages, NEW phase, NEW etag, NEW payload, NEW edited,
                 Submit(t, p, phase, etag, payload, edited), p # "providers" => Loaded(t)
          PROVE  \E w : /\ puts' = puts \cup {w}
                        /\ w.tab = t /\ w.page = p
                        /\ view[t].page = p
                        /\ p # "providers" => Loaded(t)
                        /\ UNCHANGED <<version, view, cache, gets>>
      <3> DEFINE w == [tab |-> t, page |-> p, phase |-> phase, etag |-> etag,
                       payload |-> payload, edited |-> edited, mine |-> TRUE]
      <3>1. puts' = puts \cup {w} /\ view[t].page = p /\ UNCHANGED <<version, view, cache, gets>>
        BY <2>1 DEF Submit
      <3>2. w.tab = t /\ w.page = p
        OBVIOUS
      <3> HIDE DEF w
      <3>3. QED
        BY <2>1, <3>1, <3>2
    <2>2. CASE SaveSettings(t)
      BY <2>1, <2>2 DEF SaveSettings, AllPages
    <2>3. CASE SaveMailing(t)
      BY <2>1, <2>3 DEF SaveMailing, AllPages
    <2>4. CASE SaveDatabase(t) \/ SaveCache(t)
      BY <2>1, <2>4 DEF SaveDatabase, SaveCache, AllPages
    <2>5. CASE SaveFields(t)
      BY <2>1, <2>5 DEF SaveFields, AllPages
    <2>6. CASE DisableProvider(t)
      BY <2>1, <2>6 DEF DisableProvider, AllPages
    <2>7. ASSUME NEW v \in Values, SaveProvider(t, v)
          PROVE  \E payload : Submit(t, "providers", "read", NoData, payload, {"google"})
      BY <2>7 DEF SaveProvider
    <2>8. CASE \E v \in Values : SaveProvider(t, v)
      BY <2>1, <2>7, <2>8 DEF AllPages
    <2>9. QED
      BY <2>2, <2>3, <2>4, <2>5, <2>6, <2>8
  <1>2. p # "providers" => cache[t][MainKey[p]].data # NoData
    BY <1>1, GroupNames DEF Loaded
  <1>3. MineOpen(w)'
    BY <1>1, <1>2 DEF MineOpen
  <1>4. \A u \in puts : MineOpen(u)'
    BY <1>1 DEF ReadInv, MineOpen
  <1>5. \A s \in Tabs : Confirmed(s)' => NewEnough(s)'
    BY <1>1 DEF ReadInv, Confirmed, NewEnough
  <1>6. QED
    BY <1>1, <1>3, <1>4, <1>5 DEF ReadInv

\* A page is opened with nothing saved: its tab had no page.
LEMMA OpenReads ==
    ASSUME TypeOK, TypeOK', ReadInv, NEW s \in Tabs, NEW p \in AllPages, Open(s, p)
    PROVE  ReadInv'
  <1>1. /\ view[s].page = NoPage /\ view'[s].saved = 0
        /\ \A t \in Tabs \ {s} : view'[t] = view[t]
        /\ UNCHANGED <<version, cache, puts>>
    BY DEF Open, TypeOK, Closed
  <1>2. \A t \in Tabs : Filling(t)
    BY <1>1 DEF Filling
  <1>3. ASSUME NEW g \in gets', g.snap # NoData
        PROVE  g \in gets
    BY <1>3 DEF Open, NewGet
  <1>4. ASSUME NEW t \in Tabs
        PROVE  Confirmed(t)' => NewEnough(t)'
    <2>1. CASE t = s
      BY <1>1, <2>1 DEF Confirmed
    <2>2. CASE t # s
      <3>1. SamePage(t) /\ Answering(t)
        BY <1>1, <1>3, <2>2 DEF SamePage, Answering
      <3>2. version' >= version
        BY <1>1 DEF TypeOK
      <3>3. QED
        BY <1>2, <3>1, <3>2, PageKept DEF ReadInv
    <2>3. QED
      BY <2>1, <2>2
  <1>5. ASSUME NEW u \in puts
        PROVE  MineOpen(u)'
    <2>1. u.tab \in Tabs /\ u.page # NoPage
      BY MainKeys, ConstantsAssumption
    <2>2. CASE u.tab = s
      BY <1>1, <2>1, <2>2 DEF ReadInv, MineOpen
    <2>3. CASE u.tab # s
      BY <1>1, <1>2, <2>1, <2>3, MineKept DEF ReadInv
    <2>4. QED
      BY <2>2, <2>3
  <1>6. QED
    BY <1>1, <1>4, <1>5 DEF ReadInv

\* A page is left: its saves are no longer its own.
LEMMA LeaveReads ==
    ASSUME TypeOK, TypeOK', ReadInv, NEW s \in Tabs, Leave(s)
    PROVE  ReadInv'
  <1>1. /\ view'[s].page = NoPage
        /\ \A t \in Tabs \ {s} : view'[t] = view[t]
        /\ UNCHANGED <<version, cache>>
    BY DEF Leave, TypeOK, Closed
  <1>2. \A t \in Tabs : Filling(t)
    BY <1>1 DEF Filling
  <1>3. ASSUME NEW g \in gets', g.tab # s
        PROVE  g \in gets
    <2>1. \A h \in gets : [h EXCEPT !.mine = FALSE].tab = h.tab
      BY DEF TypeOK, Get
    <2>2. \E h \in gets : g = IF h.tab = s THEN [h EXCEPT !.mine = FALSE] ELSE h
      BY DEF Leave
    <2>3. QED
      BY <1>3, <2>1, <2>2
  <1>4. ASSUME NEW t \in Tabs
        PROVE  Confirmed(t)' => NewEnough(t)'
    <2>1. CASE t = s
      BY <1>1, <2>1 DEF Confirmed
    <2>2. CASE t # s
      <3>1. SamePage(t) /\ Answering(t)
        BY <1>1, <1>3, <2>2 DEF SamePage, Answering
      <3>2. version' >= version
        BY <1>1 DEF TypeOK
      <3>3. QED
        BY <1>2, <3>1, <3>2, PageKept DEF ReadInv
    <2>3. QED
      BY <2>1, <2>2
  <1>5. ASSUME NEW w \in puts'
        PROVE  MineOpen(w)'
    <2>1. PICK u \in puts :
             w = IF u.tab = s /\ u.mine
                 THEN [u EXCEPT !.mine = FALSE,
                                !.etag = IF u.phase \in {"rename", "renamed"}
                                         THEN view[s].etag ELSE @]
                 ELSE u
      BY DEF Leave
    <2>2. u.tab = s => ~w.mine
      <3>1. \A e : ~[u EXCEPT !.mine = FALSE, !.etag = e].mine
        BY DEF TypeOK, IsSave
      <3>2. QED
        BY <2>1, <3>1
    <2>3. CASE u.tab = s
      BY <2>2, <2>3 DEF MineOpen
    <2>4. CASE u.tab # s
      BY <1>1, <1>2, <2>1, <2>4, MineKept, MainKeys DEF ReadInv
    <2>5. QED
      BY <2>3, <2>4
  <1>6. QED
    BY <1>4, <1>5 DEF ReadInv

\* The server answers with the version of now; an answer becomes data.
LEMMA GetReads ==
    ASSUME TypeOK, TypeOK', ReadInv, GetStep
    PROVE  ReadInv'
  <1>0. version \in Nat
    BY DEF TypeOK
  <1>1. ASSUME NEW g \in gets, Serve(g)
        PROVE  ReadInv'
    <2>1. PICK w : gets' = (gets \ {g}) \cup {w} /\ w.snap.ver = version
      <3> DEFINE w == [g EXCEPT !.snap = [val |-> stored, ver |-> version]]
      <3>1. w.snap.ver = version
        BY DEF TypeOK, Get
      <3>2. gets' = (gets \ {g}) \cup {w}
        BY <1>1 DEF Serve
      <3> HIDE DEF w
      <3>3. QED
        BY <3>1, <3>2
    <2>2. UNCHANGED <<version, view, cache, puts>>
      BY <1>1 DEF Serve
    <2>3. \A t \in Tabs : Answering(t)
      BY <1>0, <2>1 DEF Answering
    <2>4. \A t \in Tabs : SamePage(t) /\ Filling(t)
      BY <2>2 DEF SamePage, Filling
    <2>5. QED
      BY <1>0, <2>2, <2>3, <2>4, ReadKept
  <1>2. ASSUME NEW g \in gets, GetFails(g)
        PROVE  ReadInv'
    <2>1. UNCHANGED <<version, view, cache, puts>> /\ gets' \subseteq gets
      BY <1>2 DEF GetFails
    <2>2. \A t \in Tabs : SamePage(t) /\ Filling(t) /\ Answering(t)
      BY <2>1 DEF SamePage, Filling, Answering
    <2>3. QED
      BY <1>0, <2>1, <2>2, ReadKept
  <1>3. ASSUME NEW g \in gets, Arrive(g)
        PROVE  ReadInv'
    <2>1. g.tab \in Tabs /\ g.key \in Keys /\ g.snap # NoData
      BY <1>3 DEF TypeOK, Get, Arrive
    <2>2. UNCHANGED <<version, puts>> /\ gets' \subseteq gets
      BY <1>3 DEF Arrive
    <2>3. \A t \in Tabs : SamePage(t)
      <3>1. \E e, f, d : view' = [view EXCEPT ![g.tab].etag = e, ![g.tab].form = f,
                                              ![g.tab].dirty = d]
        BY <1>3 DEF Arrive
      <3>2. \A t \in Tabs : view[t] \in View
        BY DEF TypeOK
      <3>3. QED
        BY <3>1, <3>2 DEF SamePage, TypeOK, View
    <2>4. ASSUME NEW t \in Tabs
          PROVE  Filling(t)
      <3>1. CASE ~g.current \/ t # g.tab
        BY <1>3, <2>1, <3>1 DEF Arrive, Filling, TypeOK
      <3>2. CASE g.current /\ t = g.tab
        <4>1. cache'[t] = [cache[t] EXCEPT ![g.key] = [data |-> g.snap, stale |-> FALSE]]
          BY <1>3, <2>1, <3>2 DEF Arrive, TypeOK
        <4>2. \A k \in Keys : k # g.key => cache'[t][k] = cache[t][k]
          BY <4>1 DEF TypeOK
        <4>3. cache'[t][g.key].data = g.snap
          BY <2>1, <4>1 DEF TypeOK
        <4>4. g \in Answered(t, g.key)
          BY <2>1, <3>2 DEF Answered
        <4>5. QED
          BY <4>2, <4>3, <4>4 DEF Filling
      <3>3. QED
        BY <3>1, <3>2
    <2>5. \A t \in Tabs : Answering(t)
      BY <2>2 DEF Answering
    <2>6. QED
      BY <1>0, <2>2, <2>3, <2>4, <2>5, ReadKept
  <1>4. QED
    BY <1>1, <1>2, <1>3 DEF GetStep

\* A save's success: what is on its way is dropped, and the data marked.
LEMMA SavedReads ==
    ASSUME TypeOK, TypeOK', ReadInv, NEW u \in puts, Saved(u)
    PROVE  ReadInv'
  <1>1. u.tab \in Tabs /\ u.page \in AllPages /\ MainKey[u.page] \in Keys /\ u.page # NoPage
    BY MainKeys, ConstantsAssumption
  <1>2. \A t \in Tabs : Filling(t) /\ Answering(t)
    BY <1>1, Invalidated DEF Saved
  <1>3. puts' \subseteq puts /\ version' = version /\ version \in Nat
    BY DEF Saved, TypeOK
  <1>4. \A t \in Tabs : view'[t].page = view[t].page /\ (t # u.tab => SamePage(t))
    BY DEF Saved, Acknowledge, SamePage, TypeOK, View
  <1>5. ASSUME NEW w \in puts'
        PROVE  MineOpen(w)'
    BY <1>2, <1>3, <1>4, MineKept, MainKeys DEF ReadInv
  <1>6. ASSUME NEW t \in Tabs, t # u.tab \/ ~u.mine
        PROVE  Confirmed(t)' => NewEnough(t)'
    <2>1. SamePage(t)
      BY <1>4, <1>6 DEF Saved, Acknowledge, SamePage
    <2>2. QED
      BY <1>2, <1>3, <2>1, PageKept DEF ReadInv
  <1>7. ASSUME u.mine, Confirmed(u.tab)'
        PROVE  NewEnough(u.tab)'
    <2>1. view'[u.tab].page = u.page /\ view'[u.tab].saved = version
      <3>1. view'[u.tab].page = u.page
        BY <1>1, <1>4, <1>7 DEF ReadInv, MineOpen
      <3>2. view'[u.tab].saved = version
        BY <1>1, <1>7 DEF Saved, Acknowledge, TypeOK, View
      <3>3. QED
        BY <3>1, <3>2
    <2>2. /\ view[u.tab].page = u.page
          /\ cache[u.tab][MainKey[u.page]].data # NoData
      BY <1>7, <2>1 DEF ReadInv, MineOpen, Confirmed
    <2>3. /\ cache'[u.tab][MainKey[u.page]].stale
          /\ cache'[u.tab][MainKey[u.page]].data # NoData
          /\ \A g \in gets' : g.tab = u.tab /\ g.key = MainKey[u.page] /\ g.current
                              => g.snap = NoData
      BY <1>1, <2>2, GroupNames, Refetched DEF Saved
    <2>4. QED
      BY <1>3, <2>1, <2>3 DEF NewEnough
  <1>8. QED
    BY <1>5, <1>6, <1>7 DEF ReadInv

LEMMA PutReads ==
    ASSUME TypeOK, TypeOK', ReadInv, PutStep
    PROVE  ReadInv'
  <1>0. version \in Nat /\ version' \in Nat
    BY DEF TypeOK
  <1>1. ASSUME UNCHANGED view, version' >= version,
               \A t \in Tabs : Filling(t) /\ Answering(t),
               \A w \in puts' : \E u \in puts :
                  w.tab = u.tab /\ w.page = u.page /\ w.mine = u.mine
        PROVE  ReadInv'
    BY <1>1, ReadKept DEF SamePage
  <1>2. ASSUME NEW u \in puts, NEW w, puts' \subseteq puts \cup {w},
               w.tab = u.tab /\ w.page = u.page /\ w.mine = u.mine
        PROVE  \A x \in puts' : \E y \in puts :
                  x.tab = y.tab /\ x.page = y.page /\ x.mine = y.mine
    BY <1>2
  <1>3. ASSUME NEW u \in puts, NEW ph
        PROVE  LET w == [u EXCEPT !.phase = ph]
               IN  w.tab = u.tab /\ w.page = u.page /\ w.mine = u.mine
    BY DEF TypeOK, IsSave
  <1>4. ASSUME NEW u \in puts, ReadBeforeSave(u)
        PROVE  ReadInv'
    <2>1. PICK w : /\ puts' \subseteq puts \cup {w}
                   /\ w.tab = u.tab /\ w.page = u.page /\ w.mine = u.mine
      <3> DEFINE pl == [g \in Setting |-> IF g \in DOMAIN u.payload THEN u.payload[g]
                                          ELSE IF g = "github" THEN Empty
                                          ELSE stored[g]]
                 w == [u EXCEPT !.phase = "sent", !.etag = ETag(stored), !.payload = pl]
      <3>1. puts' \subseteq puts \cup {w}
        BY <1>4 DEF ReadBeforeSave, Becomes
      <3> HIDE DEF pl
      <3>2. w.tab = u.tab /\ w.page = u.page /\ w.mine = u.mine
        BY DEF TypeOK, IsSave
      <3> HIDE DEF w
      <3>3. QED
        BY <3>1, <3>2
    <2>2. \A x \in puts' : \E y \in puts : x.tab = y.tab /\ x.page = y.page /\ x.mine = y.mine
      BY <1>2, <2>1
    <2>3. UNCHANGED <<version, view, cache, gets>>
      BY <1>4 DEF ReadBeforeSave
    <2>4. QED
      BY <1>0, <1>1, <2>2, <2>3, ReadSame
  <1>5. ASSUME NEW u \in puts, Rename(u)
        PROVE  ReadInv'
    <2>1. puts' \subseteq puts \cup {[u EXCEPT !.phase = "renamed"]}
      BY <1>5 DEF Rename, Becomes
    <2>2. \A x \in puts' : \E y \in puts : x.tab = y.tab /\ x.page = y.page /\ x.mine = y.mine
      BY <1>2, <1>3, <2>1
    <2>3. UNCHANGED <<view, cache, gets>> /\ version' = version + 1
      BY <1>5 DEF Rename
    <2>4. QED
      BY <1>0, <1>1, <2>2, <2>3, ReadSame
  <1>6. ASSUME NEW u \in puts, Renamed(u)
        PROVE  ReadInv'
    <2> DEFINE e == IF u.mine THEN view[u.tab].etag ELSE u.etag
               w == [u EXCEPT !.phase = "sent", !.etag = e]
    <2>1. puts' \subseteq puts \cup {w} /\ UNCHANGED <<view, version>>
      BY <1>6 DEF Renamed, Becomes
    <2>2. w.tab = u.tab /\ w.page = u.page /\ w.mine = u.mine
      BY DEF TypeOK, IsSave
    <2> HIDE DEF w, e
    <2>3. \A x \in puts' : \E y \in puts : x.tab = y.tab /\ x.page = y.page /\ x.mine = y.mine
      BY <1>2, <2>1, <2>2
    <2>4. \A t \in Tabs : Filling(t) /\ Answering(t)
      <3>1. {"tenant"} \subseteq Keys /\ u.tab \in Tabs
        BY MainKeys DEF Keys
      <3>2. QED
        BY <1>6, <3>1, Invalidated DEF Renamed
    <2>5. QED
      BY <1>0, <1>1, <2>1, <2>3, <2>4
  <1>7. ASSUME NEW u \in puts, Check(u)
        PROVE  ReadInv'
    <2>1. PICK w : /\ puts' \subseteq puts \cup {w}
                   /\ w.tab = u.tab /\ w.page = u.page /\ w.mine = u.mine
      <3>1. CASE u.etag = ETag(stored)
        <4> DEFINE w == [u EXCEPT !.phase = "checked", !.payload = Merge(stored, u.payload)]
        <4>1. puts' \subseteq puts \cup {w}
          BY <1>7, <3>1 DEF Check, Becomes
        <4>2. w.tab = u.tab /\ w.page = u.page /\ w.mine = u.mine
          BY DEF TypeOK, IsSave
        <4> HIDE DEF w
        <4>3. QED
          BY <4>1, <4>2
      <3>2. CASE u.etag # ETag(stored)
        <4>1. puts' \subseteq puts \cup {[u EXCEPT !.phase = "refused"]}
          BY <1>7, <3>2 DEF Check, Becomes
        <4>2. QED
          BY <1>3, <4>1
      <3>3. QED
        BY <3>1, <3>2
    <2>2. \A x \in puts' : \E y \in puts : x.tab = y.tab /\ x.page = y.page /\ x.mine = y.mine
      BY <1>2, <2>1
    <2>3. UNCHANGED <<version, view, cache, gets>>
      BY <1>7 DEF Check
    <2>4. QED
      BY <1>0, <1>1, <2>2, <2>3, ReadSame
  <1>8. ASSUME NEW u \in puts, Write(u)
        PROVE  ReadInv'
    <2>1. puts' \subseteq puts \cup {[u EXCEPT !.phase = "ok"]}
      BY <1>8 DEF Write, Becomes
    <2>2. \A x \in puts' : \E y \in puts : x.tab = y.tab /\ x.page = y.page /\ x.mine = y.mine
      BY <1>2, <1>3, <2>1
    <2>3. UNCHANGED <<view, cache, gets>> /\ version' = version + 1
      BY <1>8 DEF Write
    <2>4. QED
      BY <1>0, <1>1, <2>2, <2>3, ReadSame
  <1>9. ASSUME NEW u \in puts, Rejected(u) \/ SaveFails(u)
         PROVE  ReadInv'
    <2>1. puts' \subseteq puts /\ UNCHANGED <<version, view, cache, gets>>
      BY <1>9 DEF Rejected, SaveFails
    <2>2. QED
      BY <1>0, <1>1, <2>1, ReadSame
  <1>10. QED
    BY <1>4, <1>5, <1>6, <1>7, <1>8, <1>9, SavedReads DEF PutStep

\* Settings stored by somebody else only make the version larger.
LEMMA ElsewhereReads ==
    ASSUME TypeOK, TypeOK', ReadInv,
           \E g, v : OtherSave(g, v) \/ \E t \in Tabs : Import(t, g, v)
    PROVE  ReadInv'
  <1>1. /\ UNCHANGED <<view, puts>> /\ version' = version + 1
        /\ UNCHANGED <<cache, gets>> \/ \E t \in Tabs : Invalidate(t, {"tenant"})
    BY DEF OtherSave, Import
  <1>2. version' >= version
    BY <1>1 DEF TypeOK
  <1>3. \A t \in Tabs : Filling(t) /\ Answering(t)
    <2>1. {"tenant"} \subseteq Keys
      BY DEF Keys
    <2>2. QED
      BY <1>1, <2>1, ReadSame, Invalidated
  <1>4. \A t \in Tabs : SamePage(t)
    BY <1>1 DEF SamePage
  <1>5. QED
    BY <1>1, <1>2, <1>3, <1>4, ReadKept

LEMMA TabReads ==
    ASSUME TypeOK, TypeOK', ReadInv, NEW t \in Tabs, TabStep(t)
    PROVE  ReadInv'
  <1>1. ASSUME UNCHANGED <<version, puts, gets>>, \A s \in Tabs : SamePage(s) /\ Filling(s)
        PROVE  ReadInv'
    <2>1. \A s \in Tabs : Answering(s)
      BY <1>1 DEF Answering
    <2>2. version' >= version
      BY <1>1 DEF TypeOK
    <2>3. QED
      BY <1>1, <2>1, <2>2, ReadKept
  <1>2. ASSUME NEW p, NEW g, NEW v, Type(t, p, g, v)
        PROVE  ReadInv'
    <2>1. \A s \in Tabs : SamePage(s)
      BY <1>2 DEF Type, SamePage, TypeOK, View
    <2>2. QED
      BY <1>1, <1>2, <2>1, ReadSame DEF Type
  <1>3. ASSUME NEW v \in Values,
               \/ EditGeneral(t, v) \/ EditBranding(t, v) \/ EditSecurity(t, v)
               \/ EditSocial(t, v) \/ EditIssuer(t, v) \/ EditSMTP(t, v)
               \/ EditTemplates(t, v) \/ EditDatabase(t, v) \/ EditCache(t, v) \/ EditFields(t, v)
        PROVE  ReadInv'
    BY <1>2, <1>3
       DEF EditGeneral, EditBranding, EditSecurity, EditSocial, EditIssuer, EditSMTP, EditTemplates,
           EditDatabase, EditCache, EditFields
  <1>4. CASE CancelFields(t)
    <2>1. \A s \in Tabs : SamePage(s)
      BY <1>4 DEF CancelFields, SamePage, TypeOK, View
    <2>2. QED
      BY <1>1, <1>4, <2>1, ReadSame DEF CancelFields
  <1>5. ASSUME NEW k \in Keys, Expire(t, k)
        PROVE  ReadInv'
    <2>1. UNCHANGED <<version, view, puts, gets>>
      BY <1>5 DEF Expire
    <2>2. \A s \in Tabs : SamePage(s)
      BY <2>1 DEF SamePage
    <2>3. \A s \in Tabs : Filling(s)
      BY <1>5 DEF Expire, Filling, TypeOK, Entry
    <2>4. QED
      BY <1>1, <2>1, <2>2, <2>3
  <1>6. ASSUME NEW p \in Pages, Open(t, p)
        PROVE  ReadInv'
    BY <1>6, OpenReads, ConstantsAssumption
  <1>7. QED
    BY <1>3, <1>4, <1>5, <1>6, LeaveReads, SubmitReads, ElsewhereReads DEF TabStep

(***************************************************************************)
(* ReadYourSave: once the success of its own save has arrived, a page that *)
(* stays open never settles on an answer from before that save, for any    *)
(* number of tabs, pages, saves, imports and late or cancelled answers.    *)
(***************************************************************************)
THEOREM OwnSaveRead == Spec => []ReadYourSave
  <1>1. Init => ReadInv
    BY DEF Init, ReadInv, Confirmed, Closed
  <1>2. TypeOK /\ TypeOK' /\ ReadInv /\ [Next]_vars => ReadInv'
    <2> SUFFICES ASSUME TypeOK, TypeOK', ReadInv, [Next]_vars
                 PROVE  ReadInv'
      OBVIOUS
    <2>1. CASE UNCHANGED vars
      BY <2>1 DEF vars, ReadInv, MineOpen, Confirmed, NewEnough
    <2>2. QED
      BY <2>1, TabReads, GetReads, PutReads, ElsewhereReads DEF Next
  <1>3. TypeOK /\ ReadInv => ReadYourSave
    BY MainKeys DEF ReadInv, ReadYourSave, Confirmed, NewEnough
  <1>4. QED
    BY <1>1, <1>2, <1>3, TypeCorrect, PTL DEF Spec
=============================================================================
