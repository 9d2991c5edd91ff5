-------------------------- MODULE ControlPlaneProofs --------------------------
(***************************************************************************)
(* Theorems about rows that several requests, or a request and a worker,   *)
(* overwrite of each other in Postgres: dashboards and saved views         *)
(* (SharedObjects), incidents (Incidents), deployment markers (Deployments)*)
(* and the settings of the language model (ModelSettings).                 *)
(***************************************************************************)
EXTENDS SharedObjects, Deployments, ModelSettings, Incidents, FiniteSetTheorems,
        SequenceTheorems, TLAPS

-----------------------------------------------------------------------------
(***************************************************************************)
(* Panels: what validation lets in and normalisation stores.               *)
(***************************************************************************)
(* The row of one panel.                                                   *)
PanelRow(p, i) ==
    [title |-> p.title, panel_kind |-> panel_kind(p), query_kind |-> p.query_kind,
     content |-> p.content, layout |-> normalized_layout(p, i - 1),
     time_range |-> normalized_time_range(p), preset |-> p.preset]

(* A row that an import accepts and stores as it is.                       *)
Settled(p) ==
    ValidPanel(p) /\ p.panel_kind # "none" /\ p.layout # NoLayout /\ p.time_range # NoRange

(* i64 addition is addition, as long as it does not pass the largest i64.  *)
LEMMA AddIsExact ==
    ASSUME NEW a \in Nat, NEW b \in Nat, a + b <= MaxInt
    PROVE  Add(a, b) = a + b
<1> DEFINE m == 2 * (MaxInt + 1)
           s == a + b + MaxInt + 1
<1>1. m \in Nat /\ s \in Nat /\ s < m
  BY SharedObjectsAssumption
<1>2. s % m = s
  BY <1>1
<1>3. QED
  BY <1>2, SharedObjectsAssumption DEF Add

(* The layout given to a panel without one is valid.                       *)
LEMMA DefaultLayoutFits ==
    ASSUME NEW p \in DashboardPanelRequest, NEW i \in Nat \ {0}, p.layout = NoLayout
    PROVE  /\ normalized_layout(p, i - 1) # NoLayout
           /\ normalized_layout(p, i - 1) \in [x : Int, y : Int, w : Int, h : Int]
           /\ validate_layout(normalized_layout(p, i - 1))
<1>1. PICK x, y : x = ((i - 1) % 2) * 6 /\ y = ((i - 1) \div 2) * 4
  OBVIOUS
<1>2. x \in {0, 6} /\ y \in Nat
  BY <1>1
<1>3. normalized_layout(p, i - 1) = [x |-> x, y |-> y, w |-> 6, h |-> 4]
  BY <1>1 DEF normalized_layout
<1>4. Add(x, 6) = x + 6
  BY <1>2, AddIsExact, SharedObjectsAssumption
<1>5. QED
  BY <1>2, <1>3, <1>4 DEF validate_layout, NoLayout

(* Every valid panel makes a settled row.                                  *)
LEMMA RowsAreSettled ==
    ASSUME NEW p \in DashboardPanelRequest, NEW i \in Nat \ {0}, ValidPanel(p)
    PROVE  PanelRow(p, i) \in DashboardPanelRequest /\ Settled(PanelRow(p, i))
<1> DEFINE row == PanelRow(p, i)
<1>1. panel_kind(p) \in {"query", "text"} /\ row.panel_kind = panel_kind(p)
  BY DEF ValidPanel, PanelRow
<1>2. /\ row.layout = normalized_layout(p, i - 1)
      /\ row.layout # NoLayout /\ validate_layout(row.layout)
      /\ row.layout \in [x : Int, y : Int, w : Int, h : Int]
  <2>1. row.layout = normalized_layout(p, i - 1)
    BY DEF PanelRow
  <2>2. CASE p.layout # NoLayout
    BY <2>1, <2>2 DEF normalized_layout, ValidPanel, DashboardPanelRequest
  <2>3. CASE p.layout = NoLayout
    BY <2>1, <2>3, DefaultLayoutFits
  <2>4. QED
    BY <2>1, <2>2, <2>3
<1>3. /\ row.time_range = normalized_time_range(p) /\ row.time_range # NoRange
      /\ validate_time_range(row.time_range)
      /\ row.time_range \in [mode : Words, preset : Words, bounded : BOOLEAN]
  <2>1. row.time_range = normalized_time_range(p)
    BY DEF PanelRow
  <2>2. /\ p.time_range \in [mode : Words, preset : Words, bounded : BOOLEAN]
        /\ p.preset \in Words /\ p.preset \in ValidPresets \union {"none"}
        /\ p.time_range # NoRange => validate_time_range(p.time_range)
    BY DEF ValidPanel, DashboardPanelRequest
  <2>3. CASE p.time_range # NoRange
    BY <2>1, <2>2, <2>3 DEF normalized_time_range
  <2>4. CASE p.time_range = NoRange /\ p.preset # "none"
    BY <2>1, <2>2, <2>4, SharedObjectsAssumption DEF normalized_time_range, NoRange, validate_time_range
  <2>5. CASE p.time_range = NoRange /\ p.preset = "none"
    BY <2>1, <2>5, SharedObjectsAssumption DEF normalized_time_range, NoRange, validate_time_range
  <2>6. QED
    BY <2>3, <2>4, <2>5
<1>4. /\ row.title = p.title /\ row.query_kind = p.query_kind /\ row.content = p.content
      /\ row.preset = p.preset
  BY DEF PanelRow
<1>5. row \in DashboardPanelRequest
  <2>1. /\ p.title \in BOOLEAN /\ p.query_kind \in Words /\ p.content \in BOOLEAN
        /\ p.preset \in Words /\ panel_kind(p) \in Words
    BY <1>1, SharedObjectsAssumption DEF DashboardPanelRequest
  <2>2. QED
    BY <1>2, <1>3, <2>1 DEF PanelRow, DashboardPanelRequest
<1>6. panel_kind(row) = panel_kind(p)
  BY <1>1 DEF panel_kind
<1>7. ValidPanel(row)
  BY <1>2, <1>3, <1>4, <1>6 DEF ValidPanel
<1>8. QED
  BY <1>1, <1>2, <1>3, <1>5, <1>7 DEF Settled

(* A settled row is its own row.                                           *)
LEMMA SettledRowsStay ==
    ASSUME NEW p \in DashboardPanelRequest, NEW i, Settled(p)
    PROVE  PanelRow(p, i) = p
<1>1. /\ panel_kind(p) = p.panel_kind /\ normalized_layout(p, i - 1) = p.layout
      /\ normalized_time_range(p) = p.time_range
  BY DEF Settled, panel_kind, normalized_layout, normalized_time_range
<1>2. QED
  BY <1>1 DEF PanelRow, DashboardPanelRequest

(* The same for the panels of a dashboard.                                 *)
LEMMA PanelRowsSettle ==
    ASSUME NEW ps \in Seq(DashboardPanelRequest), \A i \in DOMAIN ps : ValidPanel(ps[i])
    PROVE  /\ PanelRows(ps) \in Seq(DashboardPanelRequest)
           /\ \A i \in DOMAIN PanelRows(ps) : Settled(PanelRows(ps)[i])
<1>1. PanelRows(ps) = [i \in DOMAIN ps |-> PanelRow(ps[i], i)]
  BY DEF PanelRows, PanelRow
<1>2. DOMAIN ps = 1..Len(ps) /\ Len(ps) \in Nat
  OBVIOUS
<1>3. ASSUME NEW i \in DOMAIN ps
      PROVE  PanelRow(ps[i], i) \in DashboardPanelRequest /\ Settled(PanelRow(ps[i], i))
  BY <1>2, <1>3, RowsAreSettled
<1>4. PanelRows(ps) \in [1..Len(ps) -> DashboardPanelRequest]
  BY <1>1, <1>2, <1>3
<1>5. PanelRows(ps) \in Seq(DashboardPanelRequest)
  BY <1>2, <1>4
<1>6. QED
  BY <1>1, <1>3, <1>5

(* Panels that were stored once are stored unchanged when they are read back. *)
LEMMA PanelRowsStay ==
    ASSUME NEW ps \in Seq(DashboardPanelRequest), \A i \in DOMAIN ps : Settled(ps[i])
    PROVE  PanelRows(ps) = ps
<1>1. PanelRows(ps) = [i \in DOMAIN ps |-> PanelRow(ps[i], i)]
  BY DEF PanelRows, PanelRow
<1>2. \A i \in DOMAIN ps : PanelRow(ps[i], i) = ps[i]
  <2> SUFFICES ASSUME NEW i \in DOMAIN ps PROVE PanelRow(ps[i], i) = ps[i]
    OBVIOUS
  <2>1. ps[i] \in DashboardPanelRequest
    OBVIOUS
  <2>2. QED
    BY <2>1, SettledRowsStay
<1>3. QED
  BY <1>1, <1>2

(* What clients send and what is stored are sequences of panels.           *)
LEMMA ContentsAreSequences == Contents \subseteq Seq(DashboardPanelRequest)
  BY SharedObjectsAssumption DEF Contents

-----------------------------------------------------------------------------
(***************************************************************************)
(* The invariant of SharedObjects.                                         *)
(***************************************************************************)
StoredContents == Seq(DashboardPanelRequest) \union Seq(ViewConfigs)
ObjectType == [state : {"none", "live", "deleted"}, tenant : Tenants \union {NoTenant},
               visibility : {"public", "private"}, content : StoredContents]
CallType   == [pc : {"idle", "update", "delete", "grant", "revoke", "deleting"},
               user : Users \union {NoUser}, tenant : Tenants \union {NoTenant},
               object : Objects \union {"none"}, target : Users \union {NoUser},
               relation : Relations \union {NoRelation}, others : 0..Cardinality(Users)]

(* What may be stored for an object.                                       *)
MayStore(o, content) ==
    /\ content \in StoredContents
    /\ kind[o] = "dashboard" =>
          /\ content \in Seq(DashboardPanelRequest)
          /\ \A i \in DOMAIN content : Settled(content[i])

(* What a handler has found when it begins, in one record with the caller. *)
WasChecked(k) ==
    /\ k.pc # "idle" /\ k.object \in Objects /\ object[k.object].state # "none"
    /\ Live(k.object) => object[k.object].tenant = k.tenant
    /\ k.pc \in {"grant", "revoke", "deleting"} => k.target \in Users
    /\ k.pc = "grant" => <<k.target, k.tenant>> \in joined
    /\ k.pc \in {"update", "delete"} =>
          \/ k.user \in Administrators \union {NoUser}
          \/ <<k.user, k.object, "owner">> \in shared
          \/ k.pc = "update" /\ <<k.user, k.object, "editor">> \in shared

(* A context is that of a member or of an API key.                         *)
LEMMA ContextTypes ==
    ASSUME SharedInv, NEW x \in Contexts
    PROVE  /\ x.tenant \in Tenants
           /\ x.user = NoUser \/ (x.user \in Users /\ <<x.user, x.tenant>> \in members)
<1>1. members \subseteq Users \X Tenants
  BY DEF SharedInv, SharedObjectsTypeOK
<1>2. CASE x \in [user : {NoUser}, tenant : Tenants]
  BY <1>2
<1>3. CASE \E m \in members : x = [user |-> m[1], tenant |-> m[2]]
  <2>1. PICK m \in members : x = [user |-> m[1], tenant |-> m[2]]
    BY <1>3
  <2>2. m \in Users \X Tenants /\ m = <<m[1], m[2]>>
    BY <1>1
  <2>3. QED
    BY <2>1, <2>2
<1>4. QED
  BY <1>2, <1>3 DEF Contexts

(* The parts of the invariant in the words of this module.                 *)
LEMMA SharedParts ==
    ASSUME SharedInv
    PROVE  /\ object \in [Objects -> ObjectType] /\ call \in [Calls -> CallType]
           /\ grants \in [Objects \X Users -> Relations \union {NoRelation}]
           /\ \A o \in Objects : Live(o) => MayStore(o, object[o].content)
           /\ \A c \in Calls : call[c] # NoCall => WasChecked(call[c])
           /\ members \subseteq joined /\ changes \in 0..MaxChanges
<1>1. object \in [Objects -> ObjectType] /\ call \in [Calls -> CallType]
  BY DEF SharedInv, SharedObjectsTypeOK, ObjectType, CallType, StoredContents
<1>2. \A o \in Objects : Live(o) => MayStore(o, object[o].content)
  BY <1>1 DEF SharedInv, PanelsAreStored, MayStore, ObjectType, Settled
<1>3. QED
  BY <1>1, <1>2 DEF SharedInv, SharedObjectsTypeOK, CallsWereChecked, WasChecked,
     RelationsWereShared

(* What a GET answers is decided by the relation in the table.             *)
LEMMA ListsAgree ==
    ASSUME SharedInv
    PROVE  ListedIsReadable
<1> SUFFICES ASSUME NEW x \in Contexts, NEW o \in Objects
             PROVE  (o \in list_dashboards(x) \union list_saved_views(x))
                    <=> (handle_get_dashboard(x, o) \/ handle_get_saved_view(x, o))
  BY DEF ListedIsReadable
<1>1. kind[o] \in {"dashboard", "saved_view"}
  BY DEF SharedInv, SharedObjectsTypeOK
<1>2. x.user # NoUser =>
        fetch_relation(x.user, o) \in Relations \union {NoRelation} /\ NoRelation \notin Relations
  BY ContextTypes, SharedParts DEF fetch_relation, NoRelation, Relations
<1>3. QED
  BY <1>1, <1>2 DEF list_dashboards, list_saved_views, handle_get_dashboard, handle_get_saved_view,
     Visible, Readable, grant_satisfies_read

(* The promises about shared objects follow from the invariant.            *)
LEMMA AgreeByInvariant ==
    ASSUME SharedInv
    PROVE  SharedObjectsAgree
<1>1. ASSUME NEW o \in Objects, Live(o), kind[o] = "dashboard", object[o].content # <<>>
      PROVE  /\ validate_create_request(export_dashboard(o))
             /\ PanelRows(export_dashboard(o)) = object[o].content
  <2>1. PICK ps : ps = object[o].content
    OBVIOUS
  <2>2. ps \in Seq(DashboardPanelRequest) /\ \A i \in DOMAIN ps : Settled(ps[i])
    BY <1>1, <2>1, SharedParts DEF MayStore
  <2>3. PanelRows(ps) = ps
    BY <2>2, PanelRowsStay
  <2>4. Len(ps) > 0
    BY <1>1, <2>1, <2>2
  <2>5. QED
    BY <2>1, <2>2, <2>3, <2>4 DEF export_dashboard, validate_create_request, Settled
<1>2. ASSUME NEW o \in Objects, Live(o), kind[o] = "dashboard",
             NEW i \in DOMAIN object[o].content
      PROVE  LET l == object[o].content[i].layout IN l.x + l.w <= 12 \/ l.x > MaxInt - 12
  <2>1. PICK p \in DashboardPanelRequest : p = object[o].content[i] /\ Settled(p)
    <3>1. /\ object[o].content \in Seq(DashboardPanelRequest) /\ Settled(object[o].content[i])
      BY <1>2, SharedParts DEF MayStore
    <3>2. object[o].content[i] \in DashboardPanelRequest
      BY <1>2, <3>1
    <3>3. QED
      BY <3>1, <3>2
  <2>2. /\ p.layout.x \in Int /\ p.layout.w \in Int /\ validate_layout(p.layout)
    BY <2>1 DEF Settled, ValidPanel, DashboardPanelRequest
  <2>3. PICK x, w \in Nat : /\ x = p.layout.x /\ w = p.layout.w
                            /\ w <= 12 /\ Add(x, w) <= 12
    BY <2>2 DEF validate_layout
  <2>4. x + w <= MaxInt => Add(x, w) = x + w
    BY <2>3, AddIsExact
  <2>5. QED
    BY <2>1, <2>3, <2>4, SharedObjectsAssumption
<1>3. ExportRoundTrip /\ PanelsFit
  BY <1>1, <1>2 DEF ExportRoundTrip, PanelsFit
<1>4. QED
  BY <1>3, ListsAgree DEF SharedInv, SharedObjectsAgree

(* One statement that creates an object, with the grant of its creator.    *)
LEMMA CreateStep ==
    ASSUME SharedInv, NEW x \in Contexts, NEW o \in Objects, NEW content, MayStore(o, content),
           Create(x, o, content)
    PROVE  SharedInv'
<1> USE SharedObjectsAssumption
<1>1. /\ x.tenant \in Tenants
      /\ x.user = NoUser \/ (x.user \in Users /\ <<x.user, x.tenant>> \in joined)
  BY ContextTypes, SharedParts
<1>2. /\ object[o] = NoObject
      /\ object' = [object EXCEPT ![o] = [state |-> "live", tenant |-> x.tenant,
                                         visibility |-> "public", content |-> content]]
      /\ UNCHANGED <<kind, members, call, joined>>
      /\ shared' = shared \union ({x.user} \ {NoUser}) \X {o} \X {"owner"}
      /\ changes' = changes + 1 /\ changes < MaxChanges
  BY DEF Create
<1>3. grants' = [g \in Objects \X Users |-> IF g = <<o, x.user>> THEN "owner" ELSE grants[g]]
  BY SharedParts DEF Create
<1>4. /\ object'[o].state = "live" /\ object'[o].tenant = x.tenant
      /\ object'[o].content = content /\ object'[o] \in ObjectType
      /\ \A q \in Objects \ {o} : object'[q] = object[q]
      /\ object' \in [Objects -> ObjectType]
  BY <1>1, <1>2, SharedParts DEF ObjectType, MayStore
<1>5. SharedObjectsTypeOK'
  <2>1. grants' \in [Objects \X Users -> Relations \union {NoRelation}]
    BY <1>3, SharedParts DEF Relations
  <2>2. changes' \in 0..MaxChanges
    BY <1>2, SharedParts
  <2>3. QED
    BY <1>2, <1>4, <2>1, <2>2 DEF SharedInv, SharedObjectsTypeOK, ObjectType, StoredContents
<1>6. GrantsHaveObjects'
  <2> SUFFICES ASSUME NEW g \in Objects \X Users, grants'[g] # NoRelation
               PROVE  object'[g[1]].state = "live" /\ <<g[2], object'[g[1]].tenant>> \in joined
    BY <1>2 DEF GrantsHaveObjects, Live
  <2>1. CASE g = <<o, x.user>>
    BY <1>1, <1>4, <2>1, TenancyAssumption
  <2>2. CASE g # <<o, x.user>>
    <3>1. object[g[1]].state = "live" /\ <<g[2], object[g[1]].tenant>> \in joined
      BY <1>3, <2>2 DEF SharedInv, GrantsHaveObjects, Live
    <3>2. g[1] # o /\ g[1] \in Objects
      BY <1>2, <3>1 DEF NoObject
    <3>3. QED
      BY <1>4, <3>1, <3>2
  <2>3. QED
    BY <2>1, <2>2
<1>7. PanelsAreStored'
  <2> SUFFICES ASSUME NEW q \in Objects, object'[q].state = "live", kind[q] = "dashboard"
      PROVE  /\ object'[q].content \in Seq(DashboardPanelRequest)
             /\ \A i \in DOMAIN object'[q].content : Settled(object'[q].content[i])
    BY <1>2 DEF PanelsAreStored, Live, Settled
  <2>1. CASE q = o
    BY <1>4, <2>1 DEF MayStore
  <2>2. CASE q # o
    <3>1. MayStore(q, object[q].content)
      BY <1>4, <2>2, SharedParts DEF Live
    <3>2. QED
      BY <1>4, <2>2, <3>1 DEF MayStore
  <2>3. QED
    BY <2>1, <2>2
<1>8. RelationsWereShared'
  <2> SUFFICES ASSUME NEW g \in Objects \X Users, grants'[g] # NoRelation
               PROVE  <<g[2], g[1], grants'[g]>> \in shared'
    BY <1>2, SharedParts DEF RelationsWereShared
  <2>1. CASE g = <<o, x.user>>
    <3>1. x.user # NoUser
      BY <2>1, TenancyAssumption
    <3>2. g[1] = o /\ g[2] = x.user /\ grants'[g] = "owner"
      BY <1>3, <2>1
    <3>3. QED
      BY <1>2, <3>1, <3>2
  <2>2. CASE g # <<o, x.user>>
    BY <1>2, <1>3, <2>2 DEF SharedInv, RelationsWereShared
  <2>3. QED
    BY <2>1, <2>2
<1>9. CallsWereChecked'
  <2> SUFFICES ASSUME NEW c \in Calls, call[c] # NoCall PROVE WasChecked(call[c])'
    BY <1>2 DEF CallsWereChecked, WasChecked
  <2>1. WasChecked(call[c])
    BY SharedParts
  <2>2. call[c].object # o
    BY <1>2, <2>1 DEF WasChecked, NoObject
  <2>3. QED
    BY <1>2, <1>4, <2>1, <2>2 DEF WasChecked, Live
<1>10. QED
  BY <1>5, <1>6, <1>7, <1>8, <1>9 DEF SharedInv

(* Only the state of one request changes.                                  *)
LEMMA CallMoves ==
    ASSUME SharedInv, NEW c \in Calls, NEW k \in CallType, k = NoCall \/ WasChecked(k),
           UNCHANGED <<kind, object, grants, members, shared, joined>>,
           changes' \in 0..MaxChanges, call' = [call EXCEPT ![c] = k]
    PROVE  SharedInv'
<1>1. /\ call' \in [Calls -> CallType]
      /\ \A d \in Calls : call'[d] = IF d = c THEN k ELSE call[d]
  BY SharedParts
<1>2. SharedObjectsTypeOK'
  BY <1>1 DEF SharedInv, SharedObjectsTypeOK, CallType
<1>3. \A d \in Calls : call'[d] # NoCall => WasChecked(call'[d])
  BY <1>1, SharedParts
<1>4. CallsWereChecked'
  BY <1>3 DEF CallsWereChecked, WasChecked, Live
<1>5. GrantsHaveObjects' /\ PanelsAreStored' /\ RelationsWereShared'
  BY DEF SharedInv, GrantsHaveObjects, PanelsAreStored, RelationsWereShared, Live
<1>6. QED
  BY <1>2, <1>4, <1>5 DEF SharedInv

(* The calls after one has ended.                                          *)
LEMMA EndedCall ==
    ASSUME SharedInv, NEW c \in Calls, End(c)
    PROVE  /\ call' \in [Calls -> CallType] /\ call'[c] = NoCall
           /\ \A d \in Calls : call'[d] # NoCall => call'[d] = call[d] /\ WasChecked(call[d])
<1>1. NoCall \in CallType
  BY TenancyAssumption, FS_CardinalityType DEF NoCall, CallType
<1>2. QED
  BY <1>1, SharedParts DEF End

(* A handler begins: it has found the object and a relation that allows    *)
(* what it is about to do, or a member to share with.                      *)
LEMMA BeginStep ==
    ASSUME SharedInv, NEW c \in Calls, NEW x \in Contexts, NEW o \in Objects,
           \/ Edit(c, x, o) \/ Discard(c, x, o)
           \/ \E u \in Users : Share(c, x, o, u) \/ Unshare(c, x, o, u)
    PROVE  SharedInv'
<1>1. PICK pc, u, relation :
         /\ Begin(c, x, o, Step(pc, u, relation))
         /\ pc \in {"update", "delete", "grant", "revoke"}
         /\ u \in Users \union {NoUser} /\ relation \in Relations \union {NoRelation}
         /\ pc \in {"grant", "revoke"} => u \in Users
         /\ pc = "grant" => <<u, x.tenant>> \in members
         /\ pc = "update" => (x.user # NoUser =>
                                grant_satisfies_write(x.user, fetch_relation(x.user, o)))
         /\ pc = "delete" => (x.user # NoUser =>
                                grant_satisfies_delete(x.user, fetch_relation(x.user, o)))
  <2>1. \A u \in Users : fetch_relation(u, o) \in Relations \union {NoRelation}
    BY SharedParts DEF fetch_relation
  <2>2. QED
    BY <2>1 DEF Edit, Discard, Share, Unshare
<1> DEFINE k == [Step(pc, u, relation) EXCEPT !.user = x.user, !.tenant = x.tenant, !.object = o]
<1>2. /\ x.tenant \in Tenants
      /\ x.user = NoUser \/ x.user \in Users
  BY ContextTypes
<1>3. /\ k.pc = pc /\ k.user = x.user /\ k.tenant = x.tenant /\ k.object = o
      /\ k.target = u /\ k.relation = relation /\ k.others = 0
      /\ k \in [pc : {pc}, user : {x.user}, tenant : {x.tenant}, object : {o}, target : {u},
                relation : {relation}, others : {0}]
  BY DEF Step, NoCall
<1>4. 0 \in 0..Cardinality(Users)
  BY TenancyAssumption, FS_CardinalityType
<1>5. k \in CallType
  BY <1>1, <1>2, <1>3, <1>4 DEF CallType
<1>6. Exists(o, x.tenant) /\ changes' = changes + 1 /\ changes < MaxChanges
      /\ call' = [call EXCEPT ![c] = k]
      /\ UNCHANGED <<kind, object, grants, members, shared, joined>>
  BY <1>1 DEF Begin
<1>7. ASSUME x.user # NoUser, x.user \notin Administrators
      PROVE  fetch_relation(x.user, o) \in Relations =>
                <<x.user, o, fetch_relation(x.user, o)>> \in shared
  <2>1. PICK v \in Users : v = x.user
    BY <1>2, <1>7
  <2>2. PICK g \in Objects \X Users : g = <<o, v>>
    OBVIOUS
  <2>3. g[1] = o /\ g[2] = v
    BY <2>2
  <2>4. grants[g] # NoRelation => <<v, o, grants[g]>> \in shared
    BY <2>3 DEF SharedInv, RelationsWereShared
  <2>5. QED
    BY <2>1, <2>2, <2>4 DEF fetch_relation, Relations, NoRelation
<1>8. k.pc \in {"update", "delete"} =>
         \/ k.user \in Administrators \union {NoUser}
         \/ <<k.user, k.object, "owner">> \in shared
         \/ k.pc = "update" /\ <<k.user, k.object, "editor">> \in shared
  BY <1>1, <1>3, <1>7 DEF grant_satisfies_write, grant_satisfies_delete, IsAdmin, Relations
<1>9. /\ k.pc # "idle" /\ k.object \in Objects /\ object[k.object].state # "none"
      /\ Live(k.object) => object[k.object].tenant = k.tenant
      /\ k.pc \in {"grant", "revoke", "deleting"} => k.target \in Users
      /\ k.pc = "grant" => <<k.target, k.tenant>> \in joined
  BY <1>1, <1>3, <1>6, SharedParts DEF Exists
<1>10. WasChecked(k)
  BY <1>8, <1>9 DEF WasChecked
<1>11. changes' \in 0..MaxChanges
  BY <1>6, SharedParts, SharedObjectsAssumption
<1> HIDE DEF k
<1>12. QED
  BY <1>5, <1>6, <1>10, <1>11, CallMoves

(* A request ends without having written, or the revocation takes its      *)
(* snapshot.                                                               *)
LEMMA CallEndsStep ==
    ASSUME SharedInv, NEW c \in Calls, CallEnds(c) \/ RevokeSnapshot(c)
    PROVE  SharedInv'
<1>1. changes' \in 0..MaxChanges /\ UNCHANGED <<kind, object, grants, members, shared, joined>>
  BY SharedParts DEF CallEnds, RevokeSnapshot
<1>2. CASE CallEnds(c)
  <2>1. NoCall \in CallType
    BY TenancyAssumption, FS_CardinalityType DEF NoCall, CallType
  <2>2. QED
    BY <1>1, <1>2, <2>1, CallMoves DEF CallEnds, End
<1>3. CASE RevokeSnapshot(c)
  <2>1. PICK n : n = Cardinality(Owners(call[c].object) \ {call[c].target})
    OBVIOUS
  <2>2. n \in 0..Cardinality(Users)
    <3>1. Owners(call[c].object) \ {call[c].target} \subseteq Users
      BY DEF Owners
    <3>2. QED
      BY <2>1, <3>1, TenancyAssumption, FS_Subset, FS_CardinalityType
  <2>3. /\ call[c].pc = "revoke"
        /\ call' = [call EXCEPT ![c] = [call[c] EXCEPT !.pc = "deleting", !.others = n]]
    BY <1>3, <2>1 DEF RevokeSnapshot
  <2>4. PICK k : k = [call[c] EXCEPT !.pc = "deleting", !.others = n]
    OBVIOUS
  <2>5. call[c] \in CallType /\ WasChecked(call[c])
    BY <2>3, SharedParts DEF NoCall
  <2>6. /\ k \in CallType /\ k.pc = "deleting" /\ k.user = call[c].user /\ k.tenant = call[c].tenant
        /\ k.object = call[c].object /\ k.target = call[c].target
    BY <2>2, <2>4, <2>5 DEF CallType
  <2>7. WasChecked(k)
    BY <2>3, <2>5, <2>6 DEF WasChecked
  <2>8. QED
    BY <1>1, <2>3, <2>4, <2>6, <2>7, CallMoves
<1>4. QED
  BY <1>2, <1>3

(* A statement that ends a request and leaves every object where it is,    *)
(* live in its tenant or not live at all.                                  *)
LEMMA CallsStayChecked ==
    ASSUME SharedInv, NEW c \in Calls, End(c), joined' = joined, shared \subseteq shared',
           \A o \in Objects : /\ object[o].state # "none" => object'[o].state # "none"
                              /\ Live(o)' => Live(o) /\ object'[o].tenant = object[o].tenant
    PROVE  CallsWereChecked'
<1> SUFFICES ASSUME NEW d \in Calls, NEW k, k = call'[d], k # NoCall
             PROVE  WasChecked(k)'
  BY DEF CallsWereChecked, WasChecked
<1>1. k = call[d] /\ WasChecked(call[d])
  BY EndedCall
<1>2. WasChecked(k) /\ k.object \in Objects
  BY <1>1 DEF WasChecked
<1>3. /\ object'[k.object].state # "none"
      /\ object'[k.object].state = "live" => object'[k.object].tenant = k.tenant
  BY <1>2 DEF WasChecked, Live
<1>4. QED
  BY <1>2, <1>3 DEF WasChecked, Live

(* The statement of an update.                                             *)
LEMMA UpdateStep ==
    ASSUME SharedInv, NEW c \in Calls, call[c] # NoCall, NEW content,
           MayStore(call[c].object, content), NEW visibility, ValidVisibility(visibility),
           Update(c, content, visibility)
    PROVE  SharedInv'
<1>1. PICK o \in Objects : o = call[c].object
  BY SharedParts DEF WasChecked
<1>2. /\ Live(o) /\ End(c) /\ UNCHANGED <<kind, grants, members, changes, shared, joined>>
      /\ object' = [object EXCEPT ![o] =
                       [@ EXCEPT !.content = content,
                                 !.visibility = IF visibility = "unset"
                                                THEN object[o].visibility ELSE visibility]]
  BY <1>1 DEF Update, Exists, Live
<1>3. /\ object'[o] \in ObjectType /\ object'[o].content = content
      /\ object'[o].state = "live" /\ object'[o].tenant = object[o].tenant
      /\ \A q \in Objects \ {o} : object'[q] = object[q]
  <2>1. object[o] \in ObjectType /\ object \in [Objects -> ObjectType]
    BY SharedParts
  <2>2. PICK v \in {"public", "private"} :
           v = IF visibility = "unset" THEN object[o].visibility ELSE visibility
    BY <2>1 DEF ValidVisibility, ObjectType
  <2>3. content \in StoredContents
    BY DEF MayStore
  <2>4. object'[o] = [object[o] EXCEPT !.content = content, !.visibility = v]
    BY <1>2, <2>1, <2>2
  <2>5. QED
    BY <1>2, <2>1, <2>3, <2>4 DEF ObjectType, Live
<1>4. object' \in [Objects -> ObjectType]
  BY <1>2, <1>3, SharedParts
<1>5. SharedObjectsTypeOK'
  BY <1>2, <1>4, EndedCall DEF SharedInv, SharedObjectsTypeOK, ObjectType, StoredContents, CallType
<1>6. GrantsHaveObjects' /\ RelationsWereShared'
  BY <1>2, <1>3 DEF SharedInv, GrantsHaveObjects, RelationsWereShared, Live
<1>7. PanelsAreStored'
  <2>1. \A q \in Objects : object'[q].state = "live" => MayStore(q, object'[q].content)
    BY <1>1, <1>2, <1>3, SharedParts DEF Live
  <2>2. QED
    BY <1>2, <2>1 DEF PanelsAreStored, MayStore, Settled, Live
<1>8. CallsWereChecked'
  BY <1>2, <1>3, CallsStayChecked DEF Live
<1>9. QED
  BY <1>5, <1>6, <1>7, <1>8 DEF SharedInv

(* The statement of a delete, with its cascade.                            *)
LEMMA DeleteStep ==
    ASSUME SharedInv, NEW c \in Calls, call[c] # NoCall, Delete(c)
    PROVE  SharedInv'
<1>1. PICK o \in Objects : o = call[c].object
  BY SharedParts DEF WasChecked
<1>2. /\ End(c) /\ UNCHANGED <<kind, members, changes, shared, joined>>
      /\ object' = [object EXCEPT ![o] = [NoObject EXCEPT !.state = "deleted"]]
      /\ grants' = [g \in Objects \X Users |-> IF g[1] = o THEN NoRelation ELSE grants[g]]
  BY <1>1, SharedParts DEF Delete
<1>3. /\ object'[o] \in ObjectType /\ object'[o].state = "deleted"
      /\ \A q \in Objects \ {o} : object'[q] = object[q]
  <2>1. <<>> \in StoredContents
    BY DEF StoredContents
  <2>2. [NoObject EXCEPT !.state = "deleted"] \in ObjectType
    BY <2>1 DEF NoObject, ObjectType
  <2>3. QED
    BY <1>2, <2>2, SharedParts DEF NoObject
<1>4. object' \in [Objects -> ObjectType]
  BY <1>2, <1>3, SharedParts
<1>5. SharedObjectsTypeOK'
  BY <1>2, <1>4, EndedCall, SharedParts
  DEF SharedInv, SharedObjectsTypeOK, ObjectType, StoredContents, CallType
<1>6. \A g \in Objects \X Users : grants'[g] # NoRelation => grants'[g] = grants[g] /\ g[1] # o
  BY <1>2
<1>7. GrantsHaveObjects' /\ RelationsWereShared'
  BY <1>2, <1>3, <1>6 DEF SharedInv, GrantsHaveObjects, RelationsWereShared, Live
<1>8. PanelsAreStored'
  BY <1>2, <1>3 DEF SharedInv, PanelsAreStored, Live
<1>9. CallsWereChecked'
  BY <1>2, <1>3, CallsStayChecked DEF Live
<1>10. QED
  BY <1>5, <1>7, <1>8, <1>9 DEF SharedInv

(* A grant is written or deleted.                                          *)
LEMMA GrantStep ==
    ASSUME SharedInv, NEW c \in Calls, DeleteGrant(c) \/ \E rel \in Relations : InsertGrant(c, rel)
    PROVE  SharedInv'
<1>1. PICK o \in Objects, u \in Users :
         /\ o = call[c].object /\ u = call[c].target /\ WasChecked(call[c])
         /\ call[c].pc \in {"grant", "deleting"}
  <2>1. call[c] # NoCall /\ call[c].pc \in {"grant", "deleting"}
    BY DEF DeleteGrant, InsertGrant, NoCall
  <2>2. QED
    BY <2>1, SharedParts DEF WasChecked
<1>2. PICK relation \in Relations \union {NoRelation} :
         /\ grants' = [grants EXCEPT ![<<o, u>>] = relation]
         /\ End(c) /\ UNCHANGED <<kind, object, members, changes, joined>>
         /\ shared \subseteq shared'
         /\ relation # NoRelation =>
               /\ <<u, o, relation>> \in shared'
               /\ Live(o) /\ <<u, object[o].tenant>> \in joined
  <2>1. CASE DeleteGrant(c)
    BY <1>1, <2>1 DEF DeleteGrant
  <2>2. ASSUME NEW relation \in Relations, InsertGrant(c, relation)
        PROVE  /\ grants' = [grants EXCEPT ![<<o, u>>] = relation]
               /\ End(c) /\ UNCHANGED <<kind, object, members, changes, joined>>
               /\ shared \subseteq shared'
               /\ <<u, o, relation>> \in shared'
               /\ Live(o) /\ <<u, object[o].tenant>> \in joined
    <3>1. call[c].pc = "grant" /\ Live(o)
      BY <1>1, <2>2 DEF InsertGrant, Live
    <3>2. <<u, object[o].tenant>> \in joined
      BY <1>1, <3>1 DEF WasChecked
    <3>3. QED
      BY <1>1, <2>2, <3>1, <3>2 DEF InsertGrant
  <2>3. QED
    BY <2>1, <2>2
<1>3. \A g \in Objects \X Users :
         grants'[g] = IF g = <<o, u>> THEN relation ELSE grants[g]
  BY <1>2, SharedParts
<1>4. SharedObjectsTypeOK'
  <2>1. grants' \in [Objects \X Users -> Relations \union {NoRelation}]
    BY <1>2, SharedParts
  <2>2. QED
    BY <1>2, <2>1, EndedCall DEF SharedInv, SharedObjectsTypeOK, CallType
<1>5. ASSUME NEW g \in Objects \X Users, grants'[g] # NoRelation
      PROVE  /\ object[g[1]].state = "live" /\ <<g[2], object[g[1]].tenant>> \in joined
             /\ <<g[2], g[1], grants'[g]>> \in shared'
  <2>1. CASE g = <<o, u>>
    <3>1. g[1] = o /\ g[2] = u /\ grants'[g] = relation
      BY <1>3, <2>1
    <3>2. QED
      BY <1>2, <1>5, <3>1 DEF Live
  <2>2. CASE g # <<o, u>>
    BY <1>2, <1>3, <1>5, <2>2 DEF SharedInv, GrantsHaveObjects, RelationsWereShared, Live
  <2>3. QED
    BY <2>1, <2>2
<1>6. GrantsHaveObjects' /\ RelationsWereShared'
  BY <1>2, <1>5 DEF SharedInv, GrantsHaveObjects, RelationsWereShared, Live
<1>7. PanelsAreStored'
  BY <1>2 DEF SharedInv, PanelsAreStored, Live
<1>8. CallsWereChecked'
  BY <1>2, CallsStayChecked DEF Live
<1>9. QED
  BY <1>4, <1>6, <1>7, <1>8 DEF SharedInv

(* Every step is one of these.                                             *)
SharedStep ==
    \/ \E x \in Contexts, o \in Objects, ps \in Contents : create_dashboard(x, o, ps)
    \/ \E x \in Contexts, o \in Objects, q \in Objects : import_dashboard(x, o, q)
    \/ \E x \in Contexts, o \in Objects, cfg \in ViewConfigs : create_saved_view(x, o, cfg)
    \/ \E x \in Contexts, o \in Objects, c \in Calls :
         \/ Edit(c, x, o) \/ Discard(c, x, o)
         \/ \E u \in Users : Share(c, x, o, u) \/ Unshare(c, x, o, u)
    \/ \E c \in Calls : CallEnds(c) \/ RevokeSnapshot(c)
    \/ \E c \in Calls, ps \in Contents : \E v : update_dashboard(c, ps, v)
    \/ \E c \in Calls, cfg \in ViewConfigs : \E v : update_saved_view(c, cfg, v)
    \/ \E c \in Calls : call[c] # NoCall /\ Delete(c)
    \/ \E c \in Calls : DeleteGrant(c) \/ \E rel \in Relations : InsertGrant(c, rel)
    \/ \E m \in members : MemberLeaves(m)

(* The actions by the statement that they run: edit, discard, share, unshare. *)
LEMMA SharedSteps ==
    ASSUME ShNext
    PROVE  SharedStep
  BY DEF ShNext, SharedStep, handle_update_dashboard, handle_update_saved_view,
     handle_delete_dashboard, handle_delete_saved_view, handle_add_grant,
     handle_add_saved_view_grant, handle_revoke_grant, handle_revoke_saved_view_grant,
     delete_dashboard, delete_saved_view

(* The content of an update is one that may be stored.                     *)
LEMMA UpdatesAreValid ==
    ASSUME SharedInv, NEW c \in Calls, NEW v,
           \/ \E ps \in Contents : update_dashboard(c, ps, v)
           \/ \E cfg \in ViewConfigs : update_saved_view(c, cfg, v)
    PROVE  \E content : /\ Update(c, content, v) /\ MayStore(call[c].object, content)
                        /\ call[c] # NoCall /\ ValidVisibility(v)
<1>1. ASSUME NEW ps \in Contents, update_dashboard(c, ps, v)
      PROVE  MayStore(call[c].object, PanelRows(ps)) /\ Update(c, PanelRows(ps), v)
  <2>1. ps \in Seq(DashboardPanelRequest) /\ \A i \in DOMAIN ps : ValidPanel(ps[i])
    BY <1>1, ContentsAreSequences DEF update_dashboard, validate_update_request
  <2>2. QED
    BY <1>1, <2>1, PanelRowsSettle DEF MayStore, StoredContents, update_dashboard
<1>2. ASSUME NEW cfg \in ViewConfigs, update_saved_view(c, cfg, v)
      PROVE  MayStore(call[c].object, <<cfg>>) /\ Update(c, <<cfg>>, v)
  BY <1>2 DEF MayStore, StoredContents, update_saved_view
<1>3. call[c] # NoCall /\ ValidVisibility(v)
  BY DEF update_dashboard, update_saved_view, validate_update_request
<1>4. QED
  BY <1>1, <1>2, <1>3

(* So is that of a new object.                                             *)
LEMMA NewObjectsAreValid ==
    ASSUME SharedInv, NEW x \in Contexts, NEW o \in Objects,
           \/ \E ps \in Contents : create_dashboard(x, o, ps)
           \/ \E q \in Objects : import_dashboard(x, o, q)
           \/ \E cfg \in ViewConfigs : create_saved_view(x, o, cfg)
    PROVE  \E content : Create(x, o, content) /\ MayStore(o, content)
<1>1. ASSUME NEW ps \in Seq(DashboardPanelRequest), create_dashboard(x, o, ps)
      PROVE  MayStore(o, PanelRows(ps)) /\ Create(x, o, PanelRows(ps))
  <2>1. \A i \in DOMAIN ps : ValidPanel(ps[i])
    BY <1>1 DEF create_dashboard, validate_create_request
  <2>2. QED
    BY <1>1, <2>1, PanelRowsSettle DEF MayStore, StoredContents, create_dashboard
<1>2. ASSUME NEW ps \in Contents, create_dashboard(x, o, ps)
      PROVE  MayStore(o, PanelRows(ps)) /\ Create(x, o, PanelRows(ps))
  BY <1>1, <1>2, ContentsAreSequences
<1>3. ASSUME NEW q \in Objects, import_dashboard(x, o, q)
      PROVE  /\ MayStore(o, PanelRows(object[q].content))
             /\ Create(x, o, PanelRows(object[q].content))
  <2>1. object[q].content \in Seq(DashboardPanelRequest)
    BY <1>3, SharedParts DEF import_dashboard, Exists, Live, MayStore
  <2>2. create_dashboard(x, o, object[q].content)
    BY <1>3 DEF import_dashboard, export_dashboard
  <2>3. QED
    BY <1>1, <2>1, <2>2
<1>4. ASSUME NEW cfg \in ViewConfigs, create_saved_view(x, o, cfg)
      PROVE  MayStore(o, <<cfg>>) /\ Create(x, o, <<cfg>>)
  BY <1>4 DEF MayStore, StoredContents, create_saved_view
<1>5. QED
  BY <1>2, <1>3, <1>4

(* Every step keeps the invariant of shared objects.                       *)
LEMMA SharedInductive ==
    ASSUME SharedInv, [ShNext]_shVars
    PROVE  SharedInv'
<1>1. CASE UNCHANGED shVars
  BY <1>1 DEF shVars, SharedInv, SharedObjectsTypeOK, GrantsHaveObjects, PanelsAreStored,
     RelationsWereShared, CallsWereChecked, Live
<1>2. ASSUME NEW m \in members, MemberLeaves(m) PROVE SharedInv'
  <2>1. members' \subseteq members /\ UNCHANGED <<kind, object, grants, call, changes, shared, joined>>
    BY <1>2 DEF MemberLeaves
  <2>2. QED
    BY <2>1 DEF SharedInv, SharedObjectsTypeOK, GrantsHaveObjects, PanelsAreStored,
       RelationsWereShared, CallsWereChecked, Live
<1>3. ASSUME NEW x \in Contexts, NEW o \in Objects,
             \/ \E ps \in Contents : create_dashboard(x, o, ps)
             \/ \E q \in Objects : import_dashboard(x, o, q)
             \/ \E cfg \in ViewConfigs : create_saved_view(x, o, cfg)
      PROVE  SharedInv'
  <2>1. PICK content : Create(x, o, content) /\ MayStore(o, content)
    BY <1>3, NewObjectsAreValid
  <2>2. QED
    BY <2>1, CreateStep
<1>4. ASSUME NEW c \in Calls, NEW v,
             \/ \E ps \in Contents : update_dashboard(c, ps, v)
             \/ \E cfg \in ViewConfigs : update_saved_view(c, cfg, v)
      PROVE  SharedInv'
  <2>1. PICK content : /\ Update(c, content, v) /\ MayStore(call[c].object, content)
                       /\ call[c] # NoCall /\ ValidVisibility(v)
    BY <1>4, UpdatesAreValid
  <2>2. QED
    BY <2>1, UpdateStep
<1>5. CASE ShNext
  BY <1>2, <1>3, <1>4, <1>5, SharedSteps, BeginStep, CallEndsStep, DeleteStep, GrantStep
  DEF SharedStep
<1>6. QED
  BY <1>1, <1>5

(* It holds before the first object is made.                               *)
LEMMA SharedStart ==
    ASSUME ShInit
    PROVE  SharedInv
<1> USE SharedObjectsAssumption
<1>1. object \in [Objects -> ObjectType]
  <2>1. <<>> \in StoredContents
    BY DEF StoredContents
  <2>2. NoObject \in ObjectType
    BY <2>1 DEF NoObject, ObjectType
  <2>3. QED
    BY <2>2 DEF ShInit
<1>2. call \in [Calls -> CallType]
  <2>1. NoCall \in CallType
    BY TenancyAssumption, FS_CardinalityType DEF NoCall, CallType
  <2>2. QED
    BY <2>1 DEF ShInit
<1>3. \A o \in Objects : ~Live(o)
  BY DEF ShInit, Live, NoObject
<1>4. SharedObjectsTypeOK
  BY <1>1, <1>2 DEF ShInit, SharedObjectsTypeOK, ObjectType, CallType, StoredContents
<1>5. QED
  BY <1>3, <1>4 DEF ShInit, SharedInv, GrantsHaveObjects, PanelsAreStored, RelationsWereShared,
     CallsWereChecked

(* In every interleaving of the handlers of dashboards and saved views,    *)
(* and whoever leaves meanwhile: checks hold for ever as far as they can,  *)
(* and what is stored is settled.                                          *)
THEOREM SharedInvariant == ShSpec => []SharedInv
<1>1. ShInit => SharedInv
  BY SharedStart
<1>2. SharedInv /\ [ShNext]_shVars => SharedInv'
  BY SharedInductive
<1>3. QED
  BY <1>1, <1>2, PTL DEF ShSpec

(* Shared objects are consistent, whichever request wins: no grant without *)
(* its object, no list that a GET contradicts, no stored panel that an     *)
(* import would refuse or change, or that does not fit.                    *)
THEOREM SharedObjectsConsistent == ShSpec => []SharedObjectsAgree
<1>1. SharedInv => SharedObjectsAgree
  BY AgreeByInvariant
<1>2. QED
  BY <1>1, SharedInvariant, PTL

(* A handler that begins, or ends early, writes nothing.                   *)
LEMMA BeginsWriteNothing ==
    ASSUME NEW c, NEW x, NEW o,
           \/ Edit(c, x, o) \/ Discard(c, x, o)
           \/ \E u \in Users : Share(c, x, o, u) \/ Unshare(c, x, o, u)
    PROVE  UNCHANGED <<object, grants>>
<1>1. ASSUME NEW step, Begin(c, x, o, step)
      PROVE  UNCHANGED <<object, grants>>
  BY <1>1 DEF Begin
<1>2. QED
  BY <1>1 DEF Edit, Discard, Share, Unshare

(* What is not one of the statements leaves objects and grants alone.      *)
LEMMA OthersWriteNothing ==
    ASSUME \/ \E c \in Calls : CallEnds(c) \/ RevokeSnapshot(c)
           \/ \E m \in members : MemberLeaves(m)
           \/ UNCHANGED shVars
    PROVE  UNCHANGED <<object, grants>>
  BY DEF CallEnds, RevokeSnapshot, MemberLeaves, shVars

(* Who stands behind a change of an object.                                *)
Authorized(o) ==
    \E c \in Calls :
       LET u == call[c].user
       IN /\ call[c].object = o /\ call[c].tenant = object[o].tenant
          /\ \/ u \in Administrators \union {NoUser}
             \/ <<u, o, "owner">> \in shared
             \/ call[c].pc = "update" /\ <<u, o, "editor">> \in shared

(* Somebody stands behind every change or deletion of an object.           *)
LEMMA ChangesAuthorized ==
    ASSUME SharedInv, [ShNext]_shVars, NEW o \in Objects, Live(o), object'[o] # object[o]
    PROVE  Authorized(o)
<1>1. ASSUME NEW c \in Calls, NEW content, NEW v, call[c] # NoCall,
             Update(c, content, v) \/ Delete(c)
      PROVE  Authorized(o)
  <2>1. WasChecked(call[c]) /\ call[c].pc \in {"update", "delete"}
    BY <1>1, SharedParts DEF Update, Delete
  <2>2. \A q \in Objects : q # call[c].object => object'[q] = object[q]
    BY <1>1, SharedParts DEF Update, Delete
  <2>3. call[c].object = o
    BY <2>2
  <2>4. QED
    BY <2>1, <2>3 DEF WasChecked, Authorized
<1>2. ASSUME NEW x \in Contexts, NEW q \in Objects, NEW content, Create(x, q, content)
      PROVE  FALSE
  <2>1. q # o
    BY <1>2 DEF Create, NoObject, Live
  <2>2. QED
    BY <1>2, <2>1, SharedParts DEF Create
<1>3. ASSUME NEW x \in Contexts, NEW q \in Objects,
             \/ \E ps \in Contents : create_dashboard(x, q, ps)
             \/ \E r \in Objects : import_dashboard(x, q, r)
             \/ \E cfg \in ViewConfigs : create_saved_view(x, q, cfg)
      PROVE  FALSE
  BY <1>2, <1>3, NewObjectsAreValid
<1>4. ASSUME NEW c \in Calls, NEW v,
             \/ \E ps \in Contents : update_dashboard(c, ps, v)
             \/ \E cfg \in ViewConfigs : update_saved_view(c, cfg, v)
      PROVE  Authorized(o)
  BY <1>1, <1>4, UpdatesAreValid
<1>5. ASSUME NEW c \in Calls, DeleteGrant(c) \/ \E rel \in Relations : InsertGrant(c, rel)
      PROVE  FALSE
  BY <1>5 DEF DeleteGrant, InsertGrant
<1>6. QED
  BY <1>1, <1>3, <1>4, <1>5, SharedSteps, BeginsWriteNothing, OthersWriteNothing DEF SharedStep

(* An object changes only for its tenant, and on behalf of somebody who    *)
(* was given a relation that allows it, however late the statement comes.  *)
THEOREM ChangesAreAuthorized == ShSpec => ChangesWereAuthorized
<1>1. SharedInv /\ [ShNext]_shVars =>
        [\A o \in Objects : Live(o) /\ object'[o] # object[o] =>
         \E c \in Calls :
            LET u == call[c].user
            IN /\ call[c].object = o /\ call[c].tenant = object[o].tenant
               /\ \/ u \in Administrators \union {NoUser}
                  \/ <<u, o, "owner">> \in shared
                  \/ call[c].pc = "update" /\ <<u, o, "editor">> \in shared]_shVars
  BY ChangesAuthorized DEF Authorized
<1>2. QED
  BY <1>1, SharedInvariant, PTL DEF ShSpec, ChangesWereAuthorized

(* A revocation that deletes on what still holds leaves an owner.          *)
LEMMA RevokeLeavesOwner ==
    ASSUME SharedInv, [ShNext]_shVars, NEW c \in Calls,
           call[c].pc = "deleting", call'[c] = NoCall,
           call[c].relation = fetch_relation(call[c].target, call[c].object),
           call[c].others = Cardinality(Owners(call[c].object) \ {call[c].target}),
           Owners(call[c].object) # {}
    PROVE  \E v \in Users : grants'[<<call[c].object, v>>] = "owner"
<1>1. PICK o \in Objects, u \in Users : o = call[c].object /\ u = call[c].target
  <2>1. WasChecked(call[c])
    BY SharedParts DEF NoCall
  <2>2. QED
    BY <2>1 DEF WasChecked
<1>2. call[c] # NoCall /\ call'[c] # call[c]
  BY DEF NoCall
<1>3. DeleteGrant(c) \/ grants' = grants
  <2>1. ASSUME NEW d \in Calls, d # c, DeleteGrant(d) \/ (\E rel \in Relations : InsertGrant(d, rel))
                                     \/ Delete(d)
        PROVE  FALSE
    BY <1>2, <2>1, SharedParts DEF DeleteGrant, InsertGrant, Delete, End
  <2>2. ~Delete(c) /\ \A rel \in Relations : ~InsertGrant(c, rel)
    BY DEF Delete, InsertGrant
  <2>3. ASSUME NEW x \in Contexts, NEW q \in Objects,
               \/ \E ps \in Contents : create_dashboard(x, q, ps)
               \/ \E r \in Objects : import_dashboard(x, q, r)
               \/ \E cfg \in ViewConfigs : create_saved_view(x, q, cfg)
        PROVE  FALSE
    BY <1>2, <2>3, NewObjectsAreValid DEF Create
  <2>4. ASSUME \/ \E d \in Calls, ps \in Contents : \E v : update_dashboard(d, ps, v)
               \/ \E d \in Calls, cfg \in ViewConfigs : \E v : update_saved_view(d, cfg, v)
        PROVE  grants' = grants
    BY <2>4 DEF Update, update_dashboard, update_saved_view
  <2>5. CASE UNCHANGED shVars
    BY <2>5 DEF shVars
  <2>6. CASE ShNext
    BY <2>1, <2>2, <2>3, <2>4, <2>6, SharedSteps, BeginsWriteNothing, OthersWriteNothing
    DEF SharedStep
  <2>7. QED
    BY <2>5, <2>6
<1>4. CASE grants' = grants
  BY <1>1, <1>4 DEF Owners
<1>5. CASE DeleteGrant(c)
  <2>1. PICK v \in Owners(o) : v # u
    <3>1. CASE call[c].relation = "owner"
      <4>1. Cardinality(Owners(o) \ {u}) > 0
        BY <1>1, <1>5, <3>1 DEF DeleteGrant
      <4>2. Owners(o) \ {u} # {}
        BY <4>1, FS_EmptySet
      <4>3. QED
        BY <4>2
    <3>2. CASE call[c].relation # "owner"
      <4>1. u \notin Owners(o)
        BY <1>1, <3>2 DEF Owners, fetch_relation
      <4>2. QED
        BY <1>1, <4>1
    <3>3. QED
      BY <3>1, <3>2
  <2>2. v \in Users /\ grants[<<o, v>>] = "owner"
    BY <2>1 DEF Owners
  <2>3. grants' = [grants EXCEPT ![<<o, u>>] = NoRelation]
    BY <1>1, <1>5 DEF DeleteGrant
  <2>4. grants'[<<o, v>>] = "owner"
    BY <2>1, <2>2, <2>3, SharedParts
  <2>5. QED
    BY <1>1, <2>2, <2>4
<1>6. QED
  BY <1>3, <1>4, <1>5

(* The guard against removing the last owner fails only when its count or  *)
(* the relation it read is out of date.                                    *)
THEOREM RevokesKeepOwners == ShSpec => AccurateRevokeKeepsOwner
<1>1. SharedInv /\ [ShNext]_shVars =>
        [\A c \in Calls :
         LET o == call[c].object u == call[c].target
         IN /\ call[c].pc = "deleting" /\ call'[c] = NoCall /\ Live(o)
            /\ call[c].relation = fetch_relation(u, o)
            /\ call[c].others = Cardinality(Owners(o) \ {u})
            /\ Owners(o) # {}
            => \E v \in Users : grants'[<<o, v>>] = "owner"]_shVars
  BY RevokeLeavesOwner
<1>2. QED
  BY <1>1, SharedInvariant, PTL DEF ShSpec, AccurateRevokeKeepsOwner

-----------------------------------------------------------------------------
(***************************************************************************)
(* Incidents.                                                              *)
(***************************************************************************)
(* What a statement may do to the row of an incident.                      *)
RowMoves(k) ==
    LET old == rows[k] new == rows'[k] IN
    /\ new.rule = old.rule /\ old.log \subseteq new.log
    /\ new.closed <=> (old.closed \/ new.status \in Ended)
    /\ old.dated => new.dated
    /\ new.dated => old.dated \/ new.status = "resolved"
    /\ new.status = "resolved" => new.dated

RowsMove == DOMAIN rows' = DOMAIN rows /\ \A k \in DOMAIN rows : RowMoves(k)

(* A sequence in which one element is replaced by another of its set.      *)
LEMMA ReplaceInSeq ==
    ASSUME NEW S, NEW s \in Seq(S), NEW k \in DOMAIN s, NEW r \in S
    PROVE  /\ [s EXCEPT ![k] = r] \in Seq(S)
           /\ DOMAIN [s EXCEPT ![k] = r] = DOMAIN s
           /\ [s EXCEPT ![k] = r][k] = r
           /\ \A j \in DOMAIN s : j # k => [s EXCEPT ![k] = r][j] = s[j]
OBVIOUS

(* A statement that leaves every row alone.                                *)
LEMMA NothingMoves ==
    ASSUME IncidentsInv, UNCHANGED rows
    PROVE  RowsMove
<1>1. \A k \in DOMAIN rows : rows[k] \in IncidentRow
  BY DEF IncidentsInv, IncidentsTypeOK
<1>2. QED
  BY <1>1 DEF IncidentsInv, RowsMove, RowMoves, EndsAreMarked, ResolutionIsDated, IncidentRow

(* A statement that adds an event to a timeline.                           *)
LEMMA EventAdded ==
    ASSUME IncidentsInv, NEW i \in DOMAIN rows, NEW type \in EventTypes, NEW actor \in Actors,
           rows' = AddEvent(i, type, actor)
    PROVE  /\ rows' \in Seq(IncidentRow) /\ RowsMove
           /\ <<type, actor>> \in rows'[i].log
           /\ \A k \in DOMAIN rows : /\ rows'[k].status = rows[k].status
                                     /\ rows'[k].ack = rows[k].ack
                                     /\ rows'[k].linked = rows[k].linked
<1>1. rows \in Seq(IncidentRow) /\ rows[i] \in IncidentRow
  BY DEF IncidentsInv, IncidentsTypeOK
<1> DEFINE r == [rows[i] EXCEPT !.log = @ \union {<<type, actor>>}]
<1>2. rows' = [rows EXCEPT ![i] = r]
  BY DEF AddEvent
<1>3. r \in IncidentRow
  BY <1>1 DEF IncidentRow
<1>4. /\ rows' \in Seq(IncidentRow) /\ DOMAIN rows' = DOMAIN rows
      /\ rows'[i] = r /\ \A j \in DOMAIN rows : j # i => rows'[j] = rows[j]
  BY <1>1, <1>2, <1>3, ReplaceInSeq
<1>5. /\ r.rule = rows[i].rule /\ r.status = rows[i].status /\ r.closed = rows[i].closed
      /\ r.ack = rows[i].ack /\ r.dated = rows[i].dated /\ r.linked = rows[i].linked
      /\ r.log = rows[i].log \union {<<type, actor>>}
  BY <1>1 DEF IncidentRow
<1> HIDE DEF r
<1>6. \A k \in DOMAIN rows : rows[k] \in IncidentRow
  BY <1>1
<1>7. RowsMove
  BY <1>4, <1>5, <1>6
  DEF IncidentsInv, RowsMove, RowMoves, EndsAreMarked, ResolutionIsDated, IncidentRow
<1>8. QED
  BY <1>4, <1>5, <1>7

(* A statement that writes a row but not its timeline: what it makes of    *)
(* the row is r.                                                           *)
LEMMA RowWritten ==
    ASSUME IncidentsInv, NEW i \in DOMAIN rows, NEW r \in IncidentRow,
           r.rule = rows[i].rule, r.log = rows[i].log,
           r.closed <=> (rows[i].closed \/ r.status \in Ended),
           rows[i].dated => r.dated,
           r.dated => rows[i].dated \/ r.status = "resolved",
           r.status = "resolved" => r.dated,
           rows' = [rows EXCEPT ![i] = r]
    PROVE  /\ rows' \in Seq(IncidentRow) /\ RowsMove /\ rows'[i] = r
           /\ \A k \in DOMAIN rows : k # i => rows'[k] = rows[k]
<1>1. rows \in Seq(IncidentRow) /\ \A k \in DOMAIN rows : rows[k] \in IncidentRow
  BY DEF IncidentsInv, IncidentsTypeOK
<1>2. /\ rows' \in Seq(IncidentRow) /\ DOMAIN rows' = DOMAIN rows
      /\ rows'[i] = r /\ \A j \in DOMAIN rows : j # i => rows'[j] = rows[j]
  BY <1>1, ReplaceInSeq
<1>3. RowsMove
  BY <1>1, <1>2
  DEF IncidentsInv, RowsMove, RowMoves, EndsAreMarked, ResolutionIsDated, IncidentRow
<1>4. QED
  BY <1>2, <1>3

(* What the rows say of themselves survives every such statement.          *)
LEMMA RowsStayTrue ==
    ASSUME IncidentsInv, RowsMove,
           upsert'.at = "insert" => upsert' = upsert
    PROVE  /\ EndsAreMarked' /\ ResolutionIsDated' /\ DuplicatesWereReopened'
           /\ InsertIsNeeded'
<1>1. \A k \in DOMAIN rows : RowMoves(k)
  BY DEF RowsMove
<1>2. DOMAIN rows' = DOMAIN rows
  BY DEF RowsMove
<1>3. \A k \in DOMAIN rows :
         rows'[k].status \notin Ended /\ ~rows'[k].closed
         => rows[k].status \notin Ended /\ ~rows[k].closed
  BY <1>1 DEF RowMoves, IncidentsInv, EndsAreMarked
<1>4. EndsAreMarked'
  <2> SUFFICES ASSUME NEW k \in DOMAIN rows, rows'[k].status \in Ended \/ rows'[k].dated
               PROVE  rows'[k].closed
    BY <1>2 DEF EndsAreMarked
  <2>1. RowMoves(k)
    BY <1>1
  <2>2. rows[k].status \in Ended \/ rows[k].dated => rows[k].closed
    BY DEF IncidentsInv, EndsAreMarked
  <2>3. QED
    BY <2>1, <2>2 DEF RowMoves, Ended
<1>5. ResolutionIsDated'
  BY <1>1, <1>2 DEF RowMoves, ResolutionIsDated
<1>6. DuplicatesWereReopened'
  <2> SUFFICES ASSUME NEW i \in DOMAIN rows, NEW j \in DOMAIN rows, i # j,
                      rows'[i].rule = rows'[j].rule,
                      rows'[i].status \notin Ended, rows'[j].status \notin Ended,
                      ~rows'[i].closed, ~rows'[j].closed
               PROVE  FALSE
    BY <1>2 DEF DuplicatesWereReopened
  <2>1. rows[i].rule = rows[j].rule
    BY <1>1 DEF RowMoves
  <2>2. QED
    BY <1>3, <2>1 DEF IncidentsInv, DuplicatesWereReopened
<1>7. InsertIsNeeded'
  <2> SUFFICES ASSUME upsert.at = "insert", upsert' = upsert, NEW k \in DOMAIN rows,
                      rows'[k].rule = upsert.rule, rows'[k].status \notin Ended,
                      ~rows'[k].closed
               PROVE  FALSE
    BY <1>2 DEF InsertIsNeeded
  <2>1. rows[k].rule = upsert.rule
    BY <1>1 DEF RowMoves
  <2>2. QED
    BY <1>3, <2>1 DEF IncidentsInv, InsertIsNeeded
<1>8. QED
  BY <1>4, <1>5, <1>6, <1>7

(* Nothing that the timeline has, or is about to have, is lost by a step   *)
(* that finishes what it was about to write.                               *)
EventsKept ==
    /\ \A k \in DOMAIN rows : k \in DOMAIN rows' /\ rows[k].log \subseteq rows'[k].log
    /\ \/ upsert' = upsert
       \/ upsert.at \notin {"triggered", "closed"}
       \/ upsert.at = "triggered" /\ <<"triggered", "system">> \in rows'[upsert.found].log
       \/ upsert.at = "closed" /\ <<"alert_resolved", "system">> \in rows'[upsert.found].log
    /\ \A p \in Responders :
          \/ calls'[p] = calls[p]
          \/ calls[p].at # "event"
          \/ <<EventOf(calls[p]), calls[p].actor>> \in rows'[calls[p].inc].log

(* An event that is due, or was written, stays so when the log only grows. *)
LEMMA DueIsKept ==
    ASSUME EventsKept, NEW k \in DOMAIN rows
    PROVE  /\ \A type : Due(k, type) => Due(k, type)'
           /\ \A actor : AckDue(k, actor) => AckDue(k, actor)'
<1>0. rows[k].log \subseteq rows'[k].log
  BY DEF EventsKept
<1>1. ASSUME NEW type, Due(k, type)
      PROVE  Due(k, type)'
  <2>1. CASE Written(k, type)
    BY <1>0, <2>1 DEF Due, Written
  <2>2. CASE upsert.found = k /\ upsert.at = "triggered" /\ type = "triggered"
    <3>1. CASE upsert' = upsert
      BY <2>2, <3>1 DEF Due
    <3>2. CASE <<"triggered", "system">> \in rows'[k].log
      <4>1. Written(k, type)'
        <5>1. \E e \in rows'[k].log : e[1] = type
          BY <2>2, <3>2
        <5>2. QED
          BY <5>1 DEF Written
      <4>2. QED
        BY <4>1 DEF Due
    <3>3. QED
      BY <2>2, <3>1, <3>2 DEF EventsKept
  <2>3. CASE upsert.found = k /\ upsert.at = "closed" /\ type = "alert_resolved"
    <3>1. CASE upsert' = upsert
      BY <2>3, <3>1 DEF Due
    <3>2. CASE <<"alert_resolved", "system">> \in rows'[k].log
      <4>1. Written(k, type)'
        <5>1. \E e \in rows'[k].log : e[1] = type
          BY <2>3, <3>2
        <5>2. QED
          BY <5>1 DEF Written
      <4>2. QED
        BY <4>1 DEF Due
    <3>3. QED
      BY <2>3, <3>1, <3>2 DEF EventsKept
  <2>4. ASSUME NEW p \in Responders,
               calls[p].inc = k, calls[p].at = "event", type = EventOf(calls[p])
        PROVE  Due(k, type)'
    <3>1. CASE calls'[p] = calls[p]
      <4>1. calls'[p].inc = k /\ calls'[p].at = "event" /\ type = EventOf(calls'[p])
        BY <2>4, <3>1
      <4>2. QED
        BY <4>1 DEF Due, EventOf
    <3>2. CASE <<EventOf(calls[p]), calls[p].actor>> \in rows'[k].log
      <4>1. Written(k, type)'
        <5>1. \E e \in rows'[k].log : e[1] = type
          BY <2>4, <3>2
        <5>2. QED
          BY <5>1 DEF Written
      <4>2. QED
        BY <4>1 DEF Due
    <3>3. QED
      BY <2>4, <3>1, <3>2 DEF EventsKept
  <2>5. QED
    BY <1>1, <2>1, <2>2, <2>3, <2>4 DEF Due
<1>2. ASSUME NEW actor, AckDue(k, actor)
      PROVE  AckDue(k, actor)'
  <2>1. CASE <<"acknowledged", actor>> \in rows[k].log
    BY <1>0, <2>1 DEF AckDue
  <2>2. ASSUME NEW p \in Responders, calls[p].inc = k, calls[p].at = "event",
               EventOf(calls[p]) = "acknowledged", calls[p].actor = actor
        PROVE  AckDue(k, actor)'
    <3>1. CASE calls'[p] = calls[p]
      <4>1. /\ calls'[p].inc = k /\ calls'[p].at = "event"
            /\ EventOf(calls'[p]) = "acknowledged" /\ calls'[p].actor = actor
        BY <2>2, <3>1
      <4>2. QED
        BY <4>1 DEF AckDue, EventOf
    <3>2. CASE <<"acknowledged", actor>> \in rows'[k].log
      BY <3>2 DEF AckDue
    <3>3. QED
      BY <2>2, <3>1, <3>2 DEF EventsKept
  <2>3. QED
    BY <1>2, <2>1, <2>2 DEF AckDue
<1>3. QED
  BY <1>1, <1>2

(* The same for what the rows say of themselves.                           *)
LEMMA EventsStayDue ==
    ASSUME IncidentsInv, EventsKept, DOMAIN rows' = DOMAIN rows, losses' = losses,
           \A k \in DOMAIN rows :
              /\ rows'[k].status = rows[k].status \/ Due(k, EventType(rows[k].status))'
              /\ rows'[k].linked = rows[k].linked \/ Due(k, "deployment_linked")'
              /\ rows'[k].ack = rows[k].ack \/ AckDue(k, rows[k].ack)',
           \A p \in Responders :
              calls'[p].op = "acknowledge" /\ calls'[p].at = "write" /\ calls'[p].ack # "none"
              => calls'[p] = calls[p] \/ (/\ calls'[p].inc \in DOMAIN rows
                                          /\ AckDue(calls'[p].inc, calls'[p].ack))
    PROVE  EventsAreDue'
<1> SUFFICES ASSUME losses = 0
             PROVE  EventsAreDue'
  BY DEF EventsAreDue
<1>1. ASSUME NEW k \in DOMAIN rows
      PROVE  /\ Due(k, "triggered")'
             /\ rows'[k].status # "triggered" => Due(k, EventType(rows[k].status))'
             /\ rows'[k].linked => Due(k, "deployment_linked")'
             /\ rows'[k].ack # "none" => AckDue(k, rows[k].ack)'
  <2>1. /\ Due(k, "triggered")
        /\ rows[k].status # "triggered" => Due(k, EventType(rows[k].status))
        /\ rows[k].linked => Due(k, "deployment_linked")
        /\ rows[k].ack # "none" => AckDue(k, rows[k].ack)
    BY DEF IncidentsInv, EventsAreDue
  <2>2. /\ \A type : Due(k, type) => Due(k, type)'
        /\ \A actor : AckDue(k, actor) => AckDue(k, actor)'
    BY DueIsKept
  <2>3. ASSUME rows'[k].status # "triggered"
        PROVE  Due(k, EventType(rows[k].status))'
    <3>1. CASE rows'[k].status = rows[k].status
      <4>1. PICK type : type = EventType(rows[k].status)
        OBVIOUS
      <4>2. Due(k, type)'
        BY <2>1, <2>2, <2>3, <3>1, <4>1
      <4>3. type = EventType(rows'[k].status)
        BY <3>1, <4>1 DEF EventType
      <4>4. QED
        BY <4>2, <4>3
    <3>2. QED
      BY <3>1
  <2>4. ASSUME rows'[k].ack # "none"
        PROVE  AckDue(k, rows[k].ack)'
    <3>1. CASE rows'[k].ack = rows[k].ack
      <4>1. PICK actor : actor = rows[k].ack
        OBVIOUS
      <4>2. AckDue(k, actor)'
        BY <2>1, <2>2, <2>4, <3>1, <4>1
      <4>3. QED
        BY <3>1, <4>1, <4>2
    <3>2. QED
      BY <3>1
  <2>5. QED
    BY <2>1, <2>2, <2>3, <2>4
<1>2. ASSUME NEW p \in Responders, calls'[p].op = "acknowledge", calls'[p].at = "write",
             calls'[p].ack # "none"
      PROVE  AckDue(calls[p].inc, calls[p].ack)'
  <2>1. /\ calls'[p].inc \in DOMAIN rows
        /\ AckDue(calls'[p].inc, calls'[p].ack)
    <3>1. CASE calls'[p] = calls[p]
      <4>1. calls[p].inc \in DOMAIN rows
        BY <1>2, <3>1 DEF IncidentsInv, IncidentsTypeOK
      <4>2. AckDue(calls[p].inc, calls[p].ack)
        BY <1>2, <3>1 DEF IncidentsInv, EventsAreDue
      <4>3. QED
        BY <3>1, <4>1, <4>2
    <3>2. QED
      BY <1>2, <3>1
  <2>2. PICK k, actor : k \in DOMAIN rows /\ k = calls'[p].inc /\ actor = calls'[p].ack
    BY <2>1
  <2>3. AckDue(k, actor)'
    BY <2>1, <2>2, DueIsKept
  <2>4. QED
    BY <2>2, <2>3
<1>3. QED
  BY <1>1, <1>2 DEF EventsAreDue

(* The places where the worker and a request may be.                       *)
UpsertTyped(u) ==
    /\ u \in [at : {"idle", "select", "insert", "triggered", "fired", "close", "closed"},
              rule : IncidentRules \union {"none"}, fired : BOOLEAN, found : Nat]
    /\ u.at # "idle" => u.rule \in IncidentRules
    /\ u.at \in {"triggered", "fired", "close", "closed"} => u.found \in DOMAIN rows

CallTyped(c) ==
    /\ c \in [op : {"none", "acknowledge", "status", "comment", "link"},
              at : {"idle", "read", "write", "event", "touch"}, inc : Nat,
              status : IncidentStatuses, actor : Actors, ack : Actors]
    /\ c.at # "idle" => c.inc \in DOMAIN rows

RequestTable ==
    [Responders -> [op : {"none", "acknowledge", "status", "comment", "link"},
                    at : {"idle", "read", "write", "event", "touch"}, inc : Nat,
                    status : IncidentStatuses, actor : Actors, ack : Actors]]

(* The table of the calls under way, and each call in it, is of its type.  *)
LEMMA TypedCalls ==
    ASSUME IncidentsInv
    PROVE  calls \in RequestTable /\ \A p \in Responders : CallTyped(calls[p])
BY DEF IncidentsInv, IncidentsTypeOK, RequestTable, CallTyped

(* What a statement on the rows there are has to show.                     *)
LEMMA StatementKeeps ==
    ASSUME IncidentsInv, RowsMove, rows' \in Seq(IncidentRow),
           UpsertTyped(upsert'), upsert'.at = "insert" => upsert' = upsert,
           calls' \in RequestTable, \A p \in Responders : CallTyped(calls'[p]),
           acts' \in Nat, losses' = losses,
           EventsKept,
           losses = 0 => \A k \in DOMAIN rows :
              /\ rows'[k].status = rows[k].status \/ Due(k, EventType(rows[k].status))'
              /\ rows'[k].linked = rows[k].linked \/ Due(k, "deployment_linked")'
              /\ rows'[k].ack = rows[k].ack \/ AckDue(k, rows[k].ack)',
           \A p \in Responders :
              calls'[p].op = "acknowledge" /\ calls'[p].at = "write" /\ calls'[p].ack # "none"
              => calls'[p] = calls[p] \/ (losses = 0 => AckDue(calls'[p].inc, calls'[p].ack))
    PROVE  IncidentsInv'
<1>1. DOMAIN rows' = DOMAIN rows
  BY DEF RowsMove
<1>2. IncidentsTypeOK'
  <2>1. losses' \in Nat
    BY DEF IncidentsInv, IncidentsTypeOK
  <2>2. QED
    BY <1>1, <2>1 DEF UpsertTyped, CallTyped, RequestTable, IncidentsTypeOK
<1>3. EndsAreMarked' /\ ResolutionIsDated' /\ DuplicatesWereReopened' /\ InsertIsNeeded'
  BY RowsStayTrue
<1>4. EventsAreDue'
  <2>1. CASE losses # 0
    BY <2>1 DEF EventsAreDue
  <2>2. CASE losses = 0
    <3>1. \A q \in Responders :
             calls'[q].op = "acknowledge" /\ calls'[q].at = "write" /\ calls'[q].ack # "none"
             => calls'[q] = calls[q] \/ (/\ calls'[q].inc \in DOMAIN rows
                                         /\ AckDue(calls'[q].inc, calls'[q].ack))
      BY <1>1, <2>2 DEF CallTyped
    <3>2. QED
      BY <1>1, <2>2, <3>1, EventsStayDue
  <2>3. QED
    BY <2>1, <2>2
<1>5. QED
  BY <1>2, <1>3, <1>4 DEF IncidentsInv

(* The same for a statement of request p, which leaves c of it.            *)
LEMMA RequestKeeps ==
    ASSUME IncidentsInv, RowsMove, rows' \in Seq(IncidentRow), upsert' = upsert,
           NEW p \in Responders, NEW c, CallTyped(c), calls' = [calls EXCEPT ![p] = c],
           acts' \in Nat, losses' = losses,
           \/ calls[p].at # "event"
           \/ <<EventOf(calls[p]), calls[p].actor>> \in rows'[calls[p].inc].log,
           losses = 0 => \A k \in DOMAIN rows :
              /\ rows'[k].status = rows[k].status \/ Due(k, EventType(rows[k].status))'
              /\ rows'[k].linked = rows[k].linked \/ Due(k, "deployment_linked")'
              /\ rows'[k].ack = rows[k].ack \/ AckDue(k, rows[k].ack)',
           c.op = "acknowledge" /\ c.at = "write" /\ c.ack # "none"
           => (losses = 0 => AckDue(c.inc, c.ack))
    PROVE  IncidentsInv'
<1>1. calls \in RequestTable /\ \A q \in Responders : CallTyped(calls[q])
  BY TypedCalls
<1>2. calls'[p] = c /\ \A q \in Responders : q # p => calls'[q] = calls[q]
  BY <1>1 DEF RequestTable
<1>3. calls' \in RequestTable /\ \A q \in Responders : CallTyped(calls'[q])
  <2>1. calls' \in RequestTable
    BY <1>1 DEF RequestTable, CallTyped
  <2>2. \A q \in Responders : CallTyped(calls[q])'
    <3>1. DOMAIN rows' = DOMAIN rows
      BY DEF RowsMove
    <3>2. QED
      BY <1>1, <1>2, <3>1 DEF CallTyped
  <2>3. \A q \in Responders : CallTyped(calls'[q])
    BY <1>1, <1>2
  <2>4. QED
    BY <2>1, <2>3
<1>4. EventsKept
  <2>1. \A k \in DOMAIN rows : k \in DOMAIN rows' /\ rows[k].log \subseteq rows'[k].log
    BY DEF RowsMove, RowMoves
  <2>2. QED
    BY <1>2, <2>1 DEF EventsKept
<1>5. UpsertTyped(upsert') /\ (upsert'.at = "insert" => upsert' = upsert)
  BY DEF UpsertTyped, IncidentsInv, IncidentsTypeOK
<1>6. \A q \in Responders :
         calls'[q].op = "acknowledge" /\ calls'[q].at = "write" /\ calls'[q].ack # "none"
         => calls'[q] = calls[q] \/ (losses = 0 => AckDue(calls'[q].inc, calls'[q].ack))
  BY <1>2
<1>7. QED
  BY <1>3, <1>4, <1>5, <1>6, StatementKeeps

-----------------------------------------------------------------------------
(* The worker's statements.                                                *)
LEMMA WorkerKeeps ==
    ASSUME IncidentsInv,
           \/ \E r \in IncidentRules, fired \in BOOLEAN : Evaluate(r, fired)
           \/ SelectOpenIncident
    PROVE  IncidentsInv'
<1>1. UNCHANGED <<rows, calls, acts, losses>> /\ upsert.at \notin {"triggered", "closed"}
  BY DEF Evaluate, SelectOpenIncident
<1>2. EventsKept
  BY <1>1 DEF EventsKept
<1>3. EventsAreDue'
  BY <1>1, <1>2, EventsStayDue
<1>4. RowsMove
  BY <1>1, NothingMoves
<1>5. /\ upsert' \in [at : {"idle", "select", "insert", "triggered", "fired", "close", "closed"},
                      rule : IncidentRules \union {"none"}, fired : BOOLEAN, found : Nat]
      /\ upsert'.at # "idle" => upsert'.rule \in IncidentRules
      /\ upsert'.at \in {"triggered", "fired", "close", "closed"} => upsert'.found \in DOMAIN rows
      /\ upsert'.at = "insert" => OpenRows(upsert'.rule) = {}
  <2>1. CASE \E r \in IncidentRules, fired \in BOOLEAN : Evaluate(r, fired)
    BY <2>1 DEF Evaluate
  <2>2. CASE SelectOpenIncident
    <3>1. PICK k \in DOMAIN rows \union {0} :
             /\ IF k = 0 THEN OpenRows(upsert.rule) = {} ELSE k \in OpenRows(upsert.rule)
             /\ upsert' = IF k = 0 /\ ~upsert.fired THEN NoUpsert
                          ELSE [upsert EXCEPT !.found = k, !.at =
                               IF ~upsert.fired THEN "close"
                               ELSE IF k = 0 THEN "insert" ELSE "fired"]
      BY <2>2 DEF SelectOpenIncident
    <3>2. upsert.at = "select"
      BY <2>2 DEF SelectOpenIncident
    <3>3. k \in Nat /\ (k # 0 => k \in DOMAIN rows)
      BY <3>1 DEF IncidentsInv, IncidentsTypeOK
    <3>4. /\ upsert \in [at : {"idle", "select", "insert", "triggered", "fired", "close", "closed"},
                   rule : IncidentRules \union {"none"}, fired : BOOLEAN, found : Nat]
          /\ upsert.rule \in IncidentRules
      BY <3>2 DEF IncidentsInv, IncidentsTypeOK
    <3>5. QED
      BY <3>1, <3>3, <3>4 DEF NoUpsert
  <2>3. QED
    BY <2>1, <2>2
<1>6. IncidentsTypeOK'
  BY <1>1, <1>5 DEF IncidentsInv, IncidentsTypeOK
<1>7. InsertIsNeeded'
  BY <1>1, <1>5 DEF InsertIsNeeded, OpenRows
<1>8. EndsAreMarked' /\ ResolutionIsDated' /\ DuplicatesWereReopened'
  BY <1>1 DEF IncidentsInv, EndsAreMarked, ResolutionIsDated, DuplicatesWereReopened
<1>9. QED
  BY <1>3, <1>6, <1>7, <1>8 DEF IncidentsInv

(* A new incident, for a rule that has no open one but those that have     *)
(* come back.                                                              *)
LEMMA InsertKeeps ==
    ASSUME IncidentsInv, upsert_incident_from_firing, upsert.at = "insert"
    PROVE  IncidentsInv'
<1> DEFINE r == [rule |-> upsert.rule, status |-> "triggered", closed |-> FALSE,
                 ack |-> "none", dated |-> FALSE, linked |-> FALSE, log |-> {}]
<1>0. PICK n : n = Len(rows) + 1
  OBVIOUS
<1>1. /\ rows' = Append(rows, r)
      /\ upsert' = [upsert EXCEPT !.found = n, !.at = "triggered"]
      /\ UNCHANGED <<calls, acts, losses>>
  BY <1>0 DEF upsert_incident_from_firing
<1>2. rows \in Seq(IncidentRow) /\ upsert.rule \in IncidentRules
  BY DEF IncidentsInv, IncidentsTypeOK
<1>3. r \in IncidentRow
  BY <1>2 DEF IncidentRow, IncidentStatuses, Actors
<1>4. /\ rows' \in Seq(IncidentRow) /\ DOMAIN rows' = DOMAIN rows \union {n}
      /\ rows'[n] = r /\ n \notin DOMAIN rows /\ n \in Nat
      /\ \A k \in DOMAIN rows : rows'[k] = rows[k]
  BY <1>0, <1>1, <1>2, <1>3
<1>5. /\ r.status = "triggered" /\ r.ack = "none" /\ r.linked = FALSE /\ r.rule = upsert.rule
      /\ r.closed = FALSE /\ r.dated = FALSE
  OBVIOUS
<1>6. upsert'.at = "triggered" /\ upsert'.found = n
  BY <1>1 DEF IncidentsInv, IncidentsTypeOK
<1> HIDE DEF r
<1>7. IncidentsTypeOK'
  <2>1. upsert' \in [at : {"idle", "select", "insert", "triggered", "fired", "close", "closed"},
                     rule : IncidentRules \union {"none"}, fired : BOOLEAN, found : Nat]
        /\ upsert'.rule = upsert.rule
    BY <1>1, <1>4 DEF IncidentsInv, IncidentsTypeOK
  <2>2. \A p \in Responders : calls'[p].at # "idle" => calls'[p].inc \in DOMAIN rows'
    BY <1>1, <1>4 DEF IncidentsInv, IncidentsTypeOK
  <2>3. QED
    BY <1>1, <1>2, <1>4, <1>6, <2>1, <2>2 DEF IncidentsInv, IncidentsTypeOK
<1>8. EndsAreMarked' /\ ResolutionIsDated'
  BY <1>4, <1>5 DEF IncidentsInv, EndsAreMarked, ResolutionIsDated, Ended
<1>9. DuplicatesWereReopened'
  <2> SUFFICES ASSUME NEW i \in DOMAIN rows', NEW j \in DOMAIN rows', i # j,
                      rows'[i].rule = rows'[j].rule,
                      rows'[i].status \notin Ended, rows'[j].status \notin Ended
               PROVE  rows'[i].closed \/ rows'[j].closed
    BY DEF DuplicatesWereReopened
  <2>1. CASE i = n
    <3>1. j \in DOMAIN rows /\ rows'[j] = rows[j] /\ rows[j].rule = upsert.rule
      BY <1>4, <1>5, <2>1
    <3>2. QED
      BY <3>1 DEF IncidentsInv, InsertIsNeeded
  <2>2. CASE j = n
    <3>1. i \in DOMAIN rows /\ rows'[i] = rows[i] /\ rows[i].rule = upsert.rule
      BY <1>4, <1>5, <2>2
    <3>2. QED
      BY <3>1 DEF IncidentsInv, InsertIsNeeded
  <2>3. CASE i # n /\ j # n
    BY <1>4, <2>3 DEF IncidentsInv, DuplicatesWereReopened
  <2>4. QED
    BY <2>1, <2>2, <2>3
<1>10. InsertIsNeeded'
  BY <1>6 DEF InsertIsNeeded
<1>11. EventsAreDue'
  <2> SUFFICES ASSUME losses = 0
               PROVE  EventsAreDue'
    BY <1>1 DEF EventsAreDue
  <2>1. EventsKept
    BY <1>1, <1>4 DEF EventsKept
  <2>2. ASSUME NEW k \in DOMAIN rows
        PROVE  /\ Due(k, "triggered")'
               /\ rows'[k].status # "triggered" => Due(k, EventType(rows[k].status))'
               /\ rows'[k].linked => Due(k, "deployment_linked")'
               /\ rows'[k].ack # "none" => AckDue(k, rows[k].ack)'
    <3>1. PICK type, actor : type = EventType(rows[k].status) /\ actor = rows[k].ack
      OBVIOUS
    <3>2. /\ Due(k, "triggered")
          /\ rows[k].status # "triggered" => Due(k, type)
          /\ rows[k].linked => Due(k, "deployment_linked")
          /\ actor # "none" => AckDue(k, actor)
      BY <3>1 DEF IncidentsInv, EventsAreDue
    <3>3. /\ Due(k, "triggered")'
          /\ rows[k].status # "triggered" => Due(k, type)'
          /\ rows[k].linked => Due(k, "deployment_linked")'
          /\ actor # "none" => AckDue(k, actor)'
      BY <2>1, <3>2, DueIsKept
    <3>4. rows'[k] = rows[k]
      BY <1>4
    <3>5. type = EventType(rows'[k].status) /\ actor = rows'[k].ack
      BY <3>1, <3>4 DEF EventType
    <3>6. ASSUME rows'[k].status # "triggered" PROVE Due(k, EventType(rows[k].status))'
      <4>1. Due(k, type)'
        BY <3>3, <3>4, <3>6
      <4>2. QED
        BY <3>5, <4>1
    <3>7. ASSUME rows'[k].ack # "none" PROVE AckDue(k, rows[k].ack)'
      <4>1. AckDue(k, actor)'
        BY <3>3, <3>5, <3>7
      <4>2. QED
        BY <3>5, <4>1
    <3>8. rows'[k].linked => Due(k, "deployment_linked")'
      BY <3>3, <3>4
    <3>9. QED
      BY <3>3, <3>6, <3>7, <3>8
  <2>3. Due(n, "triggered")'
    BY <1>6 DEF Due
  <2>4. ASSUME NEW p \in Responders, calls[p].op = "acknowledge", calls[p].at = "write",
               calls[p].ack # "none"
        PROVE  AckDue(calls[p].inc, calls[p].ack)'
    <3>1. PICK k, actor : k \in DOMAIN rows /\ k = calls[p].inc /\ actor = calls[p].ack
      BY <2>4 DEF IncidentsInv, IncidentsTypeOK
    <3>2. AckDue(k, actor)
      BY <2>4, <3>1 DEF IncidentsInv, EventsAreDue
    <3>3. AckDue(k, actor)'
      BY <2>1, <3>1, <3>2, DueIsKept
    <3>4. calls'[p].inc = k /\ calls'[p].ack = actor
      BY <1>1, <3>1
    <3>5. QED
      BY <3>3, <3>4
  <2>5. /\ ~(rows'[n].status # "triggered") /\ ~rows'[n].linked /\ ~(rows'[n].ack # "none")
    BY <1>4, <1>5
  <2>6. ASSUME NEW k \in DOMAIN rows'
        PROVE  /\ Due(k, "triggered")'
               /\ rows'[k].status # "triggered" => Due(k, EventType(rows[k].status))'
               /\ rows'[k].linked => Due(k, "deployment_linked")'
               /\ rows'[k].ack # "none" => AckDue(k, rows[k].ack)'
    <3>1. CASE k = n
      BY <2>3, <2>5, <3>1
    <3>2. CASE k # n
      BY <1>4, <2>2, <3>2
    <3>3. QED
      BY <3>1, <3>2
  <2>7. \A p \in Responders :
           calls'[p].op = "acknowledge" /\ calls'[p].at = "write" /\ calls'[p].ack # "none"
           => AckDue(calls[p].inc, calls[p].ack)'
    BY <1>1, <2>4
  <2>8. QED
    BY <2>6, <2>7 DEF EventsAreDue
<1>12. QED
  BY <1>7, <1>8, <1>9, <1>10, <1>11 DEF IncidentsInv

(* The worker's events.                                                    *)
LEMMA WorkerEventKeeps ==
    ASSUME IncidentsInv,
           \/ upsert_incident_from_firing /\ upsert.at \in {"triggered", "fired"}
           \/ resolve_incident_for_firing /\ upsert.at = "closed"
    PROVE  IncidentsInv'
<1>1. PICK i \in DOMAIN rows, type \in EventTypes :
         /\ i = upsert.found /\ rows' = AddEvent(i, type, "system")
         /\ upsert.at = "triggered" => type = "triggered"
         /\ upsert.at = "closed" => type = "alert_resolved"
  BY DEF IncidentsInv, IncidentsTypeOK, upsert_incident_from_firing,
         resolve_incident_for_firing, EventTypes
<1>2. UNCHANGED <<calls, acts, losses>>
  BY DEF upsert_incident_from_firing, resolve_incident_for_firing
<1>3. UpsertTyped(upsert') /\ upsert'.at # "insert"
  <2>1. CASE upsert' = NoUpsert
    BY <2>1 DEF UpsertTyped, NoUpsert
  <2>2. CASE upsert.at = "triggered" /\ upsert' = [upsert EXCEPT !.at = "fired"]
    BY <2>2 DEF UpsertTyped, IncidentsInv, IncidentsTypeOK
  <2>3. QED
    BY <2>1, <2>2 DEF upsert_incident_from_firing, resolve_incident_for_firing
<1>4. /\ rows' \in Seq(IncidentRow) /\ RowsMove
      /\ <<type, "system">> \in rows'[i].log
      /\ \A k \in DOMAIN rows : /\ rows'[k].status = rows[k].status
                                /\ rows'[k].ack = rows[k].ack
                                /\ rows'[k].linked = rows[k].linked
  BY <1>1, EventAdded DEF Actors
<1>5. EventsKept
  BY <1>1, <1>2, <1>4 DEF EventsKept, RowsMove, RowMoves
<1>6. calls' \in RequestTable /\ \A p \in Responders : CallTyped(calls'[p])
  BY <1>2, TypedCalls
<1>7. acts' \in Nat /\ losses' = losses
  BY <1>2 DEF IncidentsInv, IncidentsTypeOK
<1>8. QED
  BY <1>2, <1>3, <1>4, <1>5, <1>6, <1>7, StatementKeeps

(* The worker resolves an incident, whatever its status.                   *)
LEMMA WorkerResolveKeeps ==
    ASSUME IncidentsInv, resolve_incident_for_firing, upsert.at = "close"
    PROVE  IncidentsInv'
<1>1. PICK i \in DOMAIN rows : i = upsert.found
  BY DEF IncidentsInv, IncidentsTypeOK
<1>2. /\ rows' = [SetStatus(i, "resolved") EXCEPT ![i].dated = TRUE]
      /\ upsert' = [upsert EXCEPT !.at = "closed"] /\ UNCHANGED <<calls, acts, losses>>
  BY <1>1 DEF resolve_incident_for_firing
<1>3. rows \in Seq(IncidentRow) /\ rows[i] \in IncidentRow
  BY DEF IncidentsInv, IncidentsTypeOK
<1> DEFINE r == [rows[i] EXCEPT !.status = "resolved", !.closed = TRUE, !.dated = TRUE]
<1>4. rows' = [rows EXCEPT ![i] = r]
  BY <1>2, <1>3 DEF SetStatus, Ended, IncidentRow
<1>5. /\ r \in IncidentRow /\ r.rule = rows[i].rule /\ r.log = rows[i].log /\ r.closed
      /\ r.dated /\ r.status = "resolved" /\ r.linked = rows[i].linked /\ r.ack = rows[i].ack
  BY <1>3 DEF IncidentRow, IncidentStatuses
<1> HIDE DEF r
<1>6. /\ rows' \in Seq(IncidentRow) /\ RowsMove /\ rows'[i] = r
      /\ \A k \in DOMAIN rows : k # i => rows'[k] = rows[k]
  BY <1>4, <1>5, RowWritten DEF Ended
<1>7. upsert'.at = "closed" /\ upsert'.found = i
  BY <1>1, <1>2 DEF IncidentsInv, IncidentsTypeOK
<1>8. Due(i, EventType(rows[i].status))'
  BY <1>5, <1>6, <1>7 DEF Due, EventType
<1>9. EventsKept
  BY <1>2, <1>6 DEF EventsKept, RowsMove, RowMoves
<1>10. UpsertTyped(upsert')
  BY <1>1, <1>2 DEF UpsertTyped, IncidentsInv, IncidentsTypeOK
<1>11. calls' \in RequestTable /\ \A p \in Responders : CallTyped(calls'[p])
  BY <1>2, TypedCalls
<1>12. acts' \in Nat /\ losses' = losses
  BY <1>2 DEF IncidentsInv, IncidentsTypeOK
<1>13. \A k \in DOMAIN rows :
          /\ rows'[k].status = rows[k].status \/ Due(k, EventType(rows[k].status))'
          /\ rows'[k].linked = rows[k].linked /\ rows'[k].ack = rows[k].ack
  BY <1>5, <1>6, <1>8
<1>14. QED
  BY <1>2, <1>6, <1>7, <1>9, <1>10, <1>11, <1>12, <1>13, StatementKeeps

-----------------------------------------------------------------------------
(* The statements of the requests.                                         *)
LEMMA BeginKeeps ==
    ASSUME IncidentsInv, NEW p \in Responders, NEW op \in {"acknowledge", "status", "comment", "link"},
           NEW k \in DOMAIN rows, NEW s \in IncidentStatuses, NEW given \in Payloads,
           BeginRequest(p, op, k, s, given)
    PROVE  IncidentsInv'
<1> DEFINE c == [op |-> op, at |-> "read", inc |-> k, status |-> s,
                 actor |-> ActorName(given, p), ack |-> "none"]
<1>1. ActorName(given, p) \in Actors /\ k \in Nat
  BY DEF ActorName, Actors, Nobody, IncidentsInv, IncidentsTypeOK
<1>2. CallTyped(c)
  BY <1>1 DEF CallTyped, Actors
<1>3. calls[p].at = "idle"
  BY DEF BeginRequest, NoRequest
<1>4. RowsMove /\ rows' \in Seq(IncidentRow)
  BY NothingMoves DEF BeginRequest, IncidentsInv, IncidentsTypeOK
<1>5. acts' \in Nat /\ losses' = losses /\ upsert' = upsert /\ rows' = rows
  BY DEF BeginRequest, IncidentsInv, IncidentsTypeOK
<1>6. calls' = [calls EXCEPT ![p] = c]
  BY DEF BeginRequest
<1>7. c.op # "acknowledge" \/ c.at # "write"
  OBVIOUS
<1> HIDE DEF c
<1>8. QED
  BY <1>2, <1>3, <1>4, <1>5, <1>6, <1>7, RequestKeeps

(* A request that moves on, or is answered, without writing.               *)
LEMMA MoveOnKeeps ==
    ASSUME IncidentsInv, NEW p \in Responders, UNCHANGED <<rows, upsert, acts, losses>>,
           calls[p].at # "event",
           \/ Answer(p)
           \/ Goto(p, "write") /\ calls[p].op # "acknowledge" /\ calls[p].at = "read"
           \/ Goto(p, "event") /\ calls[p].at = "read"
    PROVE  IncidentsInv'
<1>1. CallTyped(calls[p])
  BY TypedCalls
<1>2. PICK c : /\ CallTyped(c) /\ calls' = [calls EXCEPT ![p] = c]
               /\ c.op # "acknowledge" \/ c.at # "write"
  <2>1. CASE Answer(p)
    <3>1. CallTyped(NoRequest) /\ NoRequest.op = "none"
      BY DEF CallTyped, NoRequest, IncidentStatuses, Actors
    <3>2. QED
      BY <2>1, <3>1 DEF Answer
  <2>2. CASE Goto(p, "write") /\ calls[p].op # "acknowledge" /\ calls[p].at = "read"
    <3>1. CallTyped([calls[p] EXCEPT !.at = "write"])
      BY <1>1, <2>2 DEF CallTyped
    <3>2. QED
      BY <1>1, <2>2, <3>1 DEF Goto, CallTyped
  <2>3. CASE Goto(p, "event") /\ calls[p].at = "read"
    <3>1. CallTyped([calls[p] EXCEPT !.at = "event"])
      BY <1>1, <2>3 DEF CallTyped
    <3>2. QED
      BY <1>1, <2>3, <3>1 DEF Goto, CallTyped
  <2>4. QED
    BY <2>1, <2>2, <2>3
<1>3. RowsMove /\ rows' \in Seq(IncidentRow)
  BY NothingMoves DEF IncidentsInv, IncidentsTypeOK
<1>4. acts' \in Nat
  BY DEF IncidentsInv, IncidentsTypeOK
<1>5. QED
  BY <1>2, <1>3, <1>4, RequestKeeps

(* A request that adds its event, and is answered or moves on.             *)
LEMMA RequestEventKeeps ==
    ASSUME IncidentsInv, NEW p \in Responders, UNCHANGED <<upsert, acts, losses>>,
           calls[p].at = "event", calls[p].op # "none",
           rows' = AddEvent(calls[p].inc, EventOf(calls[p]), calls[p].actor),
           Answer(p) \/ Goto(p, "touch")
    PROVE  IncidentsInv'
<1>1. CallTyped(calls[p])
  BY TypedCalls
<1>2. PICK c : /\ CallTyped(c) /\ calls' = [calls EXCEPT ![p] = c] /\ c.at # "write"
  <2>1. CASE Answer(p)
    <3>1. CallTyped(NoRequest) /\ NoRequest.at = "idle"
      BY DEF CallTyped, NoRequest, IncidentStatuses, Actors
    <3>2. QED
      BY <2>1, <3>1 DEF Answer
  <2>2. CASE Goto(p, "touch")
    <3>1. CallTyped([calls[p] EXCEPT !.at = "touch"])
      BY <1>1 DEF CallTyped
    <3>2. QED
      BY <1>1, <2>2, <3>1 DEF Goto, CallTyped
  <2>3. QED
    BY <2>1, <2>2
<1>3. /\ calls[p].inc \in DOMAIN rows /\ EventOf(calls[p]) \in EventTypes
      /\ calls[p].actor \in Actors
  BY <1>1 DEF CallTyped, EventOf, EventType, EventTypes
<1>4. /\ rows' \in Seq(IncidentRow) /\ RowsMove
      /\ <<EventOf(calls[p]), calls[p].actor>> \in rows'[calls[p].inc].log
      /\ \A k \in DOMAIN rows : /\ rows'[k].status = rows[k].status
                                /\ rows'[k].ack = rows[k].ack
                                /\ rows'[k].linked = rows[k].linked
  BY <1>3, EventAdded
<1>5. acts' \in Nat
  BY DEF IncidentsInv, IncidentsTypeOK
<1>6. QED
  BY <1>2, <1>4, <1>5, RequestKeeps

(* A request that writes a row, and has its event still to add.            *)
LEMMA RequestWriteKeeps ==
    ASSUME IncidentsInv, NEW p \in Responders, NEW i, i = calls[p].inc,
           UNCHANGED <<upsert, acts, losses>>, calls[p].at = "write", Goto(p, "event"),
           NEW r \in IncidentRow, rows' = [rows EXCEPT ![i] = r],
           r.rule = rows[i].rule, r.log = rows[i].log,
           r.closed <=> (rows[i].closed \/ r.status \in Ended),
           rows[i].dated => r.dated,
           r.dated => rows[i].dated \/ r.status = "resolved",
           r.status = "resolved" => r.dated,
           r.status = rows[i].status \/ EventOf(calls[p]) = EventType(r.status),
           r.linked = rows[i].linked \/ EventOf(calls[p]) = "deployment_linked",
           \/ r.ack = rows[i].ack
           \/ EventOf(calls[p]) = "acknowledged" /\ r.ack = calls[p].actor
           \/ calls[p].op = "acknowledge" /\ r.ack = calls[p].ack /\ r.ack # "none"
    PROVE  IncidentsInv'
<1>1. CallTyped(calls[p]) /\ i \in DOMAIN rows
  BY TypedCalls DEF CallTyped
<1>2. PICK c : c = [calls[p] EXCEPT !.at = "event"]
  OBVIOUS
<1>3. /\ CallTyped(c) /\ calls' = [calls EXCEPT ![p] = c] /\ c.at = "event" /\ c.inc = i
      /\ c.op = calls[p].op /\ c.status = calls[p].status /\ c.actor = calls[p].actor
  BY <1>1, <1>2 DEF Goto, CallTyped
<1>4. /\ rows' \in Seq(IncidentRow) /\ RowsMove /\ rows'[i] = r
      /\ \A k \in DOMAIN rows : k # i => rows'[k] = rows[k]
  BY <1>1, RowWritten
<1>5. acts' \in Nat
  BY DEF IncidentsInv, IncidentsTypeOK
<1>6. calls'[p] = c /\ \A q \in Responders : q # p => calls'[q] = calls[q]
  BY <1>3, TypedCalls DEF RequestTable
<1>7. EventsKept
  BY <1>4, <1>6 DEF EventsKept, RowsMove, RowMoves
<1>8. /\ \A type : type = EventOf(calls[p]) => Due(i, type)'
      /\ \A actor : EventOf(calls[p]) = "acknowledged" /\ actor = calls[p].actor
                    => AckDue(i, actor)'
  BY <1>3, <1>6 DEF Due, AckDue, EventOf
<1>9. ASSUME losses = 0, NEW k \in DOMAIN rows
      PROVE  /\ rows'[k].status = rows[k].status \/ Due(k, EventType(rows[k].status))'
             /\ rows'[k].linked = rows[k].linked \/ Due(k, "deployment_linked")'
             /\ rows'[k].ack = rows[k].ack \/ AckDue(k, rows[k].ack)'
  <2>1. CASE k # i
    BY <1>4, <2>1
  <2>2. CASE k = i
    <3>1. r.status = rows[i].status \/ Due(i, EventType(rows[i].status))'
      <4>1. PICK type : type = EventType(r.status)
        OBVIOUS
      <4>2. r.status = rows[i].status \/ Due(i, type)'
        BY <1>8, <4>1
      <4>3. type = EventType(rows'[i].status)
        BY <1>4, <4>1
      <4>4. QED
        BY <4>2, <4>3
    <3>2. r.linked = rows[i].linked \/ Due(i, "deployment_linked")'
      BY <1>8
    <3>3. r.ack = rows[i].ack \/ AckDue(i, rows[i].ack)'
      <4>1. PICK actor : actor = r.ack
        OBVIOUS
      <4>2. r.ack = rows[i].ack \/ AckDue(i, actor)'
        <5>1. CASE EventOf(calls[p]) = "acknowledged" /\ r.ack = calls[p].actor
          BY <1>8, <4>1, <5>1
        <5>2. CASE calls[p].op = "acknowledge" /\ r.ack = calls[p].ack /\ r.ack # "none"
          <6>1. AckDue(i, actor)
            BY <1>9, <4>1, <5>2 DEF IncidentsInv, EventsAreDue
          <6>2. QED
            BY <1>1, <1>7, <6>1, DueIsKept
        <5>3. QED
          BY <5>1, <5>2
      <4>3. actor = rows'[i].ack
        BY <1>4, <4>1
      <4>4. QED
        BY <4>2, <4>3
    <3>4. QED
      BY <1>4, <2>2, <3>1, <3>2, <3>3
  <2>3. QED
    BY <2>1, <2>2
<1>10. QED
  BY <1>3, <1>4, <1>5, <1>9, RequestKeeps

(* acknowledge_incident: what it read of the acknowledger has an event.    *)
LEMMA AcknowledgeKeeps ==
    ASSUME IncidentsInv, NEW p \in Responders, acknowledge_incident(p)
    PROVE  IncidentsInv'
<1>1. CallTyped(calls[p]) /\ calls[p].op = "acknowledge" /\ UNCHANGED <<upsert, acts, losses>>
  BY TypedCalls DEF acknowledge_incident
<1>2. CASE calls[p].at = "read"
  <2>1. UNCHANGED rows
    BY <1>2 DEF acknowledge_incident
  <2>2. CASE Answer(p)
    BY <1>1, <1>2, <2>1, <2>2, MoveOnKeeps
  <2>3. CASE ~Answer(p)
    <3>1. PICK i \in DOMAIN rows : i = calls[p].inc
      BY <1>1, <1>2 DEF CallTyped
    <3>2. PICK c : c = [calls[p] EXCEPT !.at = "write", !.ack = rows[i].ack]
      OBVIOUS
    <3>3. calls' = [calls EXCEPT ![p] = c]
      BY <1>2, <2>3, <3>1, <3>2 DEF acknowledge_incident
    <3>4. rows[i] \in IncidentRow
      BY <3>1 DEF IncidentsInv, IncidentsTypeOK
    <3>5. CallTyped(c) /\ c.inc = i /\ c.ack = rows[i].ack
      BY <1>1, <3>1, <3>2, <3>4 DEF CallTyped, IncidentRow
    <3>6. c.ack # "none" => (losses = 0 => AckDue(c.inc, c.ack))
      BY <3>1, <3>5 DEF IncidentsInv, EventsAreDue
    <3>7. RowsMove /\ rows' \in Seq(IncidentRow) /\ acts' \in Nat
      BY <1>1, <2>1, NothingMoves DEF IncidentsInv, IncidentsTypeOK
    <3>8. QED
      BY <1>1, <1>2, <2>1, <3>3, <3>5, <3>6, <3>7, RequestKeeps
  <2>4. QED
    BY <2>2, <2>3
<1>3. CASE calls[p].at = "write"
  <2>1. PICK i \in DOMAIN rows : i = calls[p].inc
    BY <1>1, <1>3 DEF CallTyped
  <2>2. rows \in Seq(IncidentRow) /\ rows[i] \in IncidentRow
    BY <2>1 DEF IncidentsInv, IncidentsTypeOK
  <2>3. PICK a : a = IF calls[p].ack = "none" THEN calls[p].actor ELSE calls[p].ack
    OBVIOUS
  <2>4. PICK r : r = [rows[i] EXCEPT !.status = "acknowledged", !.ack = a]
    OBVIOUS
  <2>5. rows' = [SetStatus(i, "acknowledged") EXCEPT ![i].ack = a] /\ Goto(p, "event")
    BY <1>3, <2>1, <2>3 DEF acknowledge_incident
  <2>6. rows' = [rows EXCEPT ![i] = r]
    BY <2>2, <2>4, <2>5 DEF SetStatus, Ended, IncidentRow
  <2>7. /\ r \in IncidentRow /\ r.rule = rows[i].rule /\ r.log = rows[i].log
        /\ r.closed = rows[i].closed /\ r.dated = rows[i].dated /\ r.linked = rows[i].linked
        /\ r.status = "acknowledged" /\ r.ack = a
    BY <1>1, <2>2, <2>3, <2>4 DEF IncidentRow, IncidentStatuses, CallTyped
  <2>8. EventOf(calls[p]) = "acknowledged" /\ EventType(r.status) = "acknowledged"
    BY <1>1, <2>7 DEF EventOf, EventType
  <2>9. \/ EventOf(calls[p]) = "acknowledged" /\ r.ack = calls[p].actor
        \/ calls[p].op = "acknowledge" /\ r.ack = calls[p].ack /\ r.ack # "none"
    BY <1>1, <2>3, <2>7, <2>8
  <2>10. QED
    BY <1>1, <1>3, <2>1, <2>5, <2>6, <2>7, <2>8, <2>9, RequestWriteKeeps DEF Ended
<1>4. CASE calls[p].at = "event"
  <2>1. rows' = AddEvent(calls[p].inc, EventOf(calls[p]), calls[p].actor) /\ Answer(p)
    BY <1>1, <1>4 DEF acknowledge_incident, EventOf
  <2>2. QED
    BY <1>1, <1>4, <2>1, RequestEventKeeps
<1>5. QED
  BY <1>2, <1>3, <1>4 DEF acknowledge_incident

(* update_incident_status: the three forms of the UPDATE.                  *)
LEMMA StatusKeeps ==
    ASSUME IncidentsInv, NEW p \in Responders, update_incident_status(p)
    PROVE  IncidentsInv'
<1>1. CallTyped(calls[p]) /\ calls[p].op = "status" /\ UNCHANGED <<upsert, acts, losses>>
  BY TypedCalls DEF update_incident_status
<1>2. CASE calls[p].at = "read"
  BY <1>1, <1>2, MoveOnKeeps DEF update_incident_status
<1>3. CASE calls[p].at = "write"
  <2>1. PICK i \in DOMAIN rows, s \in IncidentStatuses :
           i = calls[p].inc /\ s = calls[p].status
    BY <1>1, <1>3 DEF CallTyped
  <2>2. rows \in Seq(IncidentRow) /\ rows[i] \in IncidentRow
    BY <2>1 DEF IncidentsInv, IncidentsTypeOK
  <2>3. rows' = StatusUpdate(i, s, calls[p].actor) /\ Goto(p, "event")
    BY <1>3, <2>1 DEF update_incident_status
  <2>4. PICK a : a = Coalesce(i, calls[p].actor)
    OBVIOUS
  <2>5. /\ a \in Actors /\ (a = rows[i].ack \/ a = calls[p].actor)
    BY <1>1, <2>2, <2>4 DEF Coalesce, CallTyped, IncidentRow
  <2>6. EventOf(calls[p]) = EventType(s)
    BY <1>1, <2>1 DEF EventOf
  <2>7. CASE s = "resolved"
    <3>1. PICK r : r = [rows[i] EXCEPT !.status = s, !.closed = TRUE, !.dated = TRUE]
      OBVIOUS
    <3>2. rows' = [rows EXCEPT ![i] = r]
      BY <2>2, <2>3, <2>7, <3>1 DEF StatusUpdate, SetStatus, Ended, IncidentRow
    <3>3. /\ r \in IncidentRow /\ r.rule = rows[i].rule /\ r.log = rows[i].log
          /\ r.closed /\ r.dated /\ r.linked = rows[i].linked
          /\ r.status = s /\ r.ack = rows[i].ack
      BY <2>2, <3>1 DEF IncidentRow
    <3>4. QED
      BY <1>1, <1>3, <2>1, <2>3, <2>6, <2>7, <3>2, <3>3, RequestWriteKeeps DEF Ended
  <2>8. CASE s = "acknowledged"
    <3>1. PICK r : r = [rows[i] EXCEPT !.status = s, !.ack = a]
      OBVIOUS
    <3>2. rows' = [rows EXCEPT ![i] = r]
      BY <2>2, <2>3, <2>4, <2>8, <3>1 DEF StatusUpdate, SetStatus, Ended, IncidentRow
    <3>3. /\ r \in IncidentRow /\ r.rule = rows[i].rule /\ r.log = rows[i].log
          /\ r.closed = rows[i].closed /\ r.dated = rows[i].dated /\ r.linked = rows[i].linked
          /\ r.status = s /\ r.ack = a
      BY <2>2, <2>5, <3>1 DEF IncidentRow
    <3>4. EventOf(calls[p]) = "acknowledged"
      BY <2>6, <2>8 DEF EventType
    <3>5. QED
      BY <1>1, <1>3, <2>1, <2>3, <2>5, <2>6, <2>8, <3>2, <3>3, <3>4, RequestWriteKeeps
      DEF Ended
  <2>9. CASE s # "resolved" /\ s # "acknowledged"
    <3>1. PICK r : r = [rows[i] EXCEPT !.status = s, !.closed = rows[i].closed \/ s \in Ended]
      OBVIOUS
    <3>2. rows' = [rows EXCEPT ![i] = r]
      <4>1. rows' = SetStatus(i, s)
        BY <2>3, <2>9 DEF StatusUpdate
      <4>2. QED
        BY <3>1, <4>1 DEF SetStatus
    <3>3. /\ r \in IncidentRow /\ r.rule = rows[i].rule /\ r.log = rows[i].log
          /\ r.dated = rows[i].dated /\ r.linked = rows[i].linked
          /\ r.status = s /\ r.ack = rows[i].ack
      BY <2>2, <3>1 DEF IncidentRow
    <3>4. /\ r.closed <=> (rows[i].closed \/ r.status \in Ended)
          /\ rows[i].dated => r.dated
          /\ r.dated => rows[i].dated \/ r.status = "resolved"
          /\ r.status = "resolved" => r.dated
          /\ r.status = rows[i].status \/ EventOf(calls[p]) = EventType(r.status)
          /\ r \in IncidentRow /\ r.rule = rows[i].rule /\ r.log = rows[i].log
          /\ r.linked = rows[i].linked /\ r.ack = rows[i].ack
      BY <2>2, <2>6, <2>9, <3>1, <3>3 DEF IncidentRow
    <3>5. i = calls[p].inc /\ UNCHANGED <<upsert, acts, losses>> /\ Goto(p, "event")
      BY <1>1, <2>1, <2>3
    <3>6. QED
      BY <1>3, <3>2, <3>4, <3>5, RequestWriteKeeps
  <2>10. QED
    BY <2>7, <2>8, <2>9
<1>4. CASE calls[p].at = "event"
  <2>1. rows' = AddEvent(calls[p].inc, EventOf(calls[p]), calls[p].actor) /\ Answer(p)
    BY <1>1, <1>4 DEF update_incident_status, EventOf
  <2>2. QED
    BY <1>1, <1>4, <2>1, RequestEventKeeps
<1>5. QED
  BY <1>2, <1>3, <1>4 DEF update_incident_status

(* Comments and links.                                                     *)
LEMMA CommentKeeps ==
    ASSUME IncidentsInv, NEW p \in Responders, add_incident_comment(p)
    PROVE  IncidentsInv'
<1>1. CallTyped(calls[p]) /\ calls[p].op = "comment" /\ UNCHANGED <<upsert, acts, losses>>
  BY TypedCalls DEF add_incident_comment
<1>2. CASE calls[p].at \in {"read", "touch"}
  <2>1. /\ UNCHANGED rows
        /\ Answer(p) \/ (Goto(p, "event") /\ calls[p].at = "read")
    BY <1>2 DEF add_incident_comment
  <2>2. QED
    BY <1>1, <1>2, <2>1, MoveOnKeeps
<1>3. CASE calls[p].at = "event"
  <2>1. rows' = AddEvent(calls[p].inc, EventOf(calls[p]), calls[p].actor) /\ Goto(p, "touch")
    BY <1>1, <1>3 DEF add_incident_comment, EventOf
  <2>2. QED
    BY <1>1, <1>3, <2>1, RequestEventKeeps
<1>4. QED
  BY <1>2, <1>3 DEF add_incident_comment

(* A deployment that is linked to an incident keeps the invariant.         *)
LEMMA LinkKeeps ==
    ASSUME IncidentsInv, NEW p \in Responders, link_incident_deployment(p)
    PROVE  IncidentsInv'
<1>1. CallTyped(calls[p]) /\ calls[p].op = "link" /\ UNCHANGED <<upsert, acts, losses>>
  BY TypedCalls DEF link_incident_deployment
<1>2. CASE calls[p].at = "read"
  BY <1>1, <1>2, MoveOnKeeps DEF link_incident_deployment
<1>3. CASE calls[p].at = "write"
  <2>1. PICK i \in DOMAIN rows : i = calls[p].inc
    BY <1>1, <1>3 DEF CallTyped
  <2>2. rows \in Seq(IncidentRow) /\ rows[i] \in IncidentRow
    BY <2>1 DEF IncidentsInv, IncidentsTypeOK
  <2>3. PICK r : r = [rows[i] EXCEPT !.linked = TRUE]
    OBVIOUS
  <2>4. rows' = [rows EXCEPT ![i] = r] /\ Goto(p, "event")
    BY <1>3, <2>1, <2>2, <2>3 DEF link_incident_deployment
  <2>5. /\ r \in IncidentRow /\ r.rule = rows[i].rule /\ r.log = rows[i].log
        /\ r.closed = rows[i].closed /\ r.dated = rows[i].dated
        /\ r.status = rows[i].status /\ r.ack = rows[i].ack
    BY <2>2, <2>3 DEF IncidentRow
  <2>6. EventOf(calls[p]) = "deployment_linked"
    BY <1>1 DEF EventOf
  <2>7. /\ rows[i].status \in Ended => rows[i].closed
        /\ rows[i].status = "resolved" => rows[i].dated
    BY <2>1 DEF IncidentsInv, EndsAreMarked, ResolutionIsDated
  <2>8. QED
    BY <1>1, <1>3, <2>1, <2>4, <2>5, <2>6, <2>7, RequestWriteKeeps
<1>4. CASE calls[p].at = "event"
  <2>1. rows' = AddEvent(calls[p].inc, EventOf(calls[p]), calls[p].actor) /\ Answer(p)
    BY <1>1, <1>4 DEF link_incident_deployment, EventOf
  <2>2. QED
    BY <1>1, <1>4, <2>1, RequestEventKeeps
<1>5. QED
  BY <1>2, <1>3, <1>4 DEF link_incident_deployment

(* A statement fails: what it has left due is no longer promised.          *)
LEMMA FailureKeeps ==
    ASSUME IncidentsInv, StatementFails
    PROVE  IncidentsInv'
<1>1. UNCHANGED <<rows, acts>> /\ losses' = losses + 1 /\ losses \in Nat
  BY DEF StatementFails, IncidentsInv, IncidentsTypeOK
<1>2. EventsAreDue'
  BY <1>1 DEF EventsAreDue
<1>3. upsert' \in {upsert, NoUpsert}
  BY DEF StatementFails
<1>4. InsertIsNeeded'
  BY <1>1, <1>3 DEF InsertIsNeeded, NoUpsert, IncidentsInv
<1>5. EndsAreMarked' /\ ResolutionIsDated' /\ DuplicatesWereReopened'
  BY <1>1 DEF IncidentsInv, EndsAreMarked, ResolutionIsDated, DuplicatesWereReopened
<1>6. calls' \in RequestTable /\ \A p \in Responders : CallTyped(calls'[p])
  <2>1. CASE calls' = calls
    BY <2>1, TypedCalls
  <2>2. CASE \E p \in Responders : calls' = [calls EXCEPT ![p] = NoRequest]
    <3>1. CallTyped(NoRequest)
      BY DEF CallTyped, NoRequest, IncidentStatuses, Actors
    <3>2. QED
      BY <2>2, <3>1, TypedCalls DEF CallTyped, RequestTable
  <2>3. QED
    BY <2>1, <2>2 DEF StatementFails, Answer
<1>7. UpsertTyped(upsert')
  <2>1. UpsertTyped(NoUpsert)
    BY DEF UpsertTyped, NoUpsert
  <2>2. UpsertTyped(upsert)
    BY DEF UpsertTyped, IncidentsInv, IncidentsTypeOK
  <2>3. QED
    BY <1>3, <2>1, <2>2
<1>8. IncidentsTypeOK'
  <2>1. rows' \in Seq(IncidentRow) /\ DOMAIN rows' = DOMAIN rows /\ acts' \in Nat /\ losses' \in Nat
    BY <1>1 DEF IncidentsInv, IncidentsTypeOK
  <2>2. calls' \in RequestTable
        /\ \A p \in Responders : calls'[p].at # "idle" => calls'[p].inc \in DOMAIN rows'
    BY <1>6, <2>1 DEF CallTyped
  <2>3. QED
    BY <1>7, <2>1, <2>2 DEF IncidentsTypeOK, UpsertTyped, RequestTable
<1>9. QED
  BY <1>2, <1>4, <1>5, <1>8 DEF IncidentsInv

(* Every step keeps the invariant.                                         *)
LEMMA IncidentStepKeeps ==
    ASSUME IncidentsInv, [InNext]_inVars
    PROVE  IncidentsInv'
<1>1. CASE UNCHANGED inVars
  <2>1. UNCHANGED <<rows, upsert, calls, acts, losses>>
    BY <1>1 DEF inVars
  <2>2. IncidentsTypeOK'
    BY <2>1 DEF IncidentsInv, IncidentsTypeOK
  <2>3. DuplicatesWereReopened' /\ ResolutionIsDated' /\ EndsAreMarked' /\ InsertIsNeeded'
    BY <2>1 DEF IncidentsInv, DuplicatesWereReopened, ResolutionIsDated, EndsAreMarked, InsertIsNeeded
  <2>4. EventsAreDue'
    BY <2>1 DEF IncidentsInv, EventsAreDue, Due, AckDue, Written
  <2>5. QED
    BY <2>2, <2>3, <2>4 DEF IncidentsInv
<1>2. CASE upsert_incident_from_firing
  BY <1>2, InsertKeeps, WorkerEventKeeps DEF upsert_incident_from_firing
<1>3. CASE resolve_incident_for_firing
  BY <1>3, WorkerResolveKeeps, WorkerEventKeeps DEF resolve_incident_for_firing
<1>4. ASSUME NEW p \in Responders, NEW k \in DOMAIN rows, NEW given \in Payloads,
             \/ handle_acknowledge_incident(p, k, given)
             \/ \E s \in IncidentStatuses : handle_update_incident_status(p, k, s, given)
             \/ handle_resolve_incident(p, k, given)
             \/ handle_add_incident_comment(p, k, given)
             \/ handle_link_incident_deployment(p, k, given)
      PROVE  IncidentsInv'
  <2>1. PICK op \in {"acknowledge", "status", "comment", "link"}, s \in IncidentStatuses :
           BeginRequest(p, op, k, s, given)
    BY <1>4 DEF handle_acknowledge_incident, handle_update_incident_status,
       handle_resolve_incident, handle_add_incident_comment, handle_link_incident_deployment,
       IncidentStatuses
  <2>2. QED
    BY <2>1, BeginKeeps
<1>5. ASSUME NEW p \in Responders,
             \/ acknowledge_incident(p) \/ update_incident_status(p)
             \/ add_incident_comment(p) \/ link_incident_deployment(p)
      PROVE  IncidentsInv'
  BY <1>5, AcknowledgeKeeps, StatusKeeps, CommentKeeps, LinkKeeps
<1>6. QED
  BY <1>1, <1>2, <1>3, <1>4, <1>5, WorkerKeeps, FailureKeeps DEF InNext

(* There is no incident, and nobody is at work, when it begins.            *)
LEMMA IncidentsStart == InInit => IncidentsInv
<1> SUFFICES ASSUME InInit PROVE IncidentsInv
  OBVIOUS
<1>1. rows = <<>> /\ DOMAIN rows = {}
  BY DEF InInit
<1>2. IncidentsTypeOK
  BY <1>1 DEF InInit, IncidentsTypeOK, NoUpsert, NoRequest, IncidentStatuses, Actors
<1>3. EventsAreDue
  BY <1>1 DEF InInit, EventsAreDue, NoRequest
<1>4. QED
  BY <1>1, <1>2, <1>3 DEF InInit, IncidentsInv, DuplicatesWereReopened, ResolutionIsDated,
     EndsAreMarked, InsertIsNeeded, NoUpsert

(* The timeline lags behind the row of an incident by no more than what    *)
(* the worker and the requests at work are about to add.                   *)
THEOREM IncidentsInvariant == InSpec => []IncidentsInv
<1>1. QED
  BY IncidentsStart, IncidentStepKeeps, PTL DEF InSpec

-----------------------------------------------------------------------------
(* The report: an incident without a time of resolution is open, and one   *)
(* with a time of resolution that is open has been closed before.          *)
LEMMA ReportCounts ==
    ASSUME IncidentsInv
    PROVE  ReportCountsIncidents
<1> DEFINE N == DOMAIN rows
           O == {k \in N : rows[k].status # "resolved"}
           D == {k \in N : rows[k].dated}
           B == {k \in N : rows[k].closed /\ rows[k].status # "resolved"}
<1>1. IsFiniteSet(N) /\ Cardinality(N) = Len(rows) /\ Len(rows) \in Nat
  <2>1. N = 1..Len(rows) /\ Len(rows) \in Nat
    BY DEF IncidentsInv, IncidentsTypeOK
  <2>2. PICK n \in Nat : n = Len(rows)
    BY <2>1
  <2>3. IsFiniteSet(1..n) /\ Cardinality(1..n) = n
    BY FS_Interval
  <2>4. QED
    BY <2>1, <2>2, <2>3
<1>2. O \union D = N /\ O \intersect D \subseteq B
  BY DEF IncidentsInv, ResolutionIsDated, EndsAreMarked
<1>3. IsFiniteSet(O) /\ IsFiniteSet(D) /\ IsFiniteSet(B)
  <2>1. O \subseteq N /\ D \subseteq N /\ B \subseteq N
    OBVIOUS
  <2> HIDE DEF N, O, D, B
  <2>2. QED
    BY <1>1, <2>1, FS_Subset
<1> HIDE DEF N, O, D, B
<1>4. Cardinality(O \union D)
        = Cardinality(O) + Cardinality(D) - Cardinality(O \intersect D)
  BY <1>3, FS_Union
<1>5. /\ Cardinality(O \intersect D) <= Cardinality(B)
      /\ Cardinality(O \intersect D) \in Nat /\ Cardinality(B) \in Nat
      /\ Cardinality(O) \in Nat /\ Cardinality(D) \in Nat
  <2>1. IsFiniteSet(O \intersect D)
    BY <1>2, <1>3, FS_Subset
  <2>2. QED
    BY <1>2, <1>3, <2>1, FS_Subset, FS_CardinalityType
<1>6. /\ Cardinality(O) + Cardinality(D) >= Len(rows)
      /\ Cardinality(O) + Cardinality(D) - Len(rows) <= Cardinality(B)
  <2>1. Cardinality(O \union D) = Len(rows)
    BY <1>1, <1>2
  <2>2. QED
    BY <1>1, <1>4, <1>5, <2>1
<1>7. QED
  BY <1>6 DEF ReportCountsIncidents, compute_incident_summary, N, O, D, B

(* Once nobody is at work and no statement has failed, nothing is due.     *)
LEMMA TimelineIsComplete ==
    ASSUME IncidentsInv
    PROVE  TimelineExplains
<1> SUFFICES ASSUME losses = 0, upsert = NoUpsert, \A p \in Responders : calls[p] = NoRequest,
                    NEW k \in DOMAIN rows
             PROVE  /\ Written(k, "triggered")
                    /\ rows[k].status # "triggered" => Written(k, EventType(rows[k].status))
                    /\ rows[k].ack # "none" => <<"acknowledged", rows[k].ack>> \in rows[k].log
                    /\ rows[k].linked => Written(k, "deployment_linked")
  BY DEF TimelineExplains
<1>1. \A type : Due(k, type) => Written(k, type)
  BY DEF Due, NoUpsert, NoRequest
<1>2. \A actor : AckDue(k, actor) => <<"acknowledged", actor>> \in rows[k].log
  BY DEF AckDue, NoRequest
<1>3. QED
  BY <1>1, <1>2 DEF IncidentsInv, EventsAreDue

(* Two open incidents of a rule are a reopened one and another; what is    *)
(* resolved is dated; the timeline explains the row, and the reliability   *)
(* report counts every incident.                                           *)
THEOREM IncidentsConsistent == InSpec => []IncidentRecordsAgree
<1>1. IncidentsInv => IncidentRecordsAgree
  BY ReportCounts, TimelineIsComplete DEF IncidentsInv, IncidentRecordsAgree
<1>2. QED
  BY <1>1, IncidentsInvariant, PTL

-----------------------------------------------------------------------------
(***************************************************************************)
(* Deployment markers.                                                     *)
(***************************************************************************)
(* A marker stays, for the tenant and the version it was made for.         *)
MarkersStay ==
    \A d \in DeploymentIds :
        markers[d] # NoMarker =>
            /\ markers'[d] # NoMarker
            /\ markers'[d].tenant = markers[d].tenant
            /\ markers'[d].version = markers[d].version

(* So an event that is real stays real.                                    *)
LEMMA RealEventsStay ==
    ASSUME MarkersStay, NEW e, Real(e)
    PROVE  Real(e)'
BY DEF MarkersStay, Real

(* A real event of a marker differs from the one that stands for none.     *)
LEMMA RealIsNoNothing ==
    ASSUME NEW e, Real(e)
    PROVE  e # NoEvent
BY DEF Real, NoEvent, MarkerStatuses, ActiveStatuses, FinalStatuses

(* Events stay real while each is copied from a marker or from another event. *)
LEMMA EventsStayReal ==
    ASSUME DeploymentsInv, MarkersStay,
           \A p \in Publishers :
              publishing'[p] \in {publishing[p], NoEvent} \/ Real(publishing[p])',
           \A i \in DOMAIN markerLog' :
              (i \in DOMAIN markerLog /\ markerLog'[i] = markerLog[i]) \/ Real(markerLog[i])',
           \A g \in Gateways, d \in DeploymentIds :
              \/ registry'[g][d] \in {registry[g][d], NoEvent}
              \/ Real(registry[g][d])' /\ registry'[g][d].id = d
    PROVE  EventsAreReal'
<1>1. EventsAreReal
  BY DEF DeploymentsInv
<1>2. ASSUME NEW p \in Publishers
      PROVE  publishing'[p] = NoEvent \/ Real(publishing[p])'
  <2>1. PICK e : e = publishing'[p]
    OBVIOUS
  <2>2. e = publishing[p] => e = NoEvent \/ Real(e)'
    BY <1>1, RealEventsStay DEF EventsAreReal
  <2>3. QED
    BY <2>1, <2>2
<1>3. ASSUME NEW i \in DOMAIN markerLog'
      PROVE  Real(markerLog[i])'
  <2>1. PICK e : e = markerLog'[i]
    OBVIOUS
  <2>2. i \in DOMAIN markerLog /\ e = markerLog[i] => Real(e)'
    BY <1>1, RealEventsStay DEF EventsAreReal
  <2>3. QED
    BY <2>1, <2>2
<1>4. ASSUME NEW g \in Gateways, NEW d \in DeploymentIds
      PROVE  registry'[g][d] = NoEvent \/ (Real(registry[g][d])' /\ registry'[g][d].id = d)
  <2>1. PICK e : e = registry'[g][d]
    OBVIOUS
  <2>2. e = registry[g][d] => e = NoEvent \/ (Real(e)' /\ e.id = d)
    BY <1>1, RealEventsStay DEF EventsAreReal
  <2>3. QED
    BY <2>1, <2>2
<1>5. QED
  BY <1>2, <1>3, <1>4 DEF EventsAreReal

(* The status of a deployment that a step does not concern.                *)
LEMMA StaysOnItsWay ==
    ASSUME NEW d \in DeploymentIds, OnItsWay(d),
           UNCHANGED <<markerLog, position, owner, registry>>,
           markers'[d].status = markers[d].status,
           \A p \in Publishers : publishing'[p] = publishing[p]
                                 \/ (~Pending(p, d) /\ ~Pending(p, d)')
    PROVE  OnItsWay(d)'
<1>1. \A p \in Publishers : Pending(p, d)' <=> Pending(p, d)
  BY DEF Pending
<1>2. \A p \in Publishers : Pending(p, d) => publishing'[p] = publishing[p]
  OBVIOUS
<1>3. QED
  BY <1>1, <1>2 DEF OnItsWay

(* A request writes the row m of a deployment, and is about to publish it; *)
(* it is the only one, or the history says so.                             *)
LEMMA MarkerWriteKeeps ==
    ASSUME DeploymentsInv, NEW p \in Publishers, NEW d \in DeploymentIds, NEW m \in MarkerRow,
           publishing[p] = NoEvent, m.status \in MarkerStatuses,
           markers' = [markers EXCEPT ![d] = m],
           publishing' = [publishing EXCEPT ![p] = Event(d, m)],
           markers[d] # NoMarker => /\ m.tenant = markers[d].tenant
                                    /\ m.version = markers[d].version,
           clock' \in Nat, clock <= clock', m.started \in 1 .. clock',
           UNCHANGED <<markerLog, committed, position, owner, registry, stopped, restarts>>,
           finishes' \in Nat, disturbed' \in BOOLEAN,
           ~disturbed' => ~disturbed /\ \A q \in Publishers : ~Pending(q, d)
    PROVE  DeploymentsInv'
<1>1. DeploymentsTypeOK /\ EventsAreReal /\ StatusIsOnItsWay
  BY DEF DeploymentsInv
<1>2. m # NoMarker /\ clock \in Nat
  BY <1>1 DEF MarkerStatuses, ActiveStatuses, FinalStatuses, NoMarker, DeploymentsTypeOK
<1>3. PICK e : e = Event(d, m)
  OBVIOUS
<1>4. /\ e \in MarkerEvent /\ e.id = d /\ e.status = m.status /\ e.tenant = m.tenant
      /\ e.version = m.version /\ e # NoEvent
  BY <1>3 DEF Event, MarkerEvent, MarkerRow, NoEvent, MarkerStatuses, ActiveStatuses,
     FinalStatuses
<1>5. /\ markers'[d] = m /\ \A c \in DeploymentIds : c # d => markers'[c] = markers[c]
      /\ publishing'[p] = e /\ \A q \in Publishers : q # p => publishing'[q] = publishing[q]
  BY <1>1, <1>3 DEF DeploymentsTypeOK
<1>6. DeploymentsTypeOK'
  <2>1. markers' \in [DeploymentIds -> MarkerRow] /\ publishing' \in [Publishers -> MarkerEvent]
    BY <1>1, <1>3, <1>4 DEF DeploymentsTypeOK
  <2>2. \A c \in DeploymentIds : markers'[c] # NoMarker => markers'[c].started \in 1 .. clock'
    BY <1>1, <1>2, <1>5 DEF DeploymentsTypeOK, MarkerRow
  <2>3. QED
    BY <1>1, <2>1, <2>2 DEF DeploymentsTypeOK
<1>7. MarkersStay
  BY <1>2, <1>5 DEF MarkersStay
<1>8. EventsAreReal'
  <2>1. Real(publishing[p])'
    BY <1>2, <1>4, <1>5 DEF Real
  <2>2. \A q \in Publishers : publishing'[q] \in {publishing[q], NoEvent} \/ Real(publishing[q])'
    <3>1. SUFFICES ASSUME NEW q \in Publishers, q # p
                   PROVE  publishing'[q] = publishing[q]
      BY <2>1 DEF Real
    <3>2. QED
      BY <1>5, <3>1
  <2>3. QED
    BY <1>7, <2>2, EventsStayReal
<1>9. StatusIsOnItsWay'
  <2> SUFFICES ASSUME ~disturbed', NEW c \in DeploymentIds
               PROVE  OnItsWay(c)'
    BY DEF StatusIsOnItsWay
  <2>1. CASE c = d
    <3>1. \A q \in Publishers : Pending(q, d)' => q = p
      BY <1>5 DEF Pending
    <3>2. Pending(p, d)' /\ publishing'[p].status = markers'[d].status
      BY <1>4, <1>5 DEF Pending
    <3>3. QED
      BY <2>1, <3>1, <3>2 DEF OnItsWay
  <2>2. CASE c # d
    <3>1. ~Pending(p, c) /\ ~Pending(p, c)'
      BY <1>4, <1>5, <2>2 DEF Pending
    <3>2. QED
      BY <1>1, <1>5, <2>2, <3>1, StaysOnItsWay DEF StatusIsOnItsWay
  <2>3. QED
    BY <2>1, <2>2
<1>10. QED
  BY <1>6, <1>8, <1>9 DEF DeploymentsInv

(* create_deployment: the event of a deployment that nobody knows yet.     *)
LEMMA CreateDeploymentKeeps ==
    ASSUME DeploymentsInv, NEW p \in Publishers, NEW d \in DeploymentIds, NEW t \in Tenants,
           NEW v \in Versions, create_deployment(p, d, t, v)
    PROVE  DeploymentsInv'
<1>1. DeploymentsTypeOK /\ EventsAreReal
  BY DEF DeploymentsInv
<1>2. PICK m : m = [status |-> "in_progress", tenant |-> t, version |-> v,
                    started |-> clock + 1, finished |-> 0]
  OBVIOUS
<1>3. clock \in Nat /\ clock' = clock + 1 /\ clock' \in Nat /\ clock <= clock'
  BY <1>1 DEF create_deployment, DeploymentsTypeOK
<1>4. m \in MarkerRow /\ m.status \in MarkerStatuses /\ m.started \in 1 .. clock'
  BY <1>2, <1>3 DEF MarkerRow, MarkerStatuses, ActiveStatuses
<1>5. \A q \in Publishers : ~Pending(q, d)
  BY <1>1 DEF create_deployment, EventsAreReal, Real, Pending
<1>6. /\ publishing[p] = NoEvent /\ markers[d] = NoMarker
      /\ markers' = [markers EXCEPT ![d] = m]
      /\ publishing' = [publishing EXCEPT ![p] = Event(d, m)]
      /\ UNCHANGED <<markerLog, committed, position, owner, registry, stopped, restarts>>
      /\ finishes' \in Nat /\ disturbed' \in BOOLEAN /\ disturbed' = disturbed
  BY <1>1, <1>2 DEF create_deployment, DeploymentsTypeOK
<1>7. QED
  BY <1>3, <1>4, <1>5, <1>6, MarkerWriteKeeps

(* finish_deployment: two requests at once are what the history notes.     *)
LEMMA FinishDeploymentKeeps ==
    ASSUME DeploymentsInv, NEW p \in Publishers, NEW d \in DeploymentIds, NEW t \in Tenants,
           NEW status \in FinalStatuses, NEW at \in {1, clock},
           finish_deployment(p, d, t, status, at)
    PROVE  DeploymentsInv'
<1>1. DeploymentsTypeOK
  BY DEF DeploymentsInv
<1>2. PICK m : m = [markers[d] EXCEPT !.status = status, !.finished = at]
  OBVIOUS
<1>3. clock' \in Nat /\ clock <= clock' /\ clock' = clock /\ markers[d] \in MarkerRow /\ markers[d] # NoMarker
      /\ markers[d].started \in 1 .. clock
  BY <1>1 DEF finish_deployment, DeploymentsTypeOK
<1>4. /\ m \in MarkerRow /\ m.status \in MarkerStatuses /\ m.started \in 1 .. clock'
      /\ m.tenant = markers[d].tenant /\ m.version = markers[d].version
  <2>1. at \in Nat /\ status \in MarkerStatuses
    BY <1>3 DEF MarkerStatuses
  <2>2. /\ m.started = markers[d].started /\ m.status = status
        /\ m.tenant = markers[d].tenant /\ m.version = markers[d].version
    BY <1>2, <1>3 DEF MarkerRow
  <2>3. m \in MarkerRow
    BY <1>2, <1>3, <2>1 DEF MarkerRow
  <2>4. QED
    BY <1>3, <2>1, <2>2, <2>3
<1>5. ~disturbed' => ~disturbed /\ \A q \in Publishers : ~Pending(q, d)
  BY DEF finish_deployment, Racing, Pending
<1>6. /\ publishing[p] = NoEvent
      /\ markers' = [markers EXCEPT ![d] = m]
      /\ publishing' = [publishing EXCEPT ![p] = Event(d, m)]
      /\ UNCHANGED <<markerLog, committed, position, owner, registry, stopped, restarts>>
      /\ finishes' \in Nat /\ disturbed' \in BOOLEAN
  BY <1>1, <1>2 DEF finish_deployment, DeploymentsTypeOK
<1>7. QED
  BY <1>3, <1>4, <1>5, <1>6, MarkerWriteKeeps

(* publish_deployment_event: the last event of the deployment from now on. *)
LEMMA PublishKeeps ==
    ASSUME DeploymentsInv, NEW p \in Publishers, publish_deployment_event(p)
    PROVE  DeploymentsInv'
<1>1. DeploymentsTypeOK /\ EventsAreReal /\ StatusIsOnItsWay
  BY DEF DeploymentsInv
<1>2. PICK e : e = [publishing[p] EXCEPT !.started = clock']
  OBVIOUS
<1>3. /\ publishing[p] # NoEvent /\ clock' = clock + 1 /\ markerLog' = Append(markerLog, e)
      /\ publishing' = [publishing EXCEPT ![p] = NoEvent]
      /\ UNCHANGED <<markers, committed, position, owner, registry, stopped, finishes, restarts,
                     disturbed>>
  BY <1>2 DEF publish_deployment_event
<1>4. clock' \in Nat /\ publishing[p] \in MarkerEvent /\ NoEvent \in MarkerEvent
  BY <1>1, <1>3 DEF DeploymentsTypeOK, MarkerEvent, NoEvent
<1>5. /\ e \in MarkerEvent /\ e.id = publishing[p].id /\ e.status = publishing[p].status
      /\ e.tenant = publishing[p].tenant /\ e.version = publishing[p].version
  BY <1>2, <1>4 DEF MarkerEvent
<1>6. Real(e)
  BY <1>1, <1>3, <1>5 DEF EventsAreReal, Real
<1>7. PICK n \in Nat : n = Len(markerLog)
  BY <1>1 DEF DeploymentsTypeOK
<1>8. /\ markerLog' \in Seq(MarkerEvent) /\ Len(markerLog') = n + 1 /\ markerLog'[n + 1] = e
      /\ DOMAIN markerLog' = 1 .. n + 1 /\ DOMAIN markerLog = 1 .. n
      /\ \A i \in 1 .. n : markerLog'[i] = markerLog[i]
  BY <1>1, <1>3, <1>5, <1>7 DEF DeploymentsTypeOK
<1>9. /\ publishing'[p] = NoEvent
      /\ \A q \in Publishers : q # p => publishing'[q] = publishing[q]
      /\ publishing' \in [Publishers -> MarkerEvent]
  BY <1>1, <1>3, <1>4 DEF DeploymentsTypeOK
<1>10. DeploymentsTypeOK'
  <2>1. position' \in Nat /\ position' <= Len(markerLog')
    BY <1>1, <1>3, <1>7, <1>8 DEF DeploymentsTypeOK
  <2>2. \A d \in DeploymentIds : markers'[d] # NoMarker => markers'[d].started \in 1 .. clock'
    BY <1>1, <1>3 DEF DeploymentsTypeOK
  <2>3. QED
    BY <1>1, <1>3, <1>4, <1>8, <1>9, <2>1, <2>2 DEF DeploymentsTypeOK
<1>11. EventsAreReal'
  <2>1. MarkersStay
    BY <1>3 DEF MarkersStay
  <2>2. Real(e)'
    BY <1>6, <2>1, RealEventsStay
  <2>3. \A i \in DOMAIN markerLog' :
           (i \in DOMAIN markerLog /\ markerLog'[i] = markerLog[i]) \/ Real(markerLog[i])'
    <3>1. ASSUME NEW i \in 1 .. n + 1, i \notin 1 .. n
          PROVE  Real(markerLog[i])'
      <4>1. i = n + 1 /\ markerLog'[i] = e
        BY <1>8, <3>1
      <4>2. QED
        BY <2>2, <4>1 DEF Real
    <3>2. QED
      BY <1>8, <3>1
  <2>4. QED
    BY <1>3, <1>9, <2>1, <2>3, EventsStayReal
<1>12. StatusIsOnItsWay'
  <2> SUFFICES ASSUME ~disturbed, NEW d \in DeploymentIds
               PROVE  OnItsWay(d)'
    BY <1>3 DEF StatusIsOnItsWay
  <2>1. OnItsWay(d)
    BY <1>1 DEF StatusIsOnItsWay
  <2>2. /\ ~Pending(p, d)'
        /\ \A q \in Publishers : q # p => (Pending(q, d)' <=> Pending(q, d))
    BY <1>9 DEF Pending
  <2>3. /\ \A q, r \in Publishers : Pending(q, d)' /\ Pending(r, d)' => q = r
        /\ \A q \in Publishers : Pending(q, d)' => publishing'[q].status = markers'[d].status
    BY <1>3, <1>9, <2>1, <2>2 DEF OnItsWay
  <2>4. position \in Nat /\ position <= n
    BY <1>1, <1>7 DEF DeploymentsTypeOK
  <2>5. ASSUME \A q \in Publishers : ~Pending(q, d)'
        PROVE  \/ /\ registry[owner][d].status = markers[d].status
                  /\ \A i \in position + 1 .. n + 1 : markerLog'[i].id # d
               \/ \E i \in position + 1 .. n + 1 :
                     /\ markerLog'[i].id = d /\ markerLog'[i].status = markers[d].status
                     /\ \A j \in i + 1 .. n + 1 : markerLog'[j].id # d
    <3>1. CASE e.id = d
      <4>1. Pending(p, d)
        BY <1>3, <1>5, <3>1 DEF Pending
      <4>2. e.status = markers[d].status
        BY <1>5, <2>1, <4>1 DEF OnItsWay
      <4>3. n + 1 \in position + 1 .. n + 1 /\ n + 1 + 1 .. n + 1 = {}
        BY <2>4
      <4>4. QED
        BY <1>8, <3>1, <4>2, <4>3
    <3>2. CASE e.id # d
      <4>1. \A q \in Publishers : ~Pending(q, d)
        BY <1>5, <2>2, <2>5, <3>2 DEF Pending
      <4>2. CASE /\ registry[owner][d].status = markers[d].status
                 /\ \A i \in position + 1 .. n : markerLog[i].id # d
        <5>1. \A i \in position + 1 .. n + 1 : i = n + 1 \/ (i \in position + 1 .. n /\ i \in 1 .. n)
          BY <2>4
        <5>2. \A i \in position + 1 .. n + 1 : markerLog'[i].id # d
          BY <1>8, <3>2, <4>2, <5>1
        <5>3. QED
          BY <4>2, <5>2
      <4>3. ASSUME NEW i \in position + 1 .. n,
                   markerLog[i].id = d, markerLog[i].status = markers[d].status,
                   \A j \in i + 1 .. n : markerLog[j].id # d
            PROVE  \E k \in position + 1 .. n + 1 :
                     /\ markerLog'[k].id = d /\ markerLog'[k].status = markers[d].status
                     /\ \A j \in k + 1 .. n + 1 : markerLog'[j].id # d
        <5>1. /\ i \in position + 1 .. n + 1 /\ i \in 1 .. n
              /\ \A j \in i + 1 .. n + 1 : j = n + 1 \/ (j \in i + 1 .. n /\ j \in 1 .. n)
          BY <2>4, <4>3
        <5>2. \A j \in i + 1 .. n + 1 : markerLog'[j].id # d
          BY <1>8, <3>2, <4>3, <5>1
        <5>3. QED
          BY <1>8, <4>3, <5>1, <5>2
      <4>4. QED
        BY <1>7, <2>1, <4>1, <4>2, <4>3 DEF OnItsWay
    <3>3. QED
      BY <3>1, <3>2
  <2>6. QED
    BY <1>3, <1>8, <2>3, <2>5 DEF OnItsWay
<1>13. QED
  BY <1>10, <1>11, <1>12 DEF DeploymentsInv

(* run_consumer: what it applies is what it knows.                         *)
LEMMA ConsumerKeeps ==
    ASSUME DeploymentsInv, NEW g \in Gateways, run_consumer(g)
    PROVE  DeploymentsInv'
<1>1. DeploymentsTypeOK /\ EventsAreReal /\ StatusIsOnItsWay
  BY DEF DeploymentsInv
<1>2. PICK e : e = markerLog[position + 1]
  OBVIOUS
<1>3. PICK n \in Nat : n = Len(markerLog)
  BY <1>1 DEF DeploymentsTypeOK
<1>4. /\ g = owner /\ position' = position + 1
      /\ registry' = [registry EXCEPT ![g] = [registry[g] EXCEPT ![e.id] = e]]
      /\ UNCHANGED <<markers, clock, publishing, markerLog, committed, owner, stopped, finishes,
                     restarts, disturbed>>
  BY <1>1, <1>2 DEF run_consumer, apply_event, DeploymentsTypeOK
<1>5. /\ position \in Nat /\ position + 1 \in 1 .. n /\ e \in MarkerEvent /\ Real(e)
      /\ DOMAIN markerLog = 1 .. n
  BY <1>1, <1>2, <1>3 DEF run_consumer, DeploymentsTypeOK, EventsAreReal
<1>6. e.id \in DeploymentIds
  BY <1>5 DEF Real
<1>7. /\ registry' \in [Gateways -> [DeploymentIds -> MarkerEvent]]
      /\ registry'[g][e.id] = e
      /\ \A h \in Gateways, d \in DeploymentIds :
            h # g \/ d # e.id => registry'[h][d] = registry[h][d]
  BY <1>1, <1>4, <1>5, <1>6 DEF DeploymentsTypeOK
<1>8. DeploymentsTypeOK'
  <2>1. position' \in Nat /\ committed <= position' /\ position' <= Len(markerLog)
    BY <1>1, <1>3, <1>4, <1>5 DEF DeploymentsTypeOK
  <2>2. QED
    BY <1>1, <1>4, <1>7, <2>1 DEF DeploymentsTypeOK
<1>9. EventsAreReal'
  <2>1. MarkersStay
    BY <1>4 DEF MarkersStay
  <2>2. Real(e)'
    BY <1>5, <2>1, RealEventsStay
  <2>3. \A h \in Gateways, d \in DeploymentIds :
           \/ registry'[h][d] \in {registry[h][d], NoEvent}
           \/ Real(registry[h][d])' /\ registry'[h][d].id = d
    <3>1. ASSUME NEW h \in Gateways, NEW d \in DeploymentIds, h = g, d = e.id
          PROVE  Real(registry[h][d])' /\ registry'[h][d].id = d
      <4>1. registry'[h][d] = e
        BY <1>7, <3>1
      <4>2. QED
        BY <2>2, <3>1, <4>1 DEF Real
    <3>2. QED
      BY <1>7, <3>1
  <2>4. QED
    BY <1>4, <2>1, <2>3, EventsStayReal
<1>10. StatusIsOnItsWay'
  <2> SUFFICES ASSUME ~disturbed, NEW d \in DeploymentIds
               PROVE  OnItsWay(d)'
    BY <1>4 DEF StatusIsOnItsWay
  <2>1. OnItsWay(d)
    BY <1>1 DEF StatusIsOnItsWay
  <2>2. \A q \in Publishers : Pending(q, d)' <=> Pending(q, d)
    BY <1>4 DEF Pending
  <2>3. ASSUME \A q \in Publishers : ~Pending(q, d)
        PROVE  \/ /\ registry'[g][d].status = markers[d].status
                  /\ \A i \in position + 1 + 1 .. n : markerLog[i].id # d
               \/ \E i \in position + 1 + 1 .. n :
                     /\ markerLog[i].id = d /\ markerLog[i].status = markers[d].status
                     /\ \A j \in i + 1 .. n : markerLog[j].id # d
    <3>1. CASE /\ registry[owner][d].status = markers[d].status
               /\ \A i \in position + 1 .. n : markerLog[i].id # d
      <4>1. e.id # d
        BY <1>2, <1>5, <3>1
      <4>2. \A i \in position + 1 + 1 .. n : i \in position + 1 .. n
        BY <1>5
      <4>3. QED
        BY <1>4, <1>7, <3>1, <4>1, <4>2
    <3>2. ASSUME NEW i \in position + 1 .. n,
                 markerLog[i].id = d, markerLog[i].status = markers[d].status,
                 \A j \in i + 1 .. n : markerLog[j].id # d
          PROVE  \/ /\ registry'[g][d].status = markers[d].status
                    /\ \A k \in position + 1 + 1 .. n : markerLog[k].id # d
                 \/ \E k \in position + 1 + 1 .. n :
                       /\ markerLog[k].id = d /\ markerLog[k].status = markers[d].status
                       /\ \A j \in k + 1 .. n : markerLog[j].id # d
      <4>1. CASE i = position + 1
        BY <1>2, <1>7, <3>2, <4>1
      <4>2. CASE i # position + 1
        <5>1. i \in position + 1 + 1 .. n
          BY <1>5, <3>2, <4>2
        <5>2. QED
          BY <3>2, <5>1
      <4>3. QED
        BY <4>1, <4>2
    <3>3. QED
      BY <1>3, <2>1, <2>3, <3>1, <3>2 DEF OnItsWay
  <2>4. QED
    BY <1>3, <1>4, <2>1, <2>2, <2>3 DEF OnItsWay
<1>11. QED
  BY <1>8, <1>9, <1>10 DEF DeploymentsInv

(* What is lost or forgotten is noted, and leaves real events.             *)
LEMMA DisturbanceKeeps ==
    ASSUME DeploymentsInv,
           \/ \E p \in Publishers : PublishFails(p)
           \/ \E g \in Gateways : ConsumerStops(g) \/ \E h \in Gateways : GatewayRestarts(g, h)
    PROVE  DeploymentsInv'
<1>1. DeploymentsTypeOK /\ EventsAreReal
  BY DEF DeploymentsInv
<1>2. /\ UNCHANGED <<markers, clock, markerLog, committed, finishes>> /\ disturbed' = TRUE
      /\ restarts' \in Nat /\ owner' \in Gateways /\ stopped' \subseteq Gateways
      /\ position' \in {position, committed}
  BY <1>1 DEF PublishFails, ConsumerStops, GatewayRestarts, DeploymentsTypeOK
<1>3. /\ publishing' \in [Publishers -> MarkerEvent]
      /\ \A p \in Publishers : publishing'[p] \in {publishing[p], NoEvent}
  <2>1. NoEvent \in MarkerEvent
    BY DEF NoEvent, MarkerEvent
  <2>2. publishing' = publishing \/ \E p \in Publishers : publishing' = [publishing EXCEPT ![p] = NoEvent]
    BY DEF PublishFails, ConsumerStops, GatewayRestarts
  <2>3. QED
    BY <1>1, <2>1, <2>2 DEF DeploymentsTypeOK
<1>4. /\ registry' \in [Gateways -> [DeploymentIds -> MarkerEvent]]
      /\ \A g \in Gateways, d \in DeploymentIds : registry'[g][d] \in {registry[g][d], NoEvent}
  <2>1. [d \in DeploymentIds |-> NoEvent] \in [DeploymentIds -> MarkerEvent]
    BY DEF NoEvent, MarkerEvent
  <2>2. \/ registry' = registry
        \/ \E g \in Gateways :
              registry' = [registry EXCEPT ![g] = [d \in DeploymentIds |-> NoEvent]]
    BY DEF PublishFails, ConsumerStops, GatewayRestarts
  <2>3. CASE registry' = registry
    BY <1>1, <2>3 DEF DeploymentsTypeOK
  <2>4. ASSUME NEW g \in Gateways,
               registry' = [registry EXCEPT ![g] = [d \in DeploymentIds |-> NoEvent]]
        PROVE  /\ registry' \in [Gateways -> [DeploymentIds -> MarkerEvent]]
               /\ \A h \in Gateways, d \in DeploymentIds :
                     registry'[h][d] \in {registry[h][d], NoEvent}
    BY <1>1, <2>1, <2>4 DEF DeploymentsTypeOK
  <2>5. QED
    BY <2>2, <2>3, <2>4
<1>5. DeploymentsTypeOK'
  <2>1. position' \in Nat /\ committed <= position' /\ position' <= Len(markerLog)
    BY <1>1, <1>2 DEF DeploymentsTypeOK
  <2>2. QED
    BY <1>1, <1>2, <1>3, <1>4, <2>1 DEF DeploymentsTypeOK
<1>6. EventsAreReal'
  <2>1. MarkersStay
    BY <1>2 DEF MarkersStay
  <2>2. QED
    BY <1>2, <1>3, <1>4, <2>1, EventsStayReal
<1>7. QED
  BY <1>2, <1>5, <1>6 DEF DeploymentsInv, StatusIsOnItsWay

(* Every step keeps the invariant.                                         *)
LEMMA DeploymentStepKeeps ==
    ASSUME DeploymentsInv, [DepNext]_depVars
    PROVE  DeploymentsInv'
<1>1. CASE UNCHANGED depVars
  BY <1>1 DEF depVars, DeploymentsInv, DeploymentsTypeOK, EventsAreReal, Real, StatusIsOnItsWay,
     OnItsWay, Pending
<1>2. CASE AutoCommit
  <2>1. /\ committed' = position
        /\ UNCHANGED <<markers, clock, publishing, markerLog, position, owner, registry, stopped,
                       finishes, restarts, disturbed>>
    BY <1>2 DEF AutoCommit
  <2>2. DeploymentsTypeOK'
    BY <2>1 DEF DeploymentsInv, DeploymentsTypeOK
  <2>3. QED
    BY <2>1, <2>2 DEF DeploymentsInv, EventsAreReal, Real, StatusIsOnItsWay, OnItsWay, Pending
<1>3. ASSUME NEW p \in Publishers, NEW d \in DeploymentIds, NEW t \in Tenants,
             \/ \E v \in Versions : create_deployment(p, d, t, v)
             \/ \E status \in FinalStatuses, at \in {1, clock} :
                   finish_deployment(p, d, t, status, at)
      PROVE  DeploymentsInv'
  BY <1>3, CreateDeploymentKeeps, FinishDeploymentKeeps
<1>4. CASE \E p \in Publishers : publish_deployment_event(p)
  BY <1>4, PublishKeeps
<1>5. CASE \E g \in Gateways : run_consumer(g)
  BY <1>5, ConsumerKeeps
<1>6. CASE \/ \E p \in Publishers : PublishFails(p)
           \/ \E g \in Gateways : ConsumerStops(g) \/ \E h \in Gateways : GatewayRestarts(g, h)
  BY <1>6, DisturbanceKeeps
<1>7. QED
  BY <1>1, <1>2, <1>3, <1>4, <1>5, <1>6 DEF DepNext

(* The invariant of deployments holds before the first marker.             *)
LEMMA DeploymentsStart == DepInit => DeploymentsInv
<1> SUFFICES ASSUME DepInit PROVE DeploymentsInv
  OBVIOUS
<1>1. DeploymentsTypeOK
  <2>1. NoMarker \in MarkerRow /\ NoEvent \in MarkerEvent
    BY DEF NoMarker, NoEvent, MarkerRow, MarkerEvent
  <2>2. markerLog = <<>> /\ Len(markerLog) = 0 /\ markerLog \in Seq(MarkerEvent)
    BY DEF DepInit
  <2>3. markers \in [DeploymentIds -> MarkerRow] /\ \A d \in DeploymentIds : markers[d] = NoMarker
    BY <2>1 DEF DepInit
  <2>4. publishing \in [Publishers -> MarkerEvent]
    BY <2>1 DEF DepInit
  <2>5. registry \in [Gateways -> [DeploymentIds -> MarkerEvent]]
    BY <2>1 DEF DepInit
  <2>6. /\ clock = 0 /\ finishes = 0 /\ restarts = 0 /\ committed = 0 /\ position = 0
        /\ owner \in Gateways /\ stopped \subseteq Gateways
    BY DEF DepInit
  <2>7. disturbed \in BOOLEAN
    BY DEF DepInit
  <2>8. /\ clock \in Nat /\ finishes \in Nat /\ restarts \in Nat /\ committed \in Nat
        /\ position \in Nat /\ committed <= position /\ position <= Len(markerLog)
    BY <2>2, <2>6
  <2>9. QED
    BY <2>2, <2>3, <2>4, <2>5, <2>6, <2>7, <2>8 DEF DeploymentsTypeOK
<1>2. EventsAreReal
  BY DEF DepInit, EventsAreReal
<1>3. StatusIsOnItsWay
  BY DEF DepInit, StatusIsOnItsWay, OnItsWay, Pending, NoMarker, NoEvent
<1>4. QED
  BY <1>1, <1>2, <1>3 DEF DeploymentsInv

(* Every event is of a real deployment, and without losses the status of a *)
(* deployment is on its way to the registry, or there.                     *)
THEOREM DeploymentsInvariant == DepSpec => []DeploymentsInv
<1>1. QED
  BY DeploymentsStart, DeploymentStepKeeps, PTL DEF DepSpec

-----------------------------------------------------------------------------
(* A span is stamped with what the registry matched, which is real.        *)
LEMMA LookupsAreReal ==
    ASSUME DeploymentsInv
    PROVE  StampsAreReal
<1> SUFFICES ASSUME NEW g \in Gateways, NEW t \in Tenants, NEW v \in Versions \union {AnyVersion},
                    NEW d \in lookup(g, t, v)
             PROVE  /\ markers[d] # NoMarker /\ markers[d].tenant = t
                    /\ v \in {AnyVersion, markers[d].version}
  BY DEF StampsAreReal
<1>1. d \in Matching(registry[g], t, v)
  BY DEF lookup, LatestOf
<1>2. /\ d \in DeploymentIds /\ registry[g][d].tenant = t
      /\ v \in {AnyVersion, registry[g][d].version}
  BY <1>1 DEF Matching
<1>3. registry[g][d] # NoEvent
  BY <1>2, TenancyAssumption DEF NoEvent
<1>4. QED
  BY <1>2, <1>3 DEF DeploymentsInv, EventsAreReal, Real

(* With nothing on its way any more, the registry has arrived.             *)
LEMMA RegistryArrives ==
    ASSUME DeploymentsInv
    PROVE  RegistryFollowsMarkers
<1> SUFFICES ASSUME \A p \in Publishers : publishing[p] = NoEvent, position = Len(markerLog),
                    ~disturbed, NEW d \in DeploymentIds
             PROVE  registry[owner][d].status = markers[d].status
  BY DEF RegistryFollowsMarkers, CaughtUp
<1>1. OnItsWay(d) /\ \A p \in Publishers : ~Pending(p, d)
  BY DEF DeploymentsInv, StatusIsOnItsWay, Pending
<1>2. position + 1 .. Len(markerLog) = {}
  <2>1. position \in Nat
    BY DEF DeploymentsInv, DeploymentsTypeOK
  <2>2. QED
    BY <2>1
<1>3. QED
  BY <1>1, <1>2 DEF OnItsWay

(* The list, the catalog and the report read the same rows.                *)
LEMMA ViewsAgree ==
    ASSUME DeploymentsInv
    PROVE  DeploymentViewsAgree
<1>1. /\ clock \in Nat /\ IsFiniteSet(DeploymentIds)
      /\ \A d \in DeploymentIds : /\ markers[d].started \in Nat /\ markers[d].finished \in Nat
                                  /\ markers[d] # NoMarker => markers[d].started \in 1 .. clock
  BY DeploymentsAssumption DEF DeploymentsInv, DeploymentsTypeOK, MarkerRow
<1> SUFFICES ASSUME NEW t \in Tenants
             PROVE  /\ handle_deployment_enrichment(t)
                         = {markers[d].version : d \in list_deployments(t, 0, clock, 1)}
                    /\ \A from, to \in 0 .. clock : from <= to =>
                         LET listed   == list_deployments(t, from, to, Cardinality(DeploymentIds))
                             reported == handle_deployment_correlation(t, from, to)
                         IN /\ \A d \in listed \ reported :
                                  markers[d].finished \in 1 .. (markers[d].started - 1)
                            /\ \A d \in reported \ listed : markers[d].started < from
  BY DEF DeploymentViewsAgree
<1>2. handle_deployment_enrichment(t)
        = {markers[d].version : d \in list_deployments(t, 0, clock, 1)}
  <2> DEFINE E == {e \in DeploymentIds : markers[e] # NoMarker /\ markers[e].tenant = t}
             Later(d) == {e \in E : markers[e].started > markers[d].started}
  <2>1. list_deployments(t, 0, clock, 1) = {d \in E : Cardinality(Later(d)) < 1}
    <3>1. {d \in DeploymentIds : /\ markers[d] # NoMarker /\ markers[d].tenant = t
                                 /\ 0 <= markers[d].started /\ markers[d].started <= clock} = E
      BY <1>1
    <3>2. QED
      BY <3>1 DEF list_deployments
  <2>2. \A d \in E : Cardinality(Later(d)) < 1 <=> Later(d) = {}
    <3> SUFFICES ASSUME NEW d \in E PROVE Cardinality(Later(d)) < 1 <=> Later(d) = {}
      OBVIOUS
    <3>1. Later(d) \subseteq DeploymentIds
      OBVIOUS
    <3> HIDE DEF Later
    <3>2. IsFiniteSet(Later(d))
      BY <1>1, <3>1, FS_Subset
    <3>3. Cardinality(Later(d)) \in Nat /\ (Cardinality(Later(d)) = 0 <=> Later(d) = {})
      BY <3>2, FS_CardinalityType, FS_EmptySet
    <3>4. QED
      BY <3>3
  <2>3. \A d \in E : Later(d) = {} <=> \A e \in E : markers[e].started <= markers[d].started
    BY <1>1
  <2>4. list_deployments(t, 0, clock, 1)
          = {d \in E : \A e \in E : markers[e].started <= markers[d].started}
    BY <2>1, <2>2, <2>3
  <2>5. LatestOf(markers, E) = list_deployments(t, 0, clock, 1)
    BY <2>4 DEF LatestOf
  <2>6. QED
    BY <2>5 DEF handle_deployment_enrichment
<1>3. ASSUME NEW from \in 0 .. clock, NEW to \in 0 .. clock, from <= to
      PROVE  /\ \A d \in list_deployments(t, from, to, Cardinality(DeploymentIds))
                           \ handle_deployment_correlation(t, from, to) :
                   markers[d].finished \in 1 .. (markers[d].started - 1)
             /\ \A d \in handle_deployment_correlation(t, from, to)
                           \ list_deployments(t, from, to, Cardinality(DeploymentIds)) :
                   markers[d].started < from
  <2> DEFINE ds == {d \in DeploymentIds : /\ markers[d] # NoMarker /\ markers[d].tenant = t
                                          /\ from <= markers[d].started /\ markers[d].started <= to}
             Later(d) == {e \in ds : markers[e].started > markers[d].started}
  <2>1. list_deployments(t, from, to, Cardinality(DeploymentIds))
          = {d \in ds : Cardinality(Later(d)) < Cardinality(DeploymentIds)}
    BY DEF list_deployments
  <2>2. ASSUME NEW d \in ds
        PROVE  Cardinality(Later(d)) < Cardinality(DeploymentIds)
    <3>1. d \in DeploymentIds /\ Later(d) \subseteq DeploymentIds \ {d}
      BY <1>1
    <3> HIDE DEF Later, ds
    <3>2. /\ IsFiniteSet(DeploymentIds \ {d})
          /\ Cardinality(DeploymentIds \ {d}) = Cardinality(DeploymentIds) - 1
      BY <1>1, <3>1, FS_RemoveElement
    <3>3. Cardinality(Later(d)) <= Cardinality(DeploymentIds \ {d}) /\ IsFiniteSet(Later(d))
      BY <3>1, <3>2, FS_Subset
    <3>4. Cardinality(Later(d)) \in Nat /\ Cardinality(DeploymentIds) \in Nat
      BY <1>1, <3>3, FS_CardinalityType
    <3>5. QED
      BY <3>2, <3>3, <3>4
  <2>3. list_deployments(t, from, to, Cardinality(DeploymentIds)) = ds
    BY <2>1, <2>2
  <2>4. ASSUME NEW d \in ds, d \notin handle_deployment_correlation(t, from, to)
        PROVE  markers[d].finished \in 1 .. (markers[d].started - 1)
    <3>1. /\ d \in DeploymentIds /\ markers[d].finished # 0 /\ ~(markers[d].finished >= from)
          /\ from <= markers[d].started
      BY <2>4 DEF handle_deployment_correlation
    <3>2. markers[d].finished \in Nat /\ markers[d].started \in Nat /\ from \in Nat
      BY <1>1, <3>1
    <3>3. QED
      BY <3>1, <3>2
  <2>5. ASSUME NEW d \in handle_deployment_correlation(t, from, to), d \notin ds
        PROVE  markers[d].started < from
    <3>1. d \in DeploymentIds /\ ~(from <= markers[d].started)
      BY <2>5 DEF handle_deployment_correlation
    <3>2. markers[d].started \in Nat /\ from \in Nat
      BY <1>1, <3>1
    <3>3. QED
      BY <3>1, <3>2
  <2>6. QED
    BY <2>3, <2>4, <2>5
<1>4. QED
  BY <1>2, <1>3

(* Spans are stamped with real deployments of their tenant, the registry   *)
(* catches up with the markers, and the views of the markers agree.        *)
THEOREM RegistriesAreFaithful == DepSpec => []RegistryIsFaithful
<1>1. DeploymentsInv => RegistryIsFaithful
  BY LookupsAreReal, RegistryArrives, ViewsAgree DEF RegistryIsFaithful
<1>2. QED
  BY <1>1, DeploymentsInvariant, PTL

-----------------------------------------------------------------------------
(***************************************************************************)
(* The settings of the language model.                                     *)
(***************************************************************************)
(* The five fields that a request may carry.                               *)
LEMMA FiveFields ==
    KeySet = {"llm_api_key", "llm_url", "llm_model", "llm_provider", "webllm_model"}
<1>1. DOMAIN ConfigKeys = 1 .. 5 /\ 1 .. 5 = {1, 2, 3, 4, 5}
  BY DEF ConfigKeys
<1>2. /\ ConfigKeys[1] = "llm_api_key" /\ ConfigKeys[2] = "llm_url"
      /\ ConfigKeys[3] = "llm_model" /\ ConfigKeys[4] = "llm_provider"
      /\ ConfigKeys[5] = "webllm_model"
  BY DEF ConfigKeys
<1>3. QED
  BY <1>1, <1>2 DEF KeySet

(* Stored keys and the values of bodies are values of fields.             *)
LEMMA FieldValuesOfKeys ==
    StoredKeys \union {"absent", "legacy"} \subseteq FieldValues /\ "" \in StoredKeys
    /\ "plaintext" \in StoredKeys /\ \A k \in SentKeys : Cipher[k] \in StoredKeys
<1>1. "" \in StoredKeys /\ "plaintext" \in StoredKeys
  BY DEF StoredKeys
<1>2. \A k \in SentKeys : Cipher[k] \in StoredKeys
  BY DEF StoredKeys
<1>3. StoredKeys \union {"absent", "legacy"} \subseteq FieldValues
  BY DEF FieldValues
<1>4. QED
  BY <1>1, <1>2, <1>3

(* What a body carries is a value of a field.                              *)
LEMMA FieldValuesOfBodies ==
    \A b \in ConfigBodies, k \in KeySet : b[k] \in FieldValues
<1> SUFFICES ASSUME NEW b \in ConfigBodies, NEW k \in KeySet PROVE b[k] \in FieldValues
  OBVIOUS
<1>1. b[k] \in {b[j] : j \in KeySet}
  OBVIOUS
<1>2. {b[j] : j \in KeySet} \in {{c[j] : j \in KeySet} : c \in ConfigBodies}
  BY Zenon
<1>3. QED
  BY <1>1, <1>2 DEF FieldValues

(* The key that a client sent comes back from the stored form.             *)
LEMMA KeysComeBack ==
    ASSUME NEW value \in StoredKeys
    PROVE  (IF value = "" THEN "" ELSE xor_deobfuscate(value)) \in {"", "plaintext"} \union SentKeys
<1>1. CASE value = ""
  BY <1>1
<1>2. CASE value = "plaintext"
  BY <1>2, ModelSettingsAssumption DEF xor_deobfuscate
<1>3. ASSUME NEW k \in SentKeys, value = Cipher[k]
      PROVE  xor_deobfuscate(value) = k
  <2>1. k \in DOMAIN Cipher
    BY ModelSettingsAssumption
  <2>2. \A j \in DOMAIN Cipher : Cipher[j] = value => j = k
    BY <1>3, <2>1, ModelSettingsAssumption
  <2>3. QED
    BY <1>3, <2>1, <2>2 DEF xor_deobfuscate
<1>4. QED
  BY <1>1, <1>2, <1>3 DEF StoredKeys

(* What a request of a client writes.                                      *)
LEMMA StoredValues ==
    ASSUME NEW b \in ConfigBodies, NEW k \in KeySet
    PROVE  /\ Stored(k, b[k]) \in FieldValues
           /\ k = "llm_api_key" => Stored(k, b[k]) \in StoredKeys \union {"absent"}
           /\ b[k] # "absent" => Stored(k, b[k]) # "absent"
<1>1. CASE k # "llm_api_key" \/ b[k] = "absent"
  BY <1>1, FieldValuesOfKeys, FieldValuesOfBodies DEF Stored
<1>2. CASE k = "llm_api_key" /\ b[k] = ""
  BY <1>2, FieldValuesOfKeys DEF Stored, xor_obfuscate
<1>3. CASE k = "llm_api_key" /\ b[k] \notin {"", "absent"}
  <2>1. b[k] \in SentKeys
    BY <1>3 DEF SentKeys
  <2>2. Cipher[b[k]] # "absent" /\ Stored(k, b[k]) = Cipher[b[k]]
    BY <1>3, <2>1, ModelSettingsAssumption DEF Stored, xor_obfuscate
  <2>3. QED
    BY <1>3, <2>1, <2>2, FieldValuesOfKeys
<1>4. QED
  BY <1>1, <1>2, <1>3

Req == [values : [KeySet -> FieldValues], left : SUBSET KeySet, done : BOOLEAN,
        before : SUBSET Nat]

(* A new request knows those that have been answered, and overwrites       *)
(* nothing that it does not write.                                         *)
LEMMA NewRequestKeeps ==
    ASSUME RequestsOK, SettingsAreCurrent, NEW new \in Req, new.before = Answered,
           new.values["llm_api_key"] \in StoredKeys \union {"absent"},
           \A k \in new.left : new.values[k] # "absent",
           requests' = Append(requests, new),
           platform' = [k \in KeySet |-> IF new.values[k] # "absent" /\ k \notin new.left
                                         THEN new.values[k] ELSE platform[k]]
    PROVE  RequestsOK' /\ SettingsAreCurrent'
<1>0. PICK n : n = Len(requests) + 1
  OBVIOUS
<1>1. /\ n \in Nat /\ DOMAIN requests = 1 .. (n - 1) /\ DOMAIN requests' = 1 .. n
      /\ requests'[n] = new /\ \A r \in DOMAIN requests : requests'[r] = requests[r]
      /\ requests' \in Seq(Req) /\ n \notin DOMAIN requests
  BY <1>0 DEF RequestsOK, Req
<1>2. Answered \subseteq Answered' /\ Answered \subseteq DOMAIN requests
  BY <1>1 DEF Answered
<1>3. \A r \in DOMAIN requests' : requests'[r].before \subseteq Answered
  <2> SUFFICES ASSUME NEW r \in DOMAIN requests' PROVE requests'[r].before \subseteq Answered
    OBVIOUS
  <2>1. CASE r = n
    BY <1>1, <2>1
  <2>2. CASE r \in DOMAIN requests
    BY <1>1, <2>2 DEF RequestsOK
  <2>3. QED
    BY <1>1, <2>1, <2>2
<1>4. RequestsOK'
  <2>1. platform' \in [KeySet -> FieldValues]
    BY DEF RequestsOK, Req
  <2>2. \A r \in DOMAIN requests' :
            /\ requests'[r].values["llm_api_key"] \in StoredKeys \union {"absent"}
            /\ \A k \in requests'[r].left : requests'[r].values[k] # "absent"
    <3> SUFFICES ASSUME NEW r \in DOMAIN requests'
                 PROVE  /\ requests'[r].values["llm_api_key"] \in StoredKeys \union {"absent"}
                        /\ \A k \in requests'[r].left : requests'[r].values[k] # "absent"
      OBVIOUS
    <3>1. CASE r = n
      BY <1>1, <3>1
    <3>2. CASE r \in DOMAIN requests
      BY <1>1, <3>2 DEF RequestsOK
    <3>3. QED
      BY <1>1, <3>1, <3>2
  <2>3. QED
    BY <1>1, <1>2, <1>3, <2>1, <2>2 DEF RequestsOK, Req
<1>5. ASSUME NEW k \in KeySet PROVE FieldIsCurrent(k)'
  <2>1. Wrote(n, k)' <=> new.values[k] # "absent" /\ k \notin new.left
    BY <1>1 DEF Wrote
  <2>2. \A r \in DOMAIN requests : Wrote(r, k)' <=> Wrote(r, k)
    BY <1>1 DEF Wrote
  <2>3. CASE Wrote(n, k)'
    <3>1. platform'[k] = requests'[n].values[k]
      BY <1>1, <2>1, <2>3
    <3>2. \A s \in DOMAIN requests' : n \notin requests'[s].before
      BY <1>1, <1>2, <1>3
    <3>3. QED
      BY <1>1, <2>3, <3>1, <3>2 DEF FieldIsCurrent
  <2>4. CASE ~Wrote(n, k)'
    <3>1. PICK r \in DOMAIN requests :
              /\ Wrote(r, k) /\ platform[k] = requests[r].values[k]
              /\ \A s \in DOMAIN requests : Wrote(s, k) => r \notin requests[s].before
      BY DEF SettingsAreCurrent, FieldIsCurrent
    <3>2. platform'[k] = requests'[r].values[k] /\ Wrote(r, k)' /\ r \in DOMAIN requests'
      BY <1>1, <2>1, <2>2, <2>4, <3>1
    <3>3. \A s \in DOMAIN requests' : Wrote(s, k)' => s \in DOMAIN requests
      BY <1>1, <2>4
    <3>4. \A s \in DOMAIN requests' : Wrote(s, k)' => r \notin requests'[s].before
      BY <1>1, <2>2, <3>1, <3>3
    <3>5. QED
      BY <3>2, <3>4 DEF FieldIsCurrent
  <2>5. QED
    BY <2>3, <2>4
<1>6. QED
  BY <1>4, <1>5 DEF SettingsAreCurrent

(* One field of a request: whoever wrote it before, this one has not been  *)
(* answered, so that no request began after its answer.                    *)
LEMMA FieldKeeps ==
    ASSUME RequestsOK, SettingsAreCurrent, NEW w \in DOMAIN requests, NEW f \in KeySet,
           NEW fails \in BOOLEAN, put_llm_config(w, f, fails)
    PROVE  RequestsOK' /\ SettingsAreCurrent'
<1>1. /\ requests \in Seq(Req) /\ ~requests[w].done /\ f \in requests[w].left
      /\ platform' = [platform EXCEPT ![f] = requests[w].values[f]]
      /\ requests' = [requests EXCEPT ![w] = [@ EXCEPT !.left = requests[w].left \ {f},
                          !.done = (requests[w].left \ {f} = {} \/ fails)]]
  BY DEF RequestsOK, Req, put_llm_config, upsert_db_value, Busy, IsNext
<1>2. /\ requests[w] \in Req /\ requests' \in Seq(Req) /\ DOMAIN requests' = DOMAIN requests
      /\ requests'[w].values = requests[w].values /\ requests'[w].before = requests[w].before
      /\ requests'[w].left = requests[w].left \ {f}
      /\ \A r \in DOMAIN requests : r # w => requests'[r] = requests[r]
  <2>1. requests[w] \in Req
    BY <1>1
  <2> DEFINE new == [requests[w] EXCEPT !.left = requests[w].left \ {f},
                                        !.done = (requests[w].left \ {f} = {} \/ fails)]
  <2>2. (requests[w].left \ {f} = {} \/ fails) \in BOOLEAN
    OBVIOUS
  <2>3. new \in Req /\ new.values = requests[w].values /\ new.before = requests[w].before
        /\ new.left = requests[w].left \ {f}
    BY <2>1, <2>2 DEF Req
  <2>4. requests' = [requests EXCEPT ![w] = new]
    BY <1>1
  <2> HIDE DEF new
  <2>5. requests' \in Seq(Req) /\ DOMAIN requests' = DOMAIN requests
        /\ \A r \in DOMAIN requests : requests'[r] = IF r = w THEN new ELSE requests[r]
    <3>1. w \in 1 .. Len(requests) /\ DOMAIN requests = 1 .. Len(requests)
      BY <1>1
    <3>2. requests' \in Seq(Req) /\ Len(requests') = Len(requests)
      BY <1>1, <2>3, <2>4, <3>1, ExceptSeq
    <3>3. \A r \in 1 .. Len(requests) : requests'[r] = IF r = w THEN new ELSE requests[r]
      BY <1>1, <2>3, <2>4, <3>1, ExceptSeq
    <3>4. QED
      BY <3>1, <3>2, <3>3
  <2>6. QED
    BY <2>1, <2>3, <2>5
<1>3. Answered \subseteq Answered' /\ w \notin Answered
  BY <1>1, <1>2 DEF Answered
<1>4. requests[w].values[f] # "absent" /\ requests[w].values[f] \in FieldValues
  BY <1>1, <1>2 DEF RequestsOK, Req
<1>5. \A r \in DOMAIN requests :
          requests'[r].values = requests[r].values /\ requests'[r].before = requests[r].before
  BY <1>2
<1>6. RequestsOK'
  <2>1. platform' \in [KeySet -> FieldValues]
    BY <1>1, <1>4 DEF RequestsOK
  <2>2. \A r \in DOMAIN requests : requests'[r].left \subseteq requests[r].left
    BY <1>2
  <2>3. \A r \in DOMAIN requests' : /\ requests'[r].before \subseteq Answered'
            /\ requests'[r].values["llm_api_key"] \in StoredKeys \union {"absent"}
            /\ \A k \in requests'[r].left : requests'[r].values[k] # "absent"
    BY <1>2, <1>3, <1>5, <2>2 DEF RequestsOK
  <2>4. QED
    BY <1>2, <2>1, <2>3 DEF RequestsOK, Req
<1>7. ASSUME NEW k \in KeySet PROVE FieldIsCurrent(k)'
  <2>1. CASE k = f
    <3>1. Wrote(w, k)' /\ platform'[k] = requests'[w].values[k]
      BY <1>1, <1>2, <1>4, <2>1 DEF Wrote, RequestsOK
    <3>2. \A s \in DOMAIN requests' : w \notin requests'[s].before
      BY <1>2, <1>3, <1>5 DEF RequestsOK
    <3>3. QED
      BY <1>2, <3>1, <3>2 DEF FieldIsCurrent
  <2>2. CASE k # f
    <3>1. PICK r \in DOMAIN requests :
              /\ Wrote(r, k) /\ platform[k] = requests[r].values[k]
              /\ \A s \in DOMAIN requests : Wrote(s, k) => r \notin requests[s].before
      BY DEF SettingsAreCurrent, FieldIsCurrent
    <3>2. \A s \in DOMAIN requests : Wrote(s, k)' <=> Wrote(s, k)
      BY <1>2, <1>5, <2>2 DEF Wrote
    <3>3. platform'[k] = platform[k]
      BY <1>1, <2>2 DEF RequestsOK
    <3>4. /\ Wrote(r, k)' /\ platform'[k] = requests'[r].values[k] /\ r \in DOMAIN requests'
          /\ \A s \in DOMAIN requests' : Wrote(s, k)' => r \notin requests'[s].before
      BY <1>2, <1>5, <3>1, <3>2, <3>3
    <3>5. QED
      BY <3>4 DEF FieldIsCurrent
  <2>3. QED
    BY <2>1, <2>2
<1>8. QED
  BY <1>6, <1>7 DEF SettingsAreCurrent

(* A request that ends early leaves what it has written.                   *)
LEMMA EarlyEndKeeps ==
    ASSUME RequestsOK, SettingsAreCurrent, NEW w \in DOMAIN requests, PutEndsEarly(w)
    PROVE  RequestsOK' /\ SettingsAreCurrent'
<1>1. /\ requests \in Seq(Req) /\ platform' = platform /\ ~requests[w].done
      /\ requests' = [requests EXCEPT ![w] = [@ EXCEPT !.done = TRUE]]
  BY DEF RequestsOK, Req, PutEndsEarly, Busy
<1>2. /\ requests' \in Seq(Req) /\ DOMAIN requests' = DOMAIN requests
      /\ \A r \in DOMAIN requests : /\ requests'[r].values = requests[r].values
                                    /\ requests'[r].before = requests[r].before
                                    /\ requests'[r].left = requests[r].left
                                    /\ requests[r].done => requests'[r].done
  <2> DEFINE new == [requests[w] EXCEPT !.done = TRUE]
  <2>1. requests \in Seq(Req) /\ requests[w] \in Req
    BY <1>1
  <2>2. /\ new \in Req /\ new.values = requests[w].values /\ new.before = requests[w].before
        /\ new.left = requests[w].left /\ new.done
    BY <2>1 DEF Req
  <2>3. requests' = [requests EXCEPT ![w] = new]
    BY <1>1
  <2> HIDE DEF new
  <2>4. requests' \in Seq(Req) /\ DOMAIN requests' = DOMAIN requests
        /\ \A r \in DOMAIN requests : requests'[r] = IF r = w THEN new ELSE requests[r]
    <3>1. w \in 1 .. Len(requests) /\ DOMAIN requests = 1 .. Len(requests)
      BY <1>1
    <3>2. requests' \in Seq(Req) /\ Len(requests') = Len(requests)
      BY <2>1, <2>2, <2>3, <3>1, ExceptSeq
    <3>3. \A r \in 1 .. Len(requests) : requests'[r] = IF r = w THEN new ELSE requests[r]
      BY <2>1, <2>2, <2>3, <3>1, ExceptSeq
    <3>4. QED
      BY <3>1, <3>2, <3>3
  <2>5. QED
    BY <2>2, <2>4
<1>3. Answered \subseteq Answered'
  BY <1>2 DEF Answered
<1>4. RequestsOK'
  <2>1. platform' \in [KeySet -> FieldValues]
    BY <1>1 DEF RequestsOK
  <2>2. requests' \in Seq([values : [KeySet -> FieldValues], left : SUBSET KeySet,
                           done : BOOLEAN, before : SUBSET Nat])
    BY <1>2 DEF Req
  <2>3. ASSUME NEW r \in DOMAIN requests'
        PROVE  /\ requests'[r].before \subseteq Answered'
               /\ requests'[r].values["llm_api_key"] \in StoredKeys \union {"absent"}
               /\ \A k \in requests'[r].left : requests'[r].values[k] # "absent"
    <3>1. /\ requests[r].before \subseteq Answered
          /\ requests[r].values["llm_api_key"] \in StoredKeys \union {"absent"}
          /\ \A k \in requests[r].left : requests[r].values[k] # "absent"
      BY <1>2 DEF RequestsOK
    <3>2. QED
      BY <1>2, <1>3, <3>1
  <2>4. QED
    BY <2>1, <2>2, <2>3 DEF RequestsOK
<1>5. \A k \in KeySet, s \in DOMAIN requests : Wrote(s, k)' <=> Wrote(s, k)
  BY <1>2 DEF Wrote
<1>6. SettingsAreCurrent'
  BY <1>1, <1>2, <1>5 DEF SettingsAreCurrent, FieldIsCurrent
<1>7. QED
  BY <1>4, <1>6

(* A PUT that begins has written nothing yet.                              *)
LEMMA BeginPutKeeps ==
    ASSUME RequestsOK, SettingsAreCurrent, NEW b \in ConfigBodies, BeginPut(b)
    PROVE  RequestsOK' /\ SettingsAreCurrent'
<1> DEFINE values == [k \in KeySet |-> Stored(k, b[k])]
           left == {k \in KeySet : b[k] # "absent"}
           new == Request(values, left, left = {}, Answered)
<1>1. Answered \subseteq Nat /\ "llm_api_key" \in KeySet
  BY FiveFields DEF Answered, RequestsOK
<1>2. /\ new \in Req /\ new.before = Answered /\ new.values = values /\ new.left = left
  BY <1>1, StoredValues DEF Request, Req
<1>3. /\ values["llm_api_key"] \in StoredKeys \union {"absent"}
      /\ \A k \in left : values[k] # "absent"
      /\ \A k \in KeySet : values[k] # "absent" => k \in left
  BY <1>1, StoredValues DEF Stored
<1>4. requests' = Append(requests, new) /\ platform' = platform
  BY DEF BeginPut
<1>5. platform' = [k \in KeySet |-> IF new.values[k] # "absent" /\ k \notin new.left
                                    THEN new.values[k] ELSE platform[k]]
  <2>1. platform = [k \in KeySet |-> platform[k]]
    BY DEF RequestsOK
  <2>2. \A k \in KeySet : ~(new.values[k] # "absent" /\ k \notin new.left)
    BY <1>2, <1>3
  <2> HIDE DEF new
  <2>3. QED
    BY <1>4, <2>1, <2>2
<1> HIDE DEF new, values, left
<1>6. QED
  BY <1>2, <1>3, <1>4, <1>5, NewRequestKeeps

(* The legacy route is a request that writes its one field at once.        *)
LEMMA LegacyPutKeeps ==
    ASSUME RequestsOK, SettingsAreCurrent, NEW b \in ConfigBodies, put_llm_key(b["llm_api_key"])
    PROVE  RequestsOK' /\ SettingsAreCurrent'
<1> DEFINE value == Stored("llm_api_key", b["llm_api_key"])
           values == [k \in KeySet |-> IF k = "llm_api_key" THEN value ELSE "absent"]
           new == Request(values, {}, TRUE, Answered)
<1>1. Answered \subseteq Nat /\ "llm_api_key" \in KeySet
  BY FiveFields DEF Answered, RequestsOK
<1>2. value \in StoredKeys /\ value \in FieldValues /\ value # "absent"
  BY <1>1, StoredValues DEF put_llm_key
<1>3. values \in [KeySet -> FieldValues]
  BY <1>2 DEF FieldValues
<1>4. /\ new \in Req /\ new.before = Answered /\ new.values = values /\ new.left = {}
  BY <1>1, <1>3 DEF Request, Req
<1>5. /\ requests' = Append(requests, new)
      /\ platform' = [platform EXCEPT !["llm_api_key"] = value]
  BY DEF put_llm_key, upsert_db_value
<1>6. platform' = [k \in KeySet |-> IF new.values[k] # "absent" /\ k \notin new.left
                                    THEN new.values[k] ELSE platform[k]]
  <2>1. platform \in [KeySet -> FieldValues]
    BY DEF RequestsOK
  <2>2. \A k \in KeySet : new.values[k] = IF k = "llm_api_key" THEN value ELSE "absent"
    BY <1>4
  <2> HIDE DEF new, value
  <2>3. QED
    BY <1>2, <1>4, <1>5, <2>1, <2>2
<1>7. new.values["llm_api_key"] \in StoredKeys \union {"absent"}
  BY <1>1, <1>2, <1>4
<1> HIDE DEF new, values, value
<1>8. QED
  BY <1>4, <1>5, <1>6, <1>7, NewRequestKeeps

(* Whoever is told that the settings do not rest forgets a quiet start.    *)
LEMMA DisturbedKeeps ==
    ASSUME QuestionInv, question' = Disturbed, UNCHANGED <<adminEnv, queryEnv>>
    PROVE  QuestionInv'
<1>1. CASE question.stage = "asked"
  <2>1. question' = [question EXCEPT !.quiet = FALSE]
    BY <1>1 DEF Disturbed
  <2>2. ~question'.quiet /\ question'.stage = "asked"
    BY <1>1, <2>1 DEF QuestionInv
  <2>3. question' \in [stage : {"none", "asked", "refused", "sent", "shorthand"}, quiet : BOOLEAN,
                       reached : BOOLEAN, caller : {question'.caller},
                       inForce : {question'.inForce}]
    BY <2>1 DEF QuestionInv
  <2>4. QED
    BY <2>2, <2>3 DEF QuestionInv
<1>2. CASE question.stage # "asked"
  <2>1. question' = question
    BY <1>2 DEF Disturbed
  <2>2. QED
    BY <1>2, <2>1 DEF QuestionInv
<1>3. QED
  BY <1>1, <1>2

(* A field or an early end of a request that is being served: no quiet     *)
(* question is between its reads.                                          *)
LEMMA ServedKeeps ==
    ASSUME QuestionInv, NEW w \in DOMAIN requests, Busy(w),
           UNCHANGED <<adminEnv, queryEnv, question>>
    PROVE  QuestionInv'
<1>1. ~(question.stage = "asked" /\ question.quiet)
  BY DEF QuestionInv, Quiet
<1>2. QED
  BY <1>1 DEF QuestionInv

(* Both services read the same provider and, where query-api resolves its  *)
(* caller for each question, the same connection.                          *)
LEMMA ConsoleAgrees == ConsoleShowsWhatIsUsed
<1> SUFFICES ASSUME adminEnv = queryEnv
             PROVE  /\ get_config_provider = fetch_provider(TRUE)
                    /\ \/ queryEnv.key # "" /\ queryEnv.url = "" /\ platform["llm_url"] # ""
                       \/ queryEnv.key = "" /\ queryEnv.openai # ""
                       \/ list_llm_models = LlmCaller(TRUE)
  BY DEF ConsoleShowsWhatIsUsed
<1>1. /\ handle_get_llm_config["llm_provider"] = platform["llm_provider"]
      /\ handle_get_llm_config["llm_url"] = platform["llm_url"]
      /\ handle_get_llm_config["llm_api_key"] =
             IF platform["llm_api_key"] = "" THEN "" ELSE xor_deobfuscate(platform["llm_api_key"])
  BY FiveFields DEF handle_get_llm_config
<1>2. fetch_remote_llm_config(TRUE) = handle_get_llm_config
  BY DEF fetch_remote_llm_config
<1>3. get_config_provider = fetch_provider(TRUE)
  BY <1>1, <1>2 DEF get_config_provider, fetch_provider, is_valid_provider, Providers
<1>4. \/ queryEnv.key # "" /\ queryEnv.url = "" /\ platform["llm_url"] # ""
      \/ queryEnv.key = "" /\ queryEnv.openai # ""
      \/ list_llm_models = LlmCaller(TRUE)
  BY <1>1, <1>2 DEF list_llm_models, LlmCaller
<1>5. QED
  BY <1>3, <1>4

(* The key of a caller is one of the environment or one that was stored.   *)
LEMMA CallerKeys ==
    ASSUME RequestsOK, SettingsAreCurrent, NEW ok \in BOOLEAN
    PROVE  LlmCaller(ok).key \in {"", "plaintext", queryEnv.key, queryEnv.openai} \union SentKeys
<1>1. "llm_api_key" \in KeySet
  BY FiveFields
<1>2. platform["llm_api_key"] \in StoredKeys
  BY <1>1 DEF SettingsAreCurrent, FieldIsCurrent, RequestsOK, Wrote
<1>3. handle_get_llm_config["llm_api_key"] =
          IF platform["llm_api_key"] = "" THEN "" ELSE xor_deobfuscate(platform["llm_api_key"])
  BY <1>1 DEF handle_get_llm_config
<1>4. fetch_remote_llm_config(ok)["llm_api_key"] \in {"", "plaintext"} \union SentKeys
  BY <1>1, <1>2, <1>3, KeysComeBack DEF fetch_remote_llm_config, NoSettings
<1>5. QED
  BY <1>4 DEF LlmCaller

(* The two reads of a question.                                            *)
LEMMA QuestionKeeps ==
    ASSUME SettingsInv, NEW ok \in BOOLEAN, AskQuestion(ok) \/ SendQuestion(ok)
    PROVE  QuestionInv'
<1>1. QuestionInv /\ RequestsOK /\ SettingsAreCurrent
  BY DEF SettingsInv
<1>2. UNCHANGED <<platform, adminEnv, queryEnv, requests>>
  BY DEF AskQuestion, SendQuestion
<1>3. (Quiet' <=> Quiet) /\ fetch_provider(TRUE)' = fetch_provider(TRUE)
  BY <1>2 DEF Quiet, Busy, fetch_provider, fetch_remote_llm_config, handle_get_llm_config
<1>4. CASE AskQuestion(ok)
  <2>1. /\ question' = [question EXCEPT !.stage = IF fetch_provider(ok) = "webllm"
                                                  THEN "refused" ELSE "asked",
                                        !.quiet = Quiet, !.reached = ok]
        /\ Quiet \in BOOLEAN
    BY <1>4 DEF AskQuestion, Quiet
  <2>2. /\ question' \in [stage : {"none", "asked", "refused", "sent", "shorthand"},
                          quiet : BOOLEAN, reached : BOOLEAN, caller : {question'.caller},
                          inForce : {question'.inForce}]
        /\ question'.stage \in {"refused", "asked"}
        /\ question'.stage = "asked" => fetch_provider(ok) # "webllm"
        /\ question'.quiet = Quiet /\ question'.reached = ok
    BY <1>1, <2>1 DEF QuestionInv
  <2>3. fetch_provider(ok) \in {"remote", "webllm"}
    BY DEF fetch_provider, Providers
  <2>4. question'.stage = "asked" /\ question'.quiet =>
            Quiet' /\ (question'.reached => fetch_provider(TRUE)' = "remote")
    BY <1>3, <2>2, <2>3
  <2>5. QED
    BY <2>2, <2>4 DEF QuestionInv
<1>5. CASE SendQuestion(ok)
  <2>1. /\ question.stage = "asked"
        /\ question' = [question EXCEPT !.stage = IF LlmCaller(ok) = NoCaller THEN "shorthand"
                                                  ELSE "sent",
                                        !.caller = LlmCaller(ok), !.inForce = get_config_provider]
    BY <1>5 DEF SendQuestion
  <2>2. /\ question' \in [stage : {"none", "asked", "refused", "sent", "shorthand"},
                          quiet : BOOLEAN, reached : BOOLEAN, caller : {question'.caller},
                          inForce : {question'.inForce}]
        /\ question'.stage \in {"shorthand", "sent"} /\ question'.caller = LlmCaller(ok)
        /\ question'.inForce = get_config_provider
        /\ question'.quiet = question.quiet /\ question'.reached = question.reached
    BY <1>1, <2>1 DEF QuestionInv
  <2>3. question.quiet /\ question.reached /\ adminEnv = queryEnv =>
            get_config_provider = "remote"
    BY <1>1, <2>1, ConsoleAgrees DEF QuestionInv, ConsoleShowsWhatIsUsed
  <2>4. QED
    BY <1>1, <1>2, <2>2, <2>3, CallerKeys DEF QuestionInv
<1>6. QED
  BY <1>4, <1>5

(* Every step keeps the invariant of settings.                             *)
LEMMA SettingsStepKeeps ==
    ASSUME SettingsInv, [SetNext]_setVars
    PROVE  SettingsInv'
<1>1. RequestsOK /\ SettingsAreCurrent /\ QuestionInv
  BY DEF SettingsInv
<1>2. ASSUME UNCHANGED <<platform, requests>> PROVE RequestsOK' /\ SettingsAreCurrent'
  BY <1>1, <1>2 DEF RequestsOK, SettingsAreCurrent, FieldIsCurrent, Wrote, Answered
<1>3. CASE UNCHANGED setVars
  <2>1. QuestionInv'
    BY <1>1, <1>3 DEF setVars, QuestionInv, Quiet, Busy, fetch_provider,
       fetch_remote_llm_config, handle_get_llm_config
  <2>2. QED
    BY <1>2, <1>3, <2>1 DEF setVars, SettingsInv
<1>4. ASSUME NEW b \in ConfigBodies, BeginPut(b) \/ put_llm_key(b["llm_api_key"])
      PROVE  SettingsInv'
  <2>1. QuestionInv'
    BY <1>1, <1>4, DisturbedKeeps DEF BeginPut, put_llm_key
  <2>2. QED
    BY <1>1, <1>4, <2>1, BeginPutKeeps, LegacyPutKeeps DEF SettingsInv
<1>5. ASSUME NEW r \in DOMAIN requests, PutEndsEarly(r)
      PROVE  SettingsInv'
  <2>1. QuestionInv'
    BY <1>1, <1>5, ServedKeeps DEF PutEndsEarly
  <2>2. QED
    BY <1>1, <1>5, <2>1, EarlyEndKeeps DEF SettingsInv
<1>6. ASSUME NEW r \in DOMAIN requests, NEW k \in KeySet, NEW fails \in BOOLEAN,
             put_llm_config(r, k, fails)
      PROVE  SettingsInv'
  <2>1. QuestionInv'
    BY <1>1, <1>6, ServedKeeps DEF put_llm_config
  <2>2. QED
    BY <1>1, <1>6, <2>1, FieldKeeps DEF SettingsInv
<1>7. ASSUME NEW ok \in BOOLEAN, AskQuestion(ok) \/ SendQuestion(ok)
      PROVE  SettingsInv'
  <2>1. UNCHANGED <<platform, requests>>
    BY <1>7 DEF AskQuestion, SendQuestion
  <2>2. QED
    BY <1>2, <1>7, <2>1, QuestionKeeps DEF SettingsInv
<1>8. QED
  BY <1>3, <1>4, <1>5, <1>6, <1>7 DEF SetNext

(* It holds before the first PUT.                                          *)
LEMMA SettingsStart == SetInit => SettingsInv
<1> SUFFICES ASSUME SetInit PROVE SettingsInv
  OBVIOUS
<1>1. /\ requests = <<Request(platform, {}, TRUE, {})>>
      /\ question = NoQuestion
  BY DEF SetInit
<1>2. platform \in [KeySet -> FieldValues] /\ platform["llm_api_key"] \in StoredKeys
      /\ \A k \in KeySet : platform[k] # "absent"
  <2>1. CASE platform = NoSettings
    BY <2>1, FiveFields, FieldValuesOfKeys DEF NoSettings
  <2>2. CASE platform = [k \in KeySet |-> IF k = "llm_provider" THEN "legacy"
                                         ELSE IF k = "llm_api_key" THEN "plaintext" ELSE ""]
    BY <2>2, FiveFields, FieldValuesOfKeys
  <2>3. QED
    BY <2>1, <2>2 DEF SetInit
<1>3. /\ Request(platform, {}, TRUE, {}) \in Req
      /\ requests \in Seq(Req) /\ DOMAIN requests = {1} /\ requests[1].values = platform
      /\ requests[1].left = {} /\ requests[1].before = {} /\ requests[1].done
  BY <1>1, <1>2 DEF Request, Req
<1>4. RequestsOK
  BY <1>2, <1>3 DEF RequestsOK, Req, Answered
<1>5. SettingsAreCurrent
  BY <1>2, <1>3 DEF SettingsAreCurrent, FieldIsCurrent, Wrote
<1>6. QuestionInv
  BY <1>1 DEF QuestionInv, NoQuestion
<1>7. QED
  BY <1>4, <1>5, <1>6 DEF SettingsInv

(* What is stored is what some request wrote and none that came after it   *)
(* has overwritten; a quiet question goes by the settings it has read.     *)
THEOREM SettingsInvariant == SetSpec => []SettingsInv
<1>1. QED
  BY SettingsStart, SettingsStepKeeps, PTL DEF SetSpec

(* The settings are those that were asked for last, the console tells of   *)
(* the provider and the connection that questions use, and a question is   *)
(* sent out by the settings, for any clients, environments and failures.   *)
THEOREM SettingsAreAgreed == SetSpec => []SettingsAgree
<1>1. SettingsInv => SettingsAgree
  BY ConsoleAgrees DEF SettingsInv, QuestionInv, SettingsAgree, QuestionsHeedSettings
<1>2. QED
  BY <1>1, SettingsInvariant, PTL
==============================================================================
