---------------------------- MODULE SharedObjects ----------------------------
(***************************************************************************)
(* Dashboards and saved views of admin-service: dashboards.rs and          *)
(* saved_views.rs.  Both kinds are shared through grants, with the same    *)
(* handlers over tables of their own; a dashboard is also exported and     *)
(* imported.                                                               *)
(*                                                                         *)
(* A handler first reads whether the object exists in the tenant of the    *)
(* request and which relation the caller has to it, and writes later.  The *)
(* two reads are one step here: an object goes together with its grants,   *)
(* so an object deleted between them only changes the error that the       *)
(* caller sees.  Names, panel ids and titles that differ only in text are  *)
(* left out; a statement that fails ends the request (CallEnds).           *)
(***************************************************************************)
EXTENDS Tenancy, Integers, Sequences, FiniteSets

CONSTANTS
    Objects,        \* ids, never used twice
    Calls,          \* requests being served at a time
    Administrators, \* the users whose role is tenant_admin
    FirstMembers,   \* user_tenant_roles at the start, as pairs of user and tenant
    Words,          \* what the fields of a panel may say
    PanelRequests,  \* panels that clients send
    ViewConfigs,    \* contents of saved views
    MaxPanels,      \* bound: panels of a dashboard
    MaxInt,         \* the largest i64
    MaxChanges      \* bound: requests that are served

(* A panel as its JSON is read.  Titles and texts are given or missing, numbers are whole. *)
DashboardPanelRequest ==
    [title : BOOLEAN, panel_kind : Words, query_kind : Words, content : BOOLEAN,
     layout : [x : Int, y : Int, w : Int, h : Int],
     time_range : [mode : Words, preset : Words, bounded : BOOLEAN], preset : Words]

ASSUME SharedObjectsAssumption ==
    /\ Administrators \subseteq Users /\ FirstMembers \subseteq Users \X Tenants
    /\ {"none", "query", "text", "global", "preset"} \subseteq Words
    /\ PanelRequests \subseteq DashboardPanelRequest
    /\ MaxInt \in Nat /\ MaxInt > 24 /\ MaxPanels \in Nat /\ MaxChanges \in Nat

Relations   == {"owner", "editor", "viewer"}
NoRelation  == "none"
NoObject    == [state |-> "none", tenant |-> NoTenant, visibility |-> "public", content |-> <<>>]

VARIABLES
    kind,     \* dashboard or saved_view, for every id
    object,   \* dashboards with their panels, saved_views with their config
    grants,   \* dashboard_grants, saved_view_grants
    members,  \* user_tenant_roles
    call,     \* requests being served
    changes,  \* requests served so far
    shared,   \* history: <<user, object, relation>> ever granted
    joined    \* history: <<user, tenant>> ever in members

shVars == <<kind, object, grants, members, call, changes, shared, joined>>

NoCall == [pc |-> "idle", user |-> NoUser, tenant |-> NoTenant, object |-> "none",
           target |-> NoUser, relation |-> NoRelation, others |-> 0]

ShInit ==
    /\ kind \in [Objects -> {"dashboard", "saved_view"}]
    /\ object = [o \in Objects |-> NoObject]
    /\ grants = [g \in Objects \X Users |-> NoRelation]
    /\ members = FirstMembers /\ joined = FirstMembers
    /\ call = [c \in Calls |-> NoCall]
    /\ changes = 0 /\ shared = {}

(* TenantContext: a session of a member, or an API key, which names no user. *)
Contexts ==
    [user : {NoUser}, tenant : Tenants]
    \union {[user |-> m[1], tenant |-> m[2]] : m \in members}

IsAdmin(u) == u \in Administrators

(***************************************************************************)
(* Panels.                                                                 *)
(***************************************************************************)
NoLayout      == [x |-> 0, y |-> 0, w |-> 0, h |-> 0]
ValidPresets  == {"5m", "15m", "30m", "1h", "3h", "12h"}

(* i64 addition as a release build does it. *)
Add(a, b) == ((a + b + MaxInt + 1) % (2 * (MaxInt + 1))) - (MaxInt + 1)

(* Mutant: only the width is held against the twelve columns. *)
validate_layout_MutWidthOnly(l) ==
    /\ l.x >= 0 /\ l.y >= 0 /\ l.w >= 1 /\ l.h >= 1
    /\ l.w <= 12

validate_layout(l) ==
    /\ l.x >= 0 /\ l.y >= 0 /\ l.w >= 1 /\ l.h >= 1
    /\ l.w <= 12 /\ Add(l.x, l.w) <= 12

(* mode, and what the mode needs: a preset, or from_ms and to_ms. *)
validate_time_range(r) ==
    \/ r.mode = "global"
    \/ r.mode = "preset" /\ r.preset \in ValidPresets
    \/ r.mode = "absolute" /\ r.bounded

panel_kind(p) == IF p.panel_kind = "none" THEN "query" ELSE p.panel_kind

normalized_layout(p, position) ==
    IF p.layout # NoLayout THEN p.layout
    ELSE [x |-> (position % 2) * 6, y |-> (position \div 2) * 4, w |-> 6, h |-> 4]

NoRange == [mode |-> "none", preset |-> "none", bounded |-> FALSE]

normalized_time_range(p) ==
    IF p.time_range # NoRange THEN p.time_range
    ELSE IF p.preset # "none" THEN [mode |-> "preset", preset |-> p.preset, bounded |-> FALSE]
    ELSE [mode |-> "global", preset |-> "none", bounded |-> FALSE]

ValidPanel(p) ==
    /\ p.title
    /\ panel_kind(p) \in {"query", "text"}
    /\ panel_kind(p) = "query" => p.query_kind # "none"
    /\ panel_kind(p) = "text" => p.content
    /\ p.query_kind \in {"none", "logs", "traces", "metrics"}
    /\ p.layout # NoLayout => validate_layout(p.layout)
    /\ p.time_range # NoRange => validate_time_range(p.time_range)
    /\ p.preset \in ValidPresets \union {"none"}

validate_create_request(ps) == Len(ps) > 0 /\ \A i \in DOMAIN ps : ValidPanel(ps[i])

ValidVisibility(v) == v \in {"unset", "public", "private"}

(* Mutant: an update does not look at the preset. *)
validate_update_request_MutNoPreset(ps, v) ==
    /\ \A i \in DOMAIN ps : ValidPanel([ps[i] EXCEPT !.preset = "none"])
    /\ ValidVisibility(v)

(* Mutant: any visibility is stored. *)
validate_update_request_MutVisibility(ps, v) == \A i \in DOMAIN ps : ValidPanel(ps[i])

(* Unlike a new dashboard, an update may have no panels. *)
validate_update_request(ps, v) ==
    /\ \A i \in DOMAIN ps : ValidPanel(ps[i])
    /\ ValidVisibility(v)

(* The rows that an insert of the panels makes, in the order of their position. *)
PanelRows(ps) ==
    [i \in DOMAIN ps |-> [title |-> ps[i].title, panel_kind |-> panel_kind(ps[i]),
                          query_kind |-> ps[i].query_kind, content |-> ps[i].content,
                          layout |-> normalized_layout(ps[i], i - 1),
                          time_range |-> normalized_time_range(ps[i]),
                          preset |-> ps[i].preset]]

(* export_dashboard: every panel as the request that would make it. *)
export_dashboard(o) == object[o].content

Contents == UNION {[1..n -> PanelRequests] : n \in 0..MaxPanels}

(***************************************************************************)
(* Access.                                                                 *)
(***************************************************************************)
(* Mutant: a viewer of a private object cannot read it. *)
grant_satisfies_read_MutNoViewer(visibility, relation) ==
    visibility = "public" \/ relation \in {"owner", "editor"}

grant_satisfies_read(visibility, relation) ==
    visibility = "public" \/ relation \in Relations

(* Mutant: a viewer may write. *)
grant_satisfies_write_MutViewer(u, relation) == IsAdmin(u) \/ relation \in Relations

grant_satisfies_write(u, relation) == IsAdmin(u) \/ relation \in {"owner", "editor"}

grant_satisfies_delete(u, relation) == IsAdmin(u) \/ relation = "owner"

fetch_relation(u, o) == grants[<<o, u>>]

Exists(o, t) == object[o].state = "live" /\ object[o].tenant = t

Owners(o) == {u \in Users : grants[<<o, u>>] = "owner"}

(* An API key sees every object of its tenant. *)
Visible(x) ==
    {o \in Objects : /\ Exists(o, x.tenant)
                     /\ \/ x.user = NoUser
                        \/ object[o].visibility = "public"
                        \/ fetch_relation(x.user, o) # NoRelation}

list_dashboards(x)  == {o \in Visible(x) : kind[o] = "dashboard"}
list_saved_views(x) == {o \in Visible(x) : kind[o] = "saved_view"}

(* The answer to a GET of one object is 200. *)
Readable(x, o) ==
    /\ Exists(o, x.tenant)
    /\ x.user # NoUser => grant_satisfies_read(object[o].visibility, fetch_relation(x.user, o))

handle_get_dashboard(x, o)  == kind[o] = "dashboard" /\ Readable(x, o)
handle_get_saved_view(x, o) == kind[o] = "saved_view" /\ Readable(x, o)

(* Owners and administrators see and change grants, an API key never does. *)
MayShare(x, o) ==
    /\ x.user # NoUser
    /\ IsAdmin(x.user) \/ fetch_relation(x.user, o) = "owner"

(***************************************************************************)
(* Handlers.  Each begins by authorizing the request.                      *)
(***************************************************************************)
Begin(c, x, o, step) ==
    /\ call[c] = NoCall /\ changes < MaxChanges
    /\ changes' = changes + 1
    /\ Exists(o, x.tenant)
    /\ call' = [call EXCEPT ![c] = [step EXCEPT !.user = x.user, !.tenant = x.tenant,
                                                !.object = o]]
    /\ UNCHANGED <<kind, object, grants, members, shared, joined>>

Step(pc, u, relation) == [NoCall EXCEPT !.pc = pc, !.target = u, !.relation = relation]

End(c) == call' = [call EXCEPT ![c] = NoCall]

(* Any statement fails, the request is refused, or the client has gone. *)
CallEnds(c) ==
    /\ call[c] # NoCall
    /\ End(c)
    /\ UNCHANGED <<kind, object, grants, members, changes, shared, joined>>

(* One transaction: the row, the grant of its creator and the panels. *)
Create(x, o, content) ==
    /\ changes < MaxChanges
    /\ changes' = changes + 1
    /\ object[o] = NoObject
    /\ object' = [object EXCEPT ![o] = [state |-> "live", tenant |-> x.tenant,
                                         visibility |-> "public", content |-> content]]
    /\ grants' = [g \in DOMAIN grants |->
                    IF g = <<o, x.user>> THEN "owner" ELSE grants[g]]
    /\ shared' = shared \union ({x.user} \ {NoUser}) \X {o} \X {"owner"}
    /\ UNCHANGED <<kind, members, call, joined>>

create_dashboard(x, o, ps) ==
    /\ kind[o] = "dashboard" /\ validate_create_request(ps)
    /\ Create(x, o, PanelRows(ps))

(* An export, of either schema version, is created again under a new id. *)
import_dashboard(x, o, source) ==
    /\ Exists(source, x.tenant) /\ kind[source] = "dashboard"
    /\ create_dashboard(x, o, export_dashboard(source))

create_saved_view(x, o, cfg) == kind[o] = "saved_view" /\ Create(x, o, <<cfg>>)

Edit(c, x, o) ==
    /\ x.user # NoUser => grant_satisfies_write(x.user, fetch_relation(x.user, o))
    /\ Begin(c, x, o, Step("update", NoUser, NoRelation))

handle_update_dashboard(c, x, o)  == kind[o] = "dashboard" /\ Edit(c, x, o)
handle_update_saved_view(c, x, o) == kind[o] = "saved_view" /\ Edit(c, x, o)

(* Visibility stays unless the request names one; all panels are replaced. *)
Update(c, content, visibility) ==
    LET o == call[c].object
    IN /\ call[c].pc = "update" /\ Exists(o, call[c].tenant)
       /\ object' = [object EXCEPT ![o] =
                        [@ EXCEPT !.content = content,
                                  !.visibility = IF visibility = "unset"
                                                 THEN object[o].visibility ELSE visibility]]
       /\ End(c)
       /\ UNCHANGED <<kind, grants, members, changes, shared, joined>>

update_dashboard(c, ps, visibility) ==
    /\ call[c] # NoCall /\ kind[call[c].object] = "dashboard"
    /\ validate_update_request(ps, visibility)
    /\ Update(c, PanelRows(ps), visibility)

update_saved_view(c, cfg, visibility) ==
    /\ call[c] # NoCall /\ kind[call[c].object] = "saved_view"
    /\ ValidVisibility(visibility)
    /\ Update(c, <<cfg>>, visibility)

Discard(c, x, o) ==
    /\ x.user # NoUser => grant_satisfies_delete(x.user, fetch_relation(x.user, o))
    /\ Begin(c, x, o, Step("delete", NoUser, NoRelation))

handle_delete_dashboard(c, x, o)  == kind[o] = "dashboard" /\ Discard(c, x, o)
handle_delete_saved_view(c, x, o) == kind[o] = "saved_view" /\ Discard(c, x, o)

(* Panels and grants go with the row, ON DELETE CASCADE. *)
Delete(c) ==
    LET o == call[c].object
    IN /\ call[c].pc = "delete" /\ Exists(o, call[c].tenant)
       /\ object' = [object EXCEPT ![o] = [NoObject EXCEPT !.state = "deleted"]]
       /\ grants' = [g \in DOMAIN grants |-> IF g[1] = o THEN NoRelation ELSE grants[g]]
       /\ End(c)
       /\ UNCHANGED <<kind, members, changes, shared, joined>>

delete_dashboard(c)  == call[c] # NoCall /\ kind[call[c].object] = "dashboard" /\ Delete(c)
delete_saved_view(c) == call[c] # NoCall /\ kind[call[c].object] = "saved_view" /\ Delete(c)

(* The target has a role in the tenant when it is looked up. *)
Share(c, x, o, u) ==
    /\ MayShare(x, o) /\ <<u, x.tenant>> \in members
    /\ Begin(c, x, o, Step("grant", u, NoRelation))

handle_add_grant(c, x, o, u)            == kind[o] = "dashboard" /\ Share(c, x, o, u)
handle_add_saved_view_grant(c, x, o, u) == kind[o] = "saved_view" /\ Share(c, x, o, u)

(* Mutant: the row is written for an object that is gone. *)
InsertGrant_MutNoForeignKey(c, relation) ==
    LET o == call[c].object u == call[c].target
    IN /\ call[c].pc = "grant"
       /\ grants' = [grants EXCEPT ![<<o, u>>] = relation]
       /\ shared' = shared \union {<<u, o, relation>>}
       /\ End(c)
       /\ UNCHANGED <<kind, object, members, changes, joined>>

(* INSERT ... ON CONFLICT DO UPDATE, which the foreign key refuses for a deleted object. *)
InsertGrant(c, relation) ==
    LET o == call[c].object u == call[c].target
    IN /\ call[c].pc = "grant" /\ object[o].state = "live"
       /\ grants' = [grants EXCEPT ![<<o, u>>] = relation]
       /\ shared' = shared \union {<<u, o, relation>>}
       /\ End(c)
       /\ UNCHANGED <<kind, object, members, changes, joined>>

(* The relation of the target is read, and then the statement that deletes takes its
   snapshot, with the number of other owners in it. *)
Unshare(c, x, o, u) ==
    /\ MayShare(x, o)
    /\ Begin(c, x, o, Step("revoke", u, fetch_relation(u, o)))

handle_revoke_grant(c, x, o, u)            == kind[o] = "dashboard" /\ Unshare(c, x, o, u)
handle_revoke_saved_view_grant(c, x, o, u) == kind[o] = "saved_view" /\ Unshare(c, x, o, u)

RevokeSnapshot(c) ==
    LET o == call[c].object u == call[c].target
    IN /\ call[c].pc = "revoke" /\ grants[<<o, u>>] # NoRelation
       /\ call' = [call EXCEPT ![c] = [@ EXCEPT !.pc = "deleting",
                                               !.others = Cardinality(Owners(o) \ {u})]]
       /\ UNCHANGED <<kind, object, grants, members, changes, shared, joined>>

(* Mutant: the target counts as one of the remaining owners. *)
DeleteGrant_MutCountsTarget(c) ==
    LET o == call[c].object u == call[c].target
    IN /\ call[c].pc = "deleting" /\ grants[<<o, u>>] # NoRelation
       /\ call[c].relation = "owner" => call[c].others + 1 > 0
       /\ grants' = [grants EXCEPT ![<<o, u>>] = NoRelation]
       /\ End(c)
       /\ UNCHANGED <<kind, object, members, changes, shared, joined>>

DeleteGrant(c) ==
    LET o == call[c].object u == call[c].target
    IN /\ call[c].pc = "deleting" /\ grants[<<o, u>>] # NoRelation
       /\ call[c].relation = "owner" => call[c].others > 0
       /\ grants' = [grants EXCEPT ![<<o, u>>] = NoRelation]
       /\ End(c)
       /\ UNCHANGED <<kind, object, members, changes, shared, joined>>

(* admin_members.rs removes a member, whose grants stay. *)
MemberLeaves(m) ==
    /\ m \in members
    /\ members' = members \ {m}
    /\ UNCHANGED <<kind, object, grants, call, changes, shared, joined>>

ShNext ==
    \/ \E x \in Contexts, o \in Objects :
         \/ \E ps \in Contents : create_dashboard(x, o, ps)
         \/ \E source \in Objects : import_dashboard(x, o, source)
         \/ \E cfg \in ViewConfigs : create_saved_view(x, o, cfg)
         \/ \E c \in Calls :
              \/ handle_update_dashboard(c, x, o) \/ handle_update_saved_view(c, x, o)
              \/ handle_delete_dashboard(c, x, o) \/ handle_delete_saved_view(c, x, o)
              \/ \E u \in Users :
                   \/ handle_add_grant(c, x, o, u) \/ handle_add_saved_view_grant(c, x, o, u)
                   \/ handle_revoke_grant(c, x, o, u)
                   \/ handle_revoke_saved_view_grant(c, x, o, u)
    \/ \E c \in Calls :
         \/ CallEnds(c)
         \/ \E v \in {"unset", "public", "private", "other"} :
              \/ \E ps \in Contents : update_dashboard(c, ps, v)
              \/ \E cfg \in ViewConfigs : update_saved_view(c, cfg, v)
         \/ delete_dashboard(c) \/ delete_saved_view(c)
         \/ \E relation \in Relations : InsertGrant(c, relation)
         \/ RevokeSnapshot(c) \/ DeleteGrant(c)
    \/ \E m \in members : MemberLeaves(m)

ShSpec == ShInit /\ [][ShNext]_shVars

(***************************************************************************)
(* Properties.                                                             *)
(***************************************************************************)
Live(o) == object[o].state = "live"

SharedObjectsTypeOK ==
    /\ kind \in [Objects -> {"dashboard", "saved_view"}]
    /\ object \in [Objects -> [state : {"none", "live", "deleted"},
                               tenant : Tenants \union {NoTenant},
                               visibility : {"public", "private"},
                               content : Seq(DashboardPanelRequest) \union Seq(ViewConfigs)]]
    /\ grants \in [Objects \X Users -> Relations \union {NoRelation}]
    /\ members \subseteq Users \X Tenants
    /\ call \in [Calls -> [pc : {"idle", "update", "delete", "grant", "revoke", "deleting"},
                           user : Users \union {NoUser}, tenant : Tenants \union {NoTenant},
                           object : Objects \union {"none"}, target : Users \union {NoUser},
                           relation : Relations \union {NoRelation},
                           others : 0..Cardinality(Users)]]
    /\ changes \in 0..MaxChanges

(* A grant never outlives its object, whichever of a delete and a grant in flight wins, and
   is never given to someone who has had no role in the tenant of the object. *)
GrantsHaveObjects ==
    \A g \in Objects \X Users : grants[g] # NoRelation =>
        Live(g[1]) /\ <<g[2], object[g[1]].tenant>> \in joined

(* What a caller finds in the lists is what a GET of the single object answers: the SQL
   filter of the lists and grant_satisfies_read agree. *)
ListedIsReadable ==
    \A x \in Contexts, o \in Objects :
        (o \in list_dashboards(x) \union list_saved_views(x))
        <=> (handle_get_dashboard(x, o) \/ handle_get_saved_view(x, o))

(* A dashboard with panels survives an export and an import unchanged: an update stores
   nothing that a create would refuse or would normalise to something else. *)
ExportRoundTrip ==
    \A o \in Objects : Live(o) /\ kind[o] = "dashboard" /\ object[o].content # <<>> =>
        /\ validate_create_request(export_dashboard(o))
        /\ PanelRows(export_dashboard(o)) = object[o].content

(* A stored panel fits into the twelve columns unless x + w has wrapped around. *)
PanelsFit ==
    \A o \in Objects : Live(o) /\ kind[o] = "dashboard" =>
        \A i \in DOMAIN object[o].content :
            LET l == object[o].content[i].layout
            IN l.x + l.w <= 12 \/ l.x > MaxInt - 12

(* An object changes only on behalf of its tenant, and of a user only when the user is an
   administrator or has been given a relation that allows it, however stale the check. *)
ChangesWereAuthorized ==
    [][\A o \in Objects : Live(o) /\ object'[o] # object[o] =>
         \E c \in Calls :
            LET u == call[c].user
            IN /\ call[c].object = o /\ call[c].tenant = object[o].tenant
               /\ \/ u \in Administrators \union {NoUser}
                  \/ <<u, o, "owner">> \in shared
                  \/ call[c].pc = "update" /\ <<u, o, "editor">> \in shared]_shVars

(* A revocation whose reads still hold when it deletes leaves the object an owner. *)
AccurateRevokeKeepsOwner ==
    [][\A c \in Calls :
         LET o == call[c].object u == call[c].target
         IN /\ call[c].pc = "deleting" /\ call'[c] = NoCall /\ Live(o)
            /\ call[c].relation = fetch_relation(u, o)
            /\ call[c].others = Cardinality(Owners(o) \ {u})
            /\ Owners(o) # {}
            => \E v \in Users : grants'[<<o, v>>] = "owner"]_shVars

(* The comment in handle_revoke_grant: "Atomically delete the grant only if it's not the last
   owner.  A plain DELETE would be a TOCTOU race ... two concurrent revokers could both pass
   the check."  The statement that deletes an owner never takes the last one. *)
RevokeKeepsOwner ==
    [][\A c \in Calls :
         LET o == call[c].object
         IN /\ call[c].pc = "deleting" /\ call[c].relation = "owner" /\ call'[c] = NoCall
            /\ Live(o) /\ Owners(o) # {}
            => \E v \in Users : grants'[<<o, v>>] = "owner"]_shVars

(* Shared objects are consistent: grants with objects, lists with single reads, stored panels
   with what an import accepts. *)
SharedObjectsAgree ==
    SharedObjectsTypeOK /\ GrantsHaveObjects /\ ListedIsReadable /\ ExportRoundTrip /\ PanelsFit

-----------------------------------------------------------------------------
(* Why these hold.  A stored panel is valid and leaves nothing to normalise. *)
PanelsAreStored ==
    \A o \in Objects : Live(o) /\ kind[o] = "dashboard" =>
        /\ object[o].content \in Seq(DashboardPanelRequest)
        /\ \A i \in DOMAIN object[o].content :
              LET p == object[o].content[i]
              IN ValidPanel(p) /\ p.panel_kind # "none" /\ p.layout # NoLayout
                 /\ p.time_range # NoRange

(* A relation is one that was granted, and members are remembered. *)
RelationsWereShared ==
    /\ \A g \in Objects \X Users : grants[g] # NoRelation => <<g[2], g[1], grants[g]>> \in shared
    /\ members \subseteq joined

(* What the first read of a handler has found, as far as it cannot change.  An id names one
   object for ever. *)
CallsWereChecked ==
    \A c \in Calls :
        LET k == call[c]
        IN k # NoCall =>
              /\ k.pc # "idle" /\ k.object \in Objects /\ object[k.object].state # "none"
              /\ Live(k.object) => object[k.object].tenant = k.tenant
              /\ k.pc \in {"grant", "revoke", "deleting"} => k.target \in Users
              /\ k.pc = "grant" => <<k.target, k.tenant>> \in joined
              /\ k.pc \in {"update", "delete"} =>
                    \/ k.user \in Administrators \union {NoUser}
                    \/ <<k.user, k.object, "owner">> \in shared
                    \/ k.pc = "update" /\ <<k.user, k.object, "editor">> \in shared

SharedInv ==
    /\ SharedObjectsTypeOK /\ GrantsHaveObjects /\ PanelsAreStored
    /\ RelationsWereShared /\ CallsWereChecked

=============================================================================
