----------------------------- MODULE Deployments -----------------------------
(***************************************************************************)
(* Deployment markers: deployments.rs of admin-service writes them to      *)
(* PostgreSQL and publishes each change, best effort, to                   *)
(* deployment.markers.v1; every ingest-gateway keeps the events it has     *)
(* consumed in memory (deployment_registry.rs) and stamps the spans that   *)
(* arrive over HTTP with the deployment it finds there.                    *)
(*                                                                         *)
(* Each step of the model that reads the clock moves it, so that no two    *)
(* times are equal.  The gateways consume in one group: the partition of   *)
(* the markers belongs to one of them at a time.  One service and one      *)
(* environment stand for all: both are compared for equality only.         *)
(***************************************************************************)
EXTENDS Tenancy, Naturals, Sequences, FiniteSets

CONSTANTS
    DeploymentIds,
    Versions,       \* service_version
    AnyVersion,     \* the empty version, which matches every other
    Gateways,
    Publishers,     \* requests of admin-service being served at a time
    MaxFinishes,    \* bound: PATCH requests
    MaxRestarts     \* bound: restarts and rebalances of gateways

ASSUME DeploymentsAssumption ==
    /\ AnyVersion \notin Versions /\ MaxFinishes \in Nat /\ MaxRestarts \in Nat
    /\ IsFiniteSet(DeploymentIds)

FinalStatuses  == {"success", "failed", "rolled_back"}
ActiveStatuses == {"in_progress", "success"}
NoMarker == [status |-> "none", tenant |-> NoTenant, version |-> AnyVersion, started |-> 0,
             finished |-> 0]
NoEvent  == [id |-> "none", status |-> "none", tenant |-> NoTenant, version |-> AnyVersion,
             started |-> 0]

VARIABLES
    markers,    \* deployment_markers
    clock,
    publishing, \* events that requests have still to publish, NoEvent if none
    markerLog,  \* deployment.markers.v1
    committed,  \* the offset committed by the group: events consumed and acknowledged
    position,   \* events the current owner of the partition has consumed
    owner,      \* the gateway that has the partition
    registry,   \* DeploymentRegistry of each gateway
    stopped,    \* gateways whose consumer task has ended
    finishes, restarts,
    disturbed   \* history: an event was lost or two requests raced, or a gateway restarted

depVars == <<markers, clock, publishing, markerLog, committed, position, owner, registry,
             stopped, finishes, restarts, disturbed>>

DepInit ==
    /\ markers = [d \in DeploymentIds |-> NoMarker]
    /\ clock = 0
    /\ publishing = [p \in Publishers |-> NoEvent]
    /\ markerLog = <<>> /\ committed = 0 /\ position = 0
    /\ owner \in Gateways
    /\ registry = [g \in Gateways |-> [d \in DeploymentIds |-> NoEvent]]
    /\ stopped = {} /\ finishes = 0 /\ restarts = 0 /\ disturbed = FALSE

Event(d, m) == [id |-> d, status |-> m.status, tenant |-> m.tenant, version |-> m.version,
                started |-> 0]

Racing(d) == \E p \in Publishers : publishing[p].id = d

(* An API key of the tenant with the role member or admin; the row is written, the event is
   published by the next step. *)
create_deployment(p, d, t, v) ==
    LET m == [status |-> "in_progress", tenant |-> t, version |-> v, started |-> clock + 1,
              finished |-> 0]
    IN /\ publishing[p] = NoEvent /\ markers[d] = NoMarker
       /\ clock' = clock + 1
       /\ markers' = [markers EXCEPT ![d] = m]
       /\ publishing' = [publishing EXCEPT ![p] = Event(d, m)]
       /\ UNCHANGED <<markerLog, committed, position, owner, registry, stopped, finishes,
                      restarts, disturbed>>

(* The status of the row is not looked at: a finished deployment can be finished again.  The
   time is the client's, which may be any, or now. *)
finish_deployment(p, d, t, status, at) ==
    LET m == [markers[d] EXCEPT !.status = status, !.finished = at]
    IN /\ publishing[p] = NoEvent /\ finishes < MaxFinishes
       /\ markers[d] # NoMarker /\ markers[d].tenant = t
       /\ finishes' = finishes + 1
       /\ markers' = [markers EXCEPT ![d] = m]
       /\ publishing' = [publishing EXCEPT ![p] = Event(d, m)]
       /\ disturbed' = (disturbed \/ Racing(d))
       /\ UNCHANGED <<clock, markerLog, committed, position, owner, registry, stopped,
                      restarts>>

(* started_at_unix_nano is the time of the publication, whatever the status. *)
publish_deployment_event(p) ==
    /\ publishing[p] # NoEvent
    /\ clock' = clock + 1
    /\ markerLog' = Append(markerLog, [publishing[p] EXCEPT !.started = clock'])
    /\ publishing' = [publishing EXCEPT ![p] = NoEvent]
    /\ UNCHANGED <<markers, committed, position, owner, registry, stopped, finishes, restarts,
                   disturbed>>

(* The broker is away for longer than the five seconds of the producer, or the pod dies. *)
PublishFails(p) ==
    /\ publishing[p] # NoEvent
    /\ publishing' = [publishing EXCEPT ![p] = NoEvent]
    /\ disturbed' = TRUE
    /\ UNCHANGED <<markers, clock, markerLog, committed, position, owner, registry, stopped,
                   finishes, restarts>>

(* Mutant: an event of a deployment that is known is ignored. *)
apply_event_MutFirstWins(reg, e) == IF reg[e.id] = NoEvent THEN [reg EXCEPT ![e.id] = e] ELSE reg

(* An event replaces what was known of its deployment. *)
apply_event(reg, e) == [reg EXCEPT ![e.id] = e]

(* One turn of run_consumer. *)
run_consumer(g) ==
    /\ g = owner /\ g \notin stopped /\ position < Len(markerLog)
    /\ registry' = [registry EXCEPT ![g] = apply_event(@, markerLog[position + 1])]
    /\ position' = position + 1
    /\ UNCHANGED <<markers, clock, publishing, markerLog, committed, owner, stopped, finishes,
                   restarts, disturbed>>

(* enable.auto.commit, at some time. *)
AutoCommit ==
    /\ committed < position
    /\ committed' = position
    /\ UNCHANGED <<markers, clock, publishing, markerLog, position, owner, registry, stopped,
                   finishes, restarts, disturbed>>

(* recv returns an error and the task ends; nothing starts it again in this process. *)
ConsumerStops(g) ==
    /\ g \notin stopped /\ restarts < MaxRestarts
    /\ restarts' = restarts + 1
    /\ stopped' = stopped \union {g}
    /\ disturbed' = TRUE
    /\ UNCHANGED <<markers, clock, publishing, markerLog, committed, position, owner, registry,
                   finishes>>

(* A gateway starts anew, with an empty registry; the group gives the partition to whichever
   gateway it likes, from the committed offset on. *)
GatewayRestarts(g, h) ==
    /\ restarts < MaxRestarts
    /\ restarts' = restarts + 1
    /\ registry' = [registry EXCEPT ![g] = [d \in DeploymentIds |-> NoEvent]]
    /\ stopped' = stopped \ {g}
    /\ owner' = h /\ position' = committed
    /\ disturbed' = TRUE
    /\ UNCHANGED <<markers, clock, publishing, markerLog, committed, finishes>>

(* The candidates of a lookup, in a table of markers or in a registry. *)
Matching(table, t, v) ==
    {d \in DeploymentIds : /\ table[d].tenant = t /\ v \in {AnyVersion, table[d].version}
                           /\ table[d].status \in ActiveStatuses}

LatestOf(table, ds) ==
    IF ds = {} THEN {} ELSE {d \in ds : \A e \in ds : table[e].started <= table[d].started}

(* Mutant: the tenant is not compared. *)
lookup_MutAnyTenant(g, t, v) ==
    LatestOf(registry[g], UNION {Matching(registry[g], s, v) : s \in Tenants})

(* The id that an HTTP span without one is stamped with; {} is the empty string. *)
lookup(g, t, v) == LatestOf(registry[g], Matching(registry[g], t, v))

-----------------------------------------------------------------------------
(* What admin-service shows of the markers. *)

(* The newest deployments that started in the range, at most limit of them. *)
list_deployments(t, from, to, limit) ==
    LET ds == {d \in DeploymentIds : /\ markers[d] # NoMarker /\ markers[d].tenant = t
                                     /\ from <= markers[d].started /\ markers[d].started <= to}
    IN {d \in ds : Cardinality({e \in ds : markers[e].started > markers[d].started}) < limit}

(* DISTINCT ON ... ORDER BY started_at DESC: the version of the latest, whatever its status. *)
handle_deployment_enrichment(t) ==
    {markers[d].version :
        d \in LatestOf(markers, {e \in DeploymentIds : markers[e] # NoMarker /\ markers[e].tenant = t})}

(* Mutant: a deployment that has not finished is left out. *)
handle_deployment_correlation_MutFinished(t, from, to) ==
    {d \in DeploymentIds : /\ markers[d] # NoMarker /\ markers[d].tenant = t
                           /\ markers[d].started <= to
                           /\ markers[d].finished >= from}

(* Deployments that were under way in the range; 0 is NULL. *)
handle_deployment_correlation(t, from, to) ==
    {d \in DeploymentIds : /\ markers[d] # NoMarker /\ markers[d].tenant = t
                           /\ markers[d].started <= to
                           /\ (markers[d].finished = 0 \/ markers[d].finished >= from)}

DepNext ==
    \/ \E p \in Publishers :
         \/ \E d \in DeploymentIds, t \in Tenants :
              \/ \E v \in Versions : create_deployment(p, d, t, v)
              \/ \E status \in FinalStatuses, at \in {1, clock} : finish_deployment(p, d, t, status, at)
         \/ publish_deployment_event(p)
         \/ PublishFails(p)
    \/ \E g \in Gateways :
         \/ run_consumer(g) \/ ConsumerStops(g)
         \/ \E h \in Gateways : GatewayRestarts(g, h)
    \/ AutoCommit

DepSpec == DepInit /\ [][DepNext]_depVars

(***************************************************************************)
(* Properties.                                                             *)
(***************************************************************************)
(* Whatever is lost, replayed or forgotten, a span is stamped only with a deployment that
   the markers have for its tenant, and for its version if it names one. *)
StampsAreReal ==
    \A g \in Gateways, t \in Tenants, v \in Versions \union {AnyVersion} :
        \A d \in lookup(g, t, v) :
            /\ markers[d] # NoMarker /\ markers[d].tenant = t
            /\ v \in {AnyVersion, markers[d].version}

CaughtUp == (\A p \in Publishers : publishing[p] = NoEvent) /\ position = Len(markerLog)

(* The registry ends up with the status of every marker: without failures and with one
   request at a time per deployment, the gateway that has consumed everything knows the
   current status of each. *)
RegistryFollowsMarkers ==
    CaughtUp /\ ~disturbed =>
        \A d \in DeploymentIds : registry[owner][d].status = markers[d].status

(* The list of deployments, the catalog and the reliability report agree: the version that
   the catalog shows is that of the first deployment listed, a deployment that started in a
   range is in the report of the range unless its client dated its end before its start, and
   what the report has besides started before the range. *)
DeploymentViewsAgree ==
    \A t \in Tenants :
        /\ handle_deployment_enrichment(t)
             = {markers[d].version : d \in list_deployments(t, 0, clock, 1)}
        /\ \A from, to \in 0 .. clock : from <= to =>
             LET listed   == list_deployments(t, from, to, Cardinality(DeploymentIds))
                 reported == handle_deployment_correlation(t, from, to)
             IN /\ \A d \in listed \ reported : markers[d].finished \in 1 .. (markers[d].started - 1)
                /\ \A d \in reported \ listed : markers[d].started < from

(* The registries of the gateways never invent a deployment and, undisturbed, keep up. *)
RegistryIsFaithful == StampsAreReal /\ RegistryFollowsMarkers /\ DeploymentViewsAgree

-----------------------------------------------------------------------------
(* Why these hold.                                                         *)
MarkerStatuses == ActiveStatuses \union FinalStatuses

MarkerRow ==
    [status : MarkerStatuses \union {"none"}, tenant : Tenants \union {NoTenant},
     version : Versions \union {AnyVersion}, started : Nat, finished : Nat]

MarkerEvent ==
    [id : DeploymentIds \union {"none"}, status : MarkerStatuses \union {"none"},
     tenant : Tenants \union {NoTenant}, version : Versions \union {AnyVersion}, started : Nat]

DeploymentsTypeOK ==
    /\ markers \in [DeploymentIds -> MarkerRow]
    /\ clock \in Nat /\ finishes \in Nat /\ restarts \in Nat
    /\ publishing \in [Publishers -> MarkerEvent]
    /\ markerLog \in Seq(MarkerEvent)
    /\ committed \in Nat /\ position \in Nat
    /\ committed <= position /\ position <= Len(markerLog)
    /\ owner \in Gateways /\ stopped \subseteq Gateways /\ disturbed \in BOOLEAN
    /\ registry \in [Gateways -> [DeploymentIds -> MarkerEvent]]
    /\ \A d \in DeploymentIds : markers[d] # NoMarker => markers[d].started \in 1 .. clock

(* An event of a deployment that the markers have.                         *)
Real(e) ==
    /\ e.id \in DeploymentIds /\ e.status \in MarkerStatuses
    /\ markers[e.id] # NoMarker
    /\ e.tenant = markers[e.id].tenant /\ e.version = markers[e.id].version

EventsAreReal ==
    /\ \A p \in Publishers : publishing[p] = NoEvent \/ Real(publishing[p])
    /\ \A i \in DOMAIN markerLog : Real(markerLog[i])
    /\ \A g \in Gateways, d \in DeploymentIds :
          registry[g][d] = NoEvent \/ (Real(registry[g][d]) /\ registry[g][d].id = d)

Pending(p, d) == publishing[p] # NoEvent /\ publishing[p].id = d

(* The current status of a deployment is still to be published, or in the  *)
(* last event of it that the owner of the partition has not consumed, or   *)
(* what that gateway knows.                                                *)
OnItsWay(d) ==
    /\ \A p, q \in Publishers : Pending(p, d) /\ Pending(q, d) => p = q
    /\ \A p \in Publishers : Pending(p, d) => publishing[p].status = markers[d].status
    /\ (\A p \in Publishers : ~Pending(p, d)) =>
          \/ /\ registry[owner][d].status = markers[d].status
             /\ \A i \in position + 1 .. Len(markerLog) : markerLog[i].id # d
          \/ \E i \in position + 1 .. Len(markerLog) :
                /\ markerLog[i].id = d /\ markerLog[i].status = markers[d].status
                /\ \A j \in i + 1 .. Len(markerLog) : markerLog[j].id # d

StatusIsOnItsWay == ~disturbed => \A d \in DeploymentIds : OnItsWay(d)

DeploymentsInv == DeploymentsTypeOK /\ EventsAreReal /\ StatusIsOnItsWay

=============================================================================
