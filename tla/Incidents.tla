------------------------------- MODULE Incidents -------------------------------
(***************************************************************************)
(* services/alert-evaluator: the statements that write incidents and their *)
(* timelines.  The evaluation worker opens and resolves incidents, while   *)
(* responders acknowledge them, move their status, comment and link        *)
(* deployments.  No transaction spans two statements, so each is a step,   *)
(* and a failure leaves those before it in force.                          *)
(***************************************************************************)
EXTENDS Naturals, Sequences, FiniteSets

CONSTANTS
    IncidentRules,  \* rules with auto_trigger_incident
    Responders,     \* responders, each with one request at a time
    Payloads,       \* actors given in requests: "absent", "blank" or a name
    MaxIncidents,   \* bound: incidents
    MaxActs         \* bound: requests of responders and statements that fail, together

VARIABLES
    rows,     \* incidents: Seq of records, with the events of each timeline
    upsert,   \* where the worker is in the upsert or the resolve of a rule
    calls,    \* [Responders -> the request in progress]
    acts,
    losses

inVars == <<rows, upsert, calls, acts, losses>>

IncidentStatuses == {"triggered", "acknowledged", "investigating", "resolved", "post_mortem"}
Ended     == {"resolved", "post_mortem"}
Nobody    == "responder"     \* actor_name of a request that names no actor
NoUpsert  == [at |-> "idle", rule |-> "none", fired |-> FALSE, found |-> 0]
NoRequest == [op |-> "none", at |-> "idle", inc |-> 0, status |-> "triggered",
              actor |-> Nobody, ack |-> "none"]

OpenRows(r) == {k \in DOMAIN rows : rows[k].rule = r /\ rows[k].status \notin Ended}

InInit ==
    /\ rows = <<>> /\ upsert = NoUpsert /\ acts = 0 /\ losses = 0
    /\ calls = [p \in Responders |-> NoRequest]

(* A write of status s; the history field closed says it has ever ended.   *)
SetStatus(k, s) ==
    [rows EXCEPT ![k] = [@ EXCEPT !.status = s, !.closed = rows[k].closed \/ s \in Ended]]

AddEvent(k, type, actor) == [rows EXCEPT ![k].log = @ \union {<<type, actor>>}]

-----------------------------------------------------------------------------
(***************************************************************************)
(* The worker: upsert_incident_from_firing for a firing that is active,    *)
(* resolve_incident_for_firing for one that has ended.                     *)
(***************************************************************************)
Evaluate(r, fired) ==
    /\ upsert.at = "idle"
    /\ upsert' = [at |-> "select", rule |-> r, fired |-> fired, found |-> 0]
    /\ UNCHANGED <<rows, calls, acts, losses>>

(* Mutant: an acknowledged incident is not found.                          *)
SelectOpenIncident_MutTriggered ==
    /\ upsert.at = "select"
    /\ \E k \in DOMAIN rows \union {0} :
         /\ IF k = 0 THEN \A j \in OpenRows(upsert.rule) : rows[j].status # "triggered"
            ELSE k \in OpenRows(upsert.rule) /\ rows[k].status = "triggered"
         /\ upsert' = IF k = 0 /\ ~upsert.fired THEN NoUpsert
                      ELSE [upsert EXCEPT !.found = k, !.at =
                               IF ~upsert.fired THEN "close"
                               ELSE IF k = 0 THEN "insert" ELSE "fired"]
    /\ UNCHANGED <<rows, calls, acts, losses>>

(* SELECT ... LIMIT 1: any open incident with the rule's dedup_key.        *)
SelectOpenIncident ==
    /\ upsert.at = "select"
    /\ \E k \in DOMAIN rows \union {0} :
         /\ IF k = 0 THEN OpenRows(upsert.rule) = {} ELSE k \in OpenRows(upsert.rule)
         /\ upsert' = IF k = 0 /\ ~upsert.fired THEN NoUpsert
                      ELSE [upsert EXCEPT !.found = k, !.at =
                               IF ~upsert.fired THEN "close"
                               ELSE IF k = 0 THEN "insert" ELSE "fired"]
    /\ UNCHANGED <<rows, calls, acts, losses>>

(* upsert_incident_from_firing: the incident, its first event, and the     *)
(* event of the firing, which an open incident gets as well.               *)
upsert_incident_from_firing ==
    /\ \/ /\ upsert.at = "insert" /\ Len(rows) < MaxIncidents
          /\ rows' = Append(rows, [rule |-> upsert.rule, status |-> "triggered", closed |-> FALSE,
                                   ack |-> "none", dated |-> FALSE, linked |-> FALSE, log |-> {}])
          /\ upsert' = [upsert EXCEPT !.found = Len(rows) + 1, !.at = "triggered"]
       \/ /\ upsert.at = "triggered"
          /\ rows' = AddEvent(upsert.found, "triggered", "system")
          /\ upsert' = [upsert EXCEPT !.at = "fired"]
       \/ /\ upsert.at = "fired"
          /\ rows' = AddEvent(upsert.found, "alert_fired", "system")
          /\ upsert' = NoUpsert
    /\ UNCHANGED <<calls, acts, losses>>

(* resolve_incident_for_firing: the UPDATE does not look at the status.    *)
resolve_incident_for_firing ==
    /\ \/ /\ upsert.at = "close"
          /\ rows' = [SetStatus(upsert.found, "resolved") EXCEPT ![upsert.found].dated = TRUE]
          /\ upsert' = [upsert EXCEPT !.at = "closed"]
       \/ /\ upsert.at = "closed"
          /\ rows' = AddEvent(upsert.found, "alert_resolved", "system")
          /\ upsert' = NoUpsert
    /\ UNCHANGED <<calls, acts, losses>>

-----------------------------------------------------------------------------
(***************************************************************************)
(* Requests.  An actor given in the payload wins over the user of the      *)
(* session, also when it is blank; a blank one becomes "responder".        *)
(***************************************************************************)
ActorName(given, user) ==
    IF given = "absent" THEN user ELSE IF given = "blank" THEN Nobody ELSE given

BeginRequest(p, op, k, s, given) ==
    /\ calls[p] = NoRequest /\ acts + losses < MaxActs /\ k \in DOMAIN rows
    /\ acts' = acts + 1
    /\ calls' = [calls EXCEPT ![p] = [op |-> op, at |-> "read", inc |-> k, status |-> s,
                                      actor |-> ActorName(given, p), ack |-> "none"]]
    /\ UNCHANGED <<rows, upsert, losses>>

handle_acknowledge_incident(p, k, given)      == BeginRequest(p, "acknowledge", k, "acknowledged", given)
handle_update_incident_status(p, k, s, given) == BeginRequest(p, "status", k, s, given)
handle_resolve_incident(p, k, given)          == BeginRequest(p, "status", k, "resolved", given)
handle_add_incident_comment(p, k, given)      == BeginRequest(p, "comment", k, "triggered", given)
handle_link_incident_deployment(p, k, given)  == BeginRequest(p, "link", k, "triggered", given)

Goto(p, at) == calls' = [calls EXCEPT ![p].at = at]
Answer(p)   == calls' = [calls EXCEPT ![p] = NoRequest]

(* acknowledge_incident reads the status and who acknowledged, writes both *)
(* from what it read, and adds its event.                                  *)
acknowledge_incident(p) ==
    LET c == calls[p] IN
    /\ c.op = "acknowledge"
    /\ \/ /\ c.at = "read"
          /\ IF rows[c.inc].status \in Ended THEN Answer(p)
             ELSE calls' = [calls EXCEPT ![p] = [@ EXCEPT !.at = "write",
                                                          !.ack = rows[c.inc].ack]]
          /\ UNCHANGED rows
       \/ /\ c.at = "write"
          /\ rows' = [SetStatus(c.inc, "acknowledged") EXCEPT
                         ![c.inc].ack = IF c.ack = "none" THEN c.actor ELSE c.ack]
          /\ Goto(p, "event")
       \/ /\ c.at = "event"
          /\ rows' = AddEvent(c.inc, "acknowledged", c.actor)
          /\ Answer(p)
    /\ UNCHANGED <<upsert, acts, losses>>

EventType(s) == IF s = "acknowledged" THEN "acknowledged"
                ELSE IF s = "resolved" THEN "alert_resolved" ELSE "status_change"

(* COALESCE keeps the first acknowledger.                                  *)
Coalesce(k, actor) == IF rows[k].ack = "none" THEN actor ELSE rows[k].ack

(* Mutant: resolved is written by the branch of the other statuses.        *)
StatusUpdate_MutUndated(k, s, actor) ==
    CASE s = "acknowledged" -> [SetStatus(k, s) EXCEPT ![k].ack = Coalesce(k, actor)]
      [] OTHER              -> SetStatus(k, s)

(* The three forms of the UPDATE.                                          *)
StatusUpdate(k, s, actor) ==
    CASE s = "resolved"     -> [SetStatus(k, s) EXCEPT ![k].dated = TRUE]
      [] s = "acknowledged" -> [SetStatus(k, s) EXCEPT ![k].ack = Coalesce(k, actor)]
      [] OTHER              -> SetStatus(k, s)

(* Mutant: acknowledging by a status change leaves no event of that kind.  *)
update_incident_status_MutEvent(p) ==
    LET c == calls[p] IN
    /\ c.op = "status"
    /\ \/ c.at = "read" /\ Goto(p, "write") /\ UNCHANGED rows
       \/ /\ c.at = "write"
          /\ rows' = StatusUpdate(c.inc, c.status, c.actor)
          /\ Goto(p, "event")
       \/ /\ c.at = "event"
          /\ rows' = AddEvent(c.inc, "status_change", c.actor)
          /\ Answer(p)
    /\ UNCHANGED <<upsert, acts, losses>>

(* update_incident_status: any valid status may follow any other.          *)
update_incident_status(p) ==
    LET c == calls[p] IN
    /\ c.op = "status"
    /\ \/ c.at = "read" /\ Goto(p, "write") /\ UNCHANGED rows
       \/ /\ c.at = "write"
          /\ rows' = StatusUpdate(c.inc, c.status, c.actor)
          /\ Goto(p, "event")
       \/ /\ c.at = "event"
          /\ rows' = AddEvent(c.inc, EventType(c.status), c.actor)
          /\ Answer(p)
    /\ UNCHANGED <<upsert, acts, losses>>

(* The event comes first, then updated_at, which is not kept here.         *)
add_incident_comment(p) ==
    LET c == calls[p] IN
    /\ c.op = "comment"
    /\ \/ c.at = "read" /\ Goto(p, "event") /\ UNCHANGED rows
       \/ /\ c.at = "event"
          /\ rows' = AddEvent(c.inc, "comment", c.actor)
          /\ Goto(p, "touch")
       \/ c.at = "touch" /\ Answer(p) /\ UNCHANGED rows
    /\ UNCHANGED <<upsert, acts, losses>>

link_incident_deployment(p) ==
    LET c == calls[p] IN
    /\ c.op = "link"
    /\ \/ c.at = "read" /\ Goto(p, "write") /\ UNCHANGED rows
       \/ /\ c.at = "write"
          /\ rows' = [rows EXCEPT ![c.inc].linked = TRUE]
          /\ Goto(p, "event")
       \/ /\ c.at = "event"
          /\ rows' = AddEvent(c.inc, "deployment_linked", c.actor)
          /\ Answer(p)
    /\ UNCHANGED <<upsert, acts, losses>>

-----------------------------------------------------------------------------
(* A statement fails: the worker logs it and goes on, a request ends in a  *)
(* 500.                                                                    *)
StatementFails ==
    /\ acts + losses < MaxActs /\ losses' = losses + 1
    /\ \/ upsert # NoUpsert /\ upsert' = NoUpsert /\ UNCHANGED calls
       \/ /\ \E p \in Responders : calls[p] # NoRequest /\ Answer(p)
          /\ UNCHANGED upsert
    /\ UNCHANGED <<rows, acts>>

(***************************************************************************)
(* What the reliability report of query-api makes of the incidents.        *)
(***************************************************************************)
(* Mutant: an incident under investigation is not open.                    *)
compute_incident_summary_MutTriggered ==
    [total    |-> Len(rows),
     open     |-> Cardinality({k \in DOMAIN rows : rows[k].status \in {"triggered", "acknowledged"}}),
     resolved |-> Cardinality({k \in DOMAIN rows : rows[k].dated})]

(* Open by the status, resolved by resolved_at.                            *)
compute_incident_summary ==
    [total    |-> Len(rows),
     open     |-> Cardinality({k \in DOMAIN rows : rows[k].status # "resolved"}),
     resolved |-> Cardinality({k \in DOMAIN rows : rows[k].dated})]

InNext ==
    \/ \E r \in IncidentRules, fired \in BOOLEAN : Evaluate(r, fired)
    \/ SelectOpenIncident
    \/ upsert_incident_from_firing
    \/ resolve_incident_for_firing
    \/ \E p \in Responders, k \in DOMAIN rows, given \in Payloads :
          \/ handle_acknowledge_incident(p, k, given)
          \/ \E s \in IncidentStatuses : handle_update_incident_status(p, k, s, given)
          \/ handle_resolve_incident(p, k, given)
          \/ handle_add_incident_comment(p, k, given)
          \/ handle_link_incident_deployment(p, k, given)
    \/ \E p \in Responders :
          \/ acknowledge_incident(p) \/ update_incident_status(p)
          \/ add_incident_comment(p) \/ link_incident_deployment(p)
    \/ StatementFails

InSpec == InInit /\ [][InNext]_inVars

-----------------------------------------------------------------------------
(* The dedup_key works as long as nothing is reopened: of two open         *)
(* incidents of one rule, at least one has been closed before and came     *)
(* back through a request that had read its status earlier.                *)
DuplicatesWereReopened ==
    \A i, j \in DOMAIN rows :
        i # j /\ rows[i].rule = rows[j].rule
              /\ rows[i].status \notin Ended /\ rows[j].status \notin Ended
        => rows[i].closed \/ rows[j].closed

(* A resolved incident carries its resolution time, also when a resolve of *)
(* the worker and a responder's request overwrite each other.              *)
ResolutionIsDated ==
    \A k \in DOMAIN rows : rows[k].status = "resolved" => rows[k].dated

Written(k, type) == \E e \in rows[k].log : e[1] = type

(* The timeline accounts for the incident once no request or worker is     *)
(* half-way through and no statement has failed: the status, the           *)
(* acknowledger and the linked deployment have each left an event.         *)
TimelineExplains ==
    (losses = 0 /\ upsert = NoUpsert /\ \A p \in Responders : calls[p] = NoRequest) =>
        \A k \in DOMAIN rows :
            /\ Written(k, "triggered")
            /\ rows[k].status # "triggered" => Written(k, EventType(rows[k].status))
            /\ rows[k].ack # "none" => <<"acknowledged", rows[k].ack>> \in rows[k].log
            /\ rows[k].linked => Written(k, "deployment_linked")

(* The reliability report forgets no incident, and counts one twice, as    *)
(* open and as resolved, only if it was closed before: its time of         *)
(* resolution is kept when it is reopened.                                 *)
ReportCountsIncidents ==
    LET report == compute_incident_summary
    IN /\ report.open + report.resolved >= report.total
       /\ report.open + report.resolved - report.total
            <= Cardinality({k \in DOMAIN rows : rows[k].closed /\ rows[k].status # "resolved"})

(* The rows of an incident and its timeline agree whatever the worker and  *)
(* the responders overwrite of each other.                                 *)
IncidentRecordsAgree ==
    DuplicatesWereReopened /\ ResolutionIsDated /\ TimelineExplains /\ ReportCountsIncidents

-----------------------------------------------------------------------------
(* Why these hold.                                                         *)
Actors     == Responders \union Payloads \union {Nobody, "none", "system"}
EventTypes == {"triggered", "alert_fired", "alert_resolved", "acknowledged", "status_change",
               "comment", "deployment_linked"}

IncidentRow ==
    [rule : IncidentRules, status : IncidentStatuses, closed : BOOLEAN, ack : Actors,
     dated : BOOLEAN, linked : BOOLEAN, log : SUBSET (EventTypes \X Actors)]

IncidentsTypeOK ==
    /\ rows \in Seq(IncidentRow)
    /\ upsert \in [at : {"idle", "select", "insert", "triggered", "fired", "close", "closed"},
                   rule : IncidentRules \union {"none"}, fired : BOOLEAN, found : Nat]
    /\ upsert.at # "idle" => upsert.rule \in IncidentRules
    /\ upsert.at \in {"triggered", "fired", "close", "closed"} => upsert.found \in DOMAIN rows
    /\ calls \in [Responders -> [op : {"none", "acknowledge", "status", "comment", "link"},
                                 at : {"idle", "read", "write", "event", "touch"}, inc : Nat,
                                 status : IncidentStatuses, actor : Actors, ack : Actors]]
    /\ \A p \in Responders : calls[p].at # "idle" => calls[p].inc \in DOMAIN rows
    /\ acts \in Nat /\ losses \in Nat

(* What has ended was marked, and what has a resolution time has ended.    *)
EndsAreMarked ==
    \A k \in DOMAIN rows : rows[k].status \in Ended \/ rows[k].dated => rows[k].closed

(* The worker inserts only where there is nothing to find but incidents    *)
(* that have come back.                                                    *)
InsertIsNeeded ==
    upsert.at = "insert" =>
        \A k \in DOMAIN rows : rows[k].rule = upsert.rule /\ rows[k].status \notin Ended
                                => rows[k].closed

EventOf(c) ==
    IF c.op = "acknowledge" THEN "acknowledged"
    ELSE IF c.op = "status" THEN EventType(c.status)
    ELSE IF c.op = "link" THEN "deployment_linked" ELSE "comment"

(* An event is in the timeline, or the worker or a request is about to     *)
(* write it.                                                               *)
Due(k, type) ==
    \/ Written(k, type)
    \/ upsert.found = k /\ upsert.at = "triggered" /\ type = "triggered"
    \/ upsert.found = k /\ upsert.at = "closed" /\ type = "alert_resolved"
    \/ \E p \in Responders :
          calls[p].inc = k /\ calls[p].at = "event" /\ type = EventOf(calls[p])

AckDue(k, actor) ==
    \/ <<"acknowledged", actor>> \in rows[k].log
    \/ \E p \in Responders : /\ calls[p].inc = k /\ calls[p].at = "event"
                             /\ EventOf(calls[p]) = "acknowledged" /\ calls[p].actor = actor

(* What an incident says of itself has an event, written or due, and so    *)
(* has what an acknowledgement has read.                                   *)
EventsAreDue ==
    losses = 0 =>
        /\ \A k \in DOMAIN rows :
              /\ Due(k, "triggered")
              /\ rows[k].status # "triggered" => Due(k, EventType(rows[k].status))
              /\ rows[k].linked => Due(k, "deployment_linked")
              /\ rows[k].ack # "none" => AckDue(k, rows[k].ack)
        /\ \A p \in Responders :
              calls[p].op = "acknowledge" /\ calls[p].at = "write" /\ calls[p].ack # "none"
              => AckDue(calls[p].inc, calls[p].ack)

IncidentsInv ==
    /\ IncidentsTypeOK /\ DuplicatesWereReopened /\ ResolutionIsDated
    /\ EndsAreMarked /\ InsertIsNeeded /\ EventsAreDue
=============================================================================
