---------------------------- MODULE AlertEvaluator ----------------------------
(***************************************************************************)
(* services/alert-evaluator: the evaluation worker walks over the rules,   *)
(* opens, promotes and resolves firings, queues notifications, opens and   *)
(* resolves incidents, and ends each cycle with the suppression pass.      *)
(* Administrators silence and edit rules and responders work on incidents  *)
(* at the same time.                                                       *)
(*                                                                         *)
(* Every SQL statement is one atomic step and nothing wraps two of them in *)
(* a transaction: an error or a crash leaves those before it in force.     *)
(* There is one evaluator, as the chart deploys it.  A firing_id is a      *)
(* place in firings, an incident_id a place in incidents.                  *)
(***************************************************************************)
EXTENDS Naturals, Sequences

CONSTANTS
    Rules,          \* alert rules of a tenant
    Phase,          \* [Rules -> 1..5]: threshold, burn rate, composite, deadman, change
    Severity,       \* [Rules -> {"critical", "warning", "info"}]
    Delayed,        \* rules with for_duration_secs > 0
    AutoIncident,   \* rules with auto_trigger_incident
    ChannelsOf,     \* notification_channels of a rule
    Operands,       \* left and right rule of the composite rules
    Services,       \* service names
    NoService,      \* service_name IS NULL
    InitialService, \* service_name of each rule at first
    MaxFirings,     \* bound: firings
    MaxEvalFaults,  \* bound: crashes and failed statements
    MaxRequests     \* bound: requests of administrators and responders

Composite == {r \in Rules : Phase[r] = 3}

ASSUME AlertAssumption ==
    /\ Phase \in [Rules -> 1..5]
    /\ Severity \in [Rules -> {"critical", "warning", "info"}]
    /\ Delayed \subseteq Rules /\ AutoIncident \subseteq Rules
    /\ DOMAIN ChannelsOf = Rules
    /\ Operands \in [Composite -> Rules \X Rules]
    /\ NoService \notin Services
    /\ InitialService \in [Rules -> Services \union {NoService}]
    /\ MaxFirings \in Nat /\ MaxEvalFaults \in Nat /\ MaxRequests \in Nat

VARIABLES
    firings,    \* alert_firings: Seq([rule, state, by])
    audit,      \* notification_audit_log: set of <<firing, channel, trigger_state>>
    incidents,  \* incidents: Seq([rule, status])
    silenced,   \* rules that are silenced
    service,    \* service_name of each rule
    missing,    \* channels that rules name and notification_channels does not have
    acks,       \* incidents that an acknowledge request has read, not yet written
    step,       \* where the worker is in eval_alert_rules
    phase,      \* the rule type being evaluated, 0 between cycles
    todo,       \* rules of that type still to be evaluated
    job,        \* the firing whose notifications and incident are being written
    found,      \* the open incident that the worker has read, 0 if none
    lifted,     \* firings that phase 2 of the suppression pass has yet to update
    faults,
    requests

workVars == <<step, phase, todo, job, found, lifted>>
tableVars == <<firings, audit, incidents>>
apiVars == <<silenced, service, missing, acks, requests>>
aeVars == <<firings, audit, incidents, silenced, service, missing, acks, step, phase, todo,
            job, found, lifted, faults, requests>>

Statuses == {"triggered", "acknowledged", "investigating", "resolved", "post_mortem"}
Closed   == {"resolved", "post_mortem"}
NoJob    == [fid |-> 0, trigger |-> "active", chans |-> {}, lift |-> FALSE]

RuleOf(i) == firings[i].rule

Channels == UNION {ChannelsOf[r] : r \in Rules}

(* The firings that alert_firings_one_open_per_rule_idx allows once a rule. *)
OpenFirings(r) ==
    {i \in DOMAIN firings : RuleOf(i) = r /\ firings[i].state \in {"pending", "active"}}

IsActive(r) == \E i \in DOMAIN firings : RuleOf(i) = r /\ firings[i].state = "active"

Init ==
    /\ firings = <<>> /\ audit = {} /\ incidents = <<>>
    /\ silenced = {} /\ service = InitialService /\ missing = {} /\ acks = {} /\ requests = 0
    /\ step = "idle" /\ phase = 0 /\ todo = {} /\ job = NoJob /\ found = 0 /\ lifted = {}
    /\ faults = 0

EvalFault == faults < MaxEvalFaults /\ faults' = faults + 1

-----------------------------------------------------------------------------
(***************************************************************************)
(* The rules of the next type that are not silenced are read at once; they *)
(* are evaluated one by one, in any order.                                 *)
(***************************************************************************)
LoadRules ==
    /\ step \in {"idle", "eval"} /\ todo = {} /\ phase < 5
    /\ phase' = phase + 1
    /\ todo' = {r \in Rules : Phase[r] = phase + 1 /\ r \notin silenced}
    /\ step' = "eval"
    /\ UNCHANGED <<tableVars, apiVars, job, found, lifted, faults>>

(* No telemetry, a failed query of it or a condition that does not parse:  *)
(* the rule is passed over, in every cycle while that lasts, and an open   *)
(* firing stays as it is.                                                  *)
SkipRule(r) ==
    /\ step = "eval" /\ r \in todo
    /\ todo' = todo \ {r}
    /\ UNCHANGED <<tableVars, apiVars, step, phase, job, found, lifted, faults>>

(* A composite rule fires when both its operands have an active firing;    *)
(* the verdict on telemetry is free.                                       *)
BothActive(r) == IsActive(Operands[r][1]) /\ IsActive(Operands[r][2])

MayFire(r)    == r \in Composite => BothActive(r)
MayResolve(r) == r \in Composite => ~BothActive(r)

StartJob(i, r, trigger, lift) ==
    /\ job' = [fid |-> i, trigger |-> trigger, chans |-> ChannelsOf[r], lift |-> lift]
    /\ step' = "notify"

(* Mutant: record_firing notifies without looking at the state it wrote.   *)
RecordFiringEarly(r) ==
    /\ step = "eval" /\ r \in todo /\ MayFire(r)
    /\ todo' = todo \ {r}
    /\ \E i \in DOMAIN firings \union {Len(firings) + 1} :
         /\ \/ i \in OpenFirings(r) /\ UNCHANGED firings
            \/ /\ OpenFirings(r) = {}
               /\ i = Len(firings) + 1 /\ i <= MaxFirings
               /\ firings' = Append(firings,
                     [rule |-> r, by |-> 0,
                      state |-> IF r \in Delayed THEN "pending" ELSE "active"])
         /\ StartJob(i, r, "active", FALSE)
    /\ UNCHANGED <<audit, incidents, apiVars, phase, found, lifted, faults>>

(* Mutant: the subquery of record_firing takes the rule's latest firing,   *)
(* whatever its state.                                                     *)
RecordFiringReopens(r) ==
    /\ step = "eval" /\ r \in todo /\ MayFire(r)
    /\ todo' = todo \ {r}
    /\ LET mine == {j \in DOMAIN firings : RuleOf(j) = r} IN
       \E i \in DOMAIN firings \union {Len(firings) + 1} :
         /\ IF mine = {}
            THEN /\ i = Len(firings) + 1 /\ i <= MaxFirings
                 /\ firings' = Append(firings, [rule |-> r, by |-> 0, state |-> "active"])
            ELSE /\ i \in mine /\ \A j \in mine : j <= i
                 /\ firings' = [firings EXCEPT ![i].state = "active"]
         /\ StartJob(i, r, "active", FALSE)
    /\ UNCHANGED <<audit, incidents, apiVars, phase, found, lifted, faults>>

(* Mutant: record_firing notifies only when it opens or promotes a firing. *)
RecordFiringOnce(r) ==
    /\ step = "eval" /\ r \in todo /\ MayFire(r)
    /\ todo' = todo \ {r}
    /\ \/ /\ OpenFirings(r) # {}
          /\ UNCHANGED <<firings, job, step>>
       \/ \E i \in OpenFirings(r) :
            /\ firings[i].state = "pending"
            /\ firings' = [firings EXCEPT ![i].state = "active"]
            /\ StartJob(i, r, "active", FALSE)
       \/ /\ OpenFirings(r) = {} /\ Len(firings) < MaxFirings
          /\ firings' = Append(firings, [rule |-> r, by |-> 0, state |-> "active"])
          /\ StartJob(Len(firings) + 1, r, "active", FALSE)
    /\ UNCHANGED <<audit, incidents, apiVars, phase, found, lifted, faults>>

(***************************************************************************)
(* record_firing: one statement updates the open firing of the rule, which *)
(* becomes active once it has been pending for the rule's duration, or     *)
(* inserts one.  Notifications follow whenever the firing is active.       *)
(***************************************************************************)
RecordFiring(r) ==
    /\ step = "eval" /\ r \in todo /\ MayFire(r)
    /\ todo' = todo \ {r}
    /\ \E i \in DOMAIN firings \union {Len(firings) + 1} :
         /\ \/ /\ i \in OpenFirings(r)
               /\ \/ UNCHANGED firings
                  \/ firings[i].state = "pending"
                     /\ firings' = [firings EXCEPT ![i].state = "active"]
            \/ /\ OpenFirings(r) = {}
               /\ i = Len(firings) + 1 /\ i <= MaxFirings
               /\ firings' = Append(firings,
                     [rule |-> r, by |-> 0,
                      state |-> IF r \in Delayed THEN "pending" ELSE "active"])
         /\ IF firings'[i].state = "active"
            THEN StartJob(i, r, "active", FALSE)
            ELSE UNCHANGED <<job, step>>
    /\ UNCHANGED <<audit, incidents, apiVars, phase, found, lifted, faults>>

(***************************************************************************)
(* resolve_open_firing resolves what is pending or active, not what is     *)
(* suppressed; the notification is queued for a pending firing, too.       *)
(***************************************************************************)
ResolveOpenFiring(r) ==
    /\ step = "eval" /\ r \in todo /\ MayResolve(r)
    /\ todo' = todo \ {r}
    /\ \/ /\ OpenFirings(r) = {}
          /\ UNCHANGED <<firings, job, step>>
       \/ \E i \in OpenFirings(r) :
            /\ firings' = [firings EXCEPT ![i].state = "resolved"]
            /\ StartJob(i, r, "resolved", FALSE)
    /\ UNCHANGED <<audit, incidents, apiVars, phase, found, lifted, faults>>

EndCycle ==
    /\ step' = "idle" /\ phase' = 0 /\ todo' = {} /\ job' = NoJob /\ found' = 0
    /\ lifted' = {}

(* Mutant: the firing is forgotten before its incident is looked up.       *)
EnqueueForgetsFiring ==
    /\ step = "notify"
    /\ \/ \E c \in job.chans \ missing :
            /\ audit' = audit \union {<<job.fid, c, job.trigger>>}
            /\ job' = [job EXCEPT !.chans = @ \ {c}]
            /\ UNCHANGED step
       \/ /\ job.chans = {}
          /\ step' = IF job.lift THEN "lift"
                     ELSE IF RuleOf(job.fid) \in AutoIncident THEN "select" ELSE "eval"
          /\ job' = NoJob
          /\ UNCHANGED audit
    /\ UNCHANGED <<firings, incidents, apiVars, phase, todo, found, lifted, faults>>

(***************************************************************************)
(* enqueue_notifications: INSERT ... ON CONFLICT DO NOTHING, a statement   *)
(* for every channel.                                                      *)
(***************************************************************************)
EnqueueNotification ==
    /\ step = "notify"
    /\ \/ \E c \in job.chans \ missing :
            /\ audit' = audit \union {<<job.fid, c, job.trigger>>}
            /\ job' = [job EXCEPT !.chans = @ \ {c}]
            /\ UNCHANGED step
       \/ /\ job.chans = {}
          /\ step' = IF job.lift THEN "lift"
                     ELSE IF RuleOf(job.fid) \in AutoIncident THEN "select" ELSE "eval"
          /\ job' = IF step' = "select" THEN job ELSE NoJob
          /\ UNCHANGED audit
    /\ UNCHANGED <<firings, incidents, apiVars, phase, todo, found, lifted, faults>>

(* The foreign key rejects a channel that is gone, in this cycle and in    *)
(* every other: the remaining channels and the incident are left out, or   *)
(* the rest of the suppression pass.                                       *)
EnqueueRejected ==
    /\ step = "notify" /\ job.chans \intersect missing # {}
    /\ IF job.lift THEN EndCycle
       ELSE step' = "eval" /\ job' = NoJob /\ UNCHANGED <<phase, todo, found, lifted>>
    /\ UNCHANGED <<tableVars, apiVars, faults>>

OpenIncidents(r) ==
    {k \in DOMAIN incidents : incidents[k].rule = r /\ incidents[k].status \notin Closed}

(* The SELECT of upsert_incident_from_firing and resolve_incident_for_firing. *)
SelectIncident ==
    /\ step = "select"
    /\ \/ found' \in OpenIncidents(RuleOf(job.fid))
       \/ OpenIncidents(RuleOf(job.fid)) = {} /\ found' = 0
    /\ step' = "incident"
    /\ UNCHANGED <<tableVars, apiVars, phase, todo, job, lifted, faults>>

(* Mutant: the upsert also runs when the firing has resolved.              *)
WriteIncidentAlways ==
    /\ step = "incident"
    /\ IF found = 0
       THEN incidents' = Append(incidents, [rule |-> RuleOf(job.fid), status |-> "triggered"])
       ELSE UNCHANGED incidents
    /\ step' = "eval" /\ job' = NoJob /\ found' = 0
    /\ UNCHANGED <<firings, audit, apiVars, phase, todo, lifted, faults>>

(* Their write, which trusts what the SELECT returned.                     *)
WriteIncident ==
    /\ step = "incident"
    /\ \/ /\ job.trigger = "active" /\ found = 0
          /\ incidents' = Append(incidents, [rule |-> RuleOf(job.fid), status |-> "triggered"])
       \/ /\ job.trigger = "resolved" /\ found # 0
          /\ incidents' = [incidents EXCEPT ![found].status = "resolved"]
       \/ /\ (job.trigger = "active") = (found # 0)
          /\ UNCHANGED incidents
    /\ step' = "eval" /\ job' = NoJob /\ found' = 0
    /\ UNCHANGED <<firings, audit, apiVars, phase, todo, lifted, faults>>

-----------------------------------------------------------------------------
(***************************************************************************)
(* run_suppression_pass.                                                   *)
(***************************************************************************)
SameService(r, s) == service[r] # NoService /\ service[r] = service[s]

(* Mutant: the severity of the inhibitor is not looked at.                 *)
InhibitorsAnySeverity(i) ==
    {j \in DOMAIN firings \ {i} :
        firings[j].state = "active" /\ SameService(RuleOf(j), RuleOf(i))}

Inhibitors(i) ==
    {j \in DOMAIN firings \ {i} :
        /\ firings[j].state = "active" /\ Severity[RuleOf(j)] = "critical"
        /\ SameService(RuleOf(j), RuleOf(i))}

Suppressible ==
    {i \in DOMAIN firings :
        /\ firings[i].state \in {"pending", "active"}
        /\ Severity[RuleOf(i)] # "critical"
        /\ Inhibitors(i) # {}}

(* Phase 1: one UPDATE, which takes any of several inhibitors.             *)
Suppress ==
    /\ step = "eval" /\ phase = 5 /\ todo = {}
    /\ \E by \in [Suppressible -> DOMAIN firings] :
         /\ \A i \in Suppressible : by[i] \in Inhibitors(i)
         /\ firings' = [i \in DOMAIN firings |->
                IF i \in Suppressible
                THEN [firings[i] EXCEPT !.state = "suppressed", !.by = by[i]]
                ELSE firings[i]]
    /\ step' = "liftable"
    /\ UNCHANGED <<audit, incidents, apiVars, phase, todo, job, found, lifted, faults>>

(* Phase 2: the firings whose inhibitor has resolved and that no other     *)
(* active critical firing covers.                                          *)
SelectLiftable ==
    /\ step = "liftable"
    /\ lifted' = {i \in DOMAIN firings :
                    /\ firings[i].state = "suppressed"
                    /\ firings[firings[i].by].state = "resolved"
                    /\ Inhibitors(i) = {}}
    /\ step' = "lift"
    /\ UNCHANGED <<tableVars, apiVars, phase, todo, job, found, faults>>

(* Mutant: there is no unique index on open firings.                       *)
LiftUnchecked(i) ==
    /\ step = "lift" /\ i \in lifted
    /\ firings' = [firings EXCEPT ![i] = [rule |-> RuleOf(i), state |-> "active", by |-> 0]]
    /\ lifted' = lifted \ {i}
    /\ StartJob(i, RuleOf(i), "active", TRUE)
    /\ UNCHANGED <<audit, incidents, apiVars, phase, todo, found, faults>>

(* The unique index rejects a second open firing of the rule, and the      *)
(* error ends the pass with the rest undone.                               *)
Lift(i) ==
    /\ step = "lift" /\ i \in lifted
    /\ \/ /\ OpenFirings(RuleOf(i)) = {}
          /\ firings' = [firings EXCEPT ![i] = [rule |-> RuleOf(i), state |-> "active", by |-> 0]]
          /\ lifted' = lifted \ {i}
          /\ StartJob(i, RuleOf(i), "active", TRUE)
          /\ UNCHANGED <<phase, todo, found>>
       \/ /\ OpenFirings(RuleOf(i)) # {}
          /\ EndCycle
          /\ UNCHANGED firings
    /\ UNCHANGED <<audit, incidents, apiVars, faults>>

FinishCycle ==
    /\ step = "lift" /\ lifted = {}
    /\ EndCycle
    /\ UNCHANGED <<tableVars, apiVars, faults>>

-----------------------------------------------------------------------------
(***************************************************************************)
(* Failures.  An error while a rule is handled is logged and the next rule *)
(* evaluated; any other error ends the cycle, as a crash and the restart   *)
(* after it do.                                                            *)
(***************************************************************************)
RuleFails ==
    /\ step \in {"notify", "select", "incident"} /\ ~job.lift
    /\ EvalFault
    /\ step' = "eval" /\ job' = NoJob /\ found' = 0
    /\ UNCHANGED <<tableVars, apiVars, phase, todo, lifted>>

CycleFails ==
    /\ step # "idle"
    /\ EvalFault
    /\ EndCycle
    /\ UNCHANGED <<tableVars, apiVars>>

-----------------------------------------------------------------------------
(***************************************************************************)
(* Requests of administrators and responders.                              *)
(***************************************************************************)
Request == requests < MaxRequests /\ requests' = requests + 1

SilenceRule(r, on) ==
    /\ Request
    /\ silenced' = IF on THEN silenced \union {r} ELSE silenced \ {r}
    /\ UNCHANGED <<tableVars, service, missing, acks, workVars, faults>>

UpdateRule(r, s) ==
    /\ Request
    /\ service' = [service EXCEPT ![r] = s]
    /\ UNCHANGED <<tableVars, silenced, missing, acks, workVars, faults>>

(* A channel goes while rules still name it; one with rows in the audit    *)
(* log is kept by their foreign key.                                       *)
DeleteChannel(c) ==
    /\ Request
    /\ \A n \in audit : n[2] # c
    /\ missing' = missing \union {c}
    /\ UNCHANGED <<tableVars, silenced, service, acks, workVars, faults>>

(* acknowledge_incident reads the status and writes it in two statements.  *)
AcknowledgeRead(k) ==
    /\ Request
    /\ incidents[k].status \notin Closed
    /\ acks' = acks \union {k}
    /\ UNCHANGED <<tableVars, silenced, service, missing, workVars, faults>>

AcknowledgeWrite(k) ==
    /\ incidents' = [incidents EXCEPT ![k].status = "acknowledged"]
    /\ acks' = acks \ {k}
    /\ UNCHANGED <<firings, audit, silenced, service, missing, requests, workVars, faults>>

(* Any status may follow any other.                                        *)
UpdateIncidentStatus(k, s) ==
    /\ Request
    /\ incidents' = [incidents EXCEPT ![k].status = s]
    /\ UNCHANGED <<firings, audit, silenced, service, missing, acks, workVars, faults>>

-----------------------------------------------------------------------------
(* A verdict on a rule, which is recorded.                                 *)
Judge(r) == RecordFiring(r) \/ ResolveOpenFiring(r)

EvalStep ==
    \/ LoadRules
    \/ \E r \in Rules : SkipRule(r) \/ Judge(r)
    \/ EnqueueNotification
    \/ EnqueueRejected
    \/ SelectIncident
    \/ WriteIncident
    \/ Suppress
    \/ SelectLiftable
    \/ \E i \in DOMAIN firings : Lift(i)
    \/ FinishCycle

FaultStep == RuleFails \/ CycleFails

RequestStep ==
    \/ \E r \in Rules : SilenceRule(r, TRUE) \/ SilenceRule(r, FALSE)
    \/ \E r \in Rules, s \in Services \union {NoService} : UpdateRule(r, s)
    \/ \E c \in Channels : DeleteChannel(c)
    \/ \E k \in DOMAIN incidents : AcknowledgeRead(k)
    \/ \E k \in acks : AcknowledgeWrite(k)
    \/ \E k \in DOMAIN incidents, s \in Statuses : UpdateIncidentStatus(k, s)

Next == EvalStep \/ FaultStep \/ RequestStep

Spec == Init /\ [][Next]_aeVars

(* The interval of start_eval_worker keeps ticking and statements return.  *)
FairSpec == Spec /\ WF_aeVars(EvalStep)

-----------------------------------------------------------------------------
(***************************************************************************)
(* Properties.                                                             *)
(***************************************************************************)
FiringStates == {"pending", "active", "resolved", "suppressed"}
Notices      == (1..Len(firings)) \X Channels \X {"active", "resolved"}

(* The tables and the worker's place in them hold values of their types:   *)
(* every id that a row, a notification or the worker refers to exists.     *)
AlertTypeOK ==
    /\ firings \in Seq([rule : Rules, state : FiringStates, by : Nat])
    /\ \A i \in DOMAIN firings : firings[i].by \in 0..Len(firings)
    /\ audit \subseteq Notices
    /\ incidents \in Seq([rule : Rules, status : Statuses])
    /\ silenced \subseteq Rules
    /\ service \in [Rules -> Services \union {NoService}]
    /\ missing \subseteq Channels
    /\ acks \subseteq DOMAIN incidents
    /\ step \in {"idle", "eval", "notify", "select", "incident", "liftable", "lift"}
    /\ phase \in 0..5
    /\ todo \subseteq Rules
    /\ job \in [fid : 0..Len(firings), trigger : {"active", "resolved"},
                chans : SUBSET Channels, lift : BOOLEAN]
    /\ step \in {"notify", "select", "incident"} => job.fid # 0
    /\ found \in 0..Len(incidents)
    /\ lifted \subseteq DOMAIN firings
    /\ faults \in Nat /\ requests \in Nat

(* A rule never has two open firings, although record_firing does not see  *)
(* a suppressed one and opens another, and the suppression pass wants the  *)
(* first one back.                                                         *)
OneOpenFiring ==
    \A i, j \in DOMAIN firings :
        i # j /\ firings[i].state \in {"pending", "active"}
              /\ firings[j].state \in {"pending", "active"} => RuleOf(i) # RuleOf(j)

(* A suppressed firing names a critical firing that is active or resolved, *)
(* never itself suppressed or pending: suppression does not chain, and the *)
(* inhibitor's end can release it.                                         *)
InhibitorIsCritical ==
    \A i \in DOMAIN firings : firings[i].state = "suppressed" =>
        /\ firings[i].by \in DOMAIN firings \ {i}
        /\ Severity[RuleOf(firings[i].by)] = "critical"
        /\ firings[firings[i].by].state \in {"active", "resolved"}

(* What channels are told is true of the firing: "active" is never queued  *)
(* for one that is still pending, "resolved" only for one that has ended   *)
(* and stays ended, whatever the suppression pass does to it in between.   *)
NoticesMatchFirings ==
    \A n \in audit : IF n[3] = "resolved" THEN firings[n[1]].state = "resolved"
                                          ELSE firings[n[1]].state # "pending"

(* A resolved firing stays resolved, also when the suppression pass writes *)
(* rows it has read before.                                                *)
ResolvedIsFinal ==
    [][\A i \in DOMAIN firings :
          firings[i].state = "resolved" => firings'[i].state = "resolved"]_aeVars

(* The worker opens an incident only for a rule that has an active firing  *)
(* at that moment, and resolves one only when the rule has no open firing, *)
(* several statements after it looked at either.                           *)
IncidentsFollowFirings ==
    [][step = "incident" =>
          /\ Len(incidents') > Len(incidents) => IsActive(incidents'[Len(incidents')].rule)
          /\ \A k \in DOMAIN incidents :
                incidents'[k].status = "resolved" /\ incidents[k].status # "resolved"
                    /\ requests' = requests
                => OpenFirings(incidents[k].rule) = {}]_aeVars

(* A rule that is not silenced and whose channels all exist has an active  *)
(* firing of which one of its channels has not been told.                  *)
Unannounced(r) ==
    /\ r \notin silenced /\ ChannelsOf[r] \intersect missing = {}
    /\ \E i \in DOMAIN firings, c \in ChannelsOf[r] :
          RuleOf(i) = r /\ firings[i].state = "active" /\ <<i, c, "active">> \notin audit

(* While telemetry gives a rule a verdict again and again, an active       *)
(* firing of it is announced on every channel of the rule, unless it ends, *)
(* is suppressed, the rule is silenced or one of its channels is deleted:  *)
(* a lost step of enqueue_notifications is made up for in a later cycle.   *)
(* (At the bound on firings the worker may have to stop, and nothing is    *)
(* claimed.)                                                               *)
ActiveIsAnnounced ==
    \A r \in Rules : []<><<Judge(r)>>_aeVars =>
        (Unannounced(r) ~> (~Unannounced(r) \/ Len(firings) = MaxFirings))

(* While a critical firing suppresses a rule's firing, no further firing   *)
(* of that rule is announced.                                              *)
SuppressedStaysQuiet ==
    \A i, j \in DOMAIN firings :
        /\ i < j /\ RuleOf(i) = RuleOf(j)
        /\ firings[i].state = "suppressed" /\ firings[firings[i].by].state = "active"
        => \A c \in Channels : <<j, c, "active">> \notin audit

(* What the worker remembers between two statements is still true of the   *)
(* tables: the firing it announces is in the state it announces, a rule    *)
(* whose firing it reports resolved has no open one, the incident it found *)
(* is of that rule, and what it is about to lift is suppressed.            *)
WorkerAgrees ==
    /\ step \in {"notify", "select", "incident"} =>
          /\ firings[job.fid].state = job.trigger
          /\ job.trigger = "resolved" => OpenFirings(RuleOf(job.fid)) = {}
    /\ step = "incident" /\ found # 0 => incidents[found].rule = RuleOf(job.fid)
    /\ \A i \in lifted : firings[i].state = "suppressed"

(* Firings stay sound across cycles, suppression passes, failed statements *)
(* and crashes: typed, one open firing per rule, released suppressions,    *)
(* and nothing the worker acts on is out of date.                          *)
FiringsAreSound == AlertTypeOK /\ OneOpenFiring /\ InhibitorIsCritical /\ WorkerAgrees
=============================================================================
