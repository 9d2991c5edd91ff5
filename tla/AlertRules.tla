------------------------------ MODULE AlertRules ------------------------------
(***************************************************************************)
(* services/alert-evaluator: alert rules and SLOs as the API stores them,  *)
(* the verdict that the evaluator reaches on each from stored telemetry,   *)
(* and what the listing endpoints show of both.  What follows a verdict    *)
(* (notifications, incidents, suppression, pending firings, composites) is *)
(* in AlertEvaluator; a rule made here has no duration and fires at once.  *)
(*                                                                         *)
(* A condition is the JSON object in alert_rules.condition: a record that  *)
(* has the fields the writer put there and no others.                      *)
(***************************************************************************)
EXTENDS Integers, Sequences, FiniteSets

CONSTANTS
    Orgs,          \* tenants
    RuleRequests,  \* bodies of POST /v1/admin/alerts/rules
    SloRequests,   \* bodies of POST /v1/slos
    SampleKinds,   \* what telemetry may arrive
    SeededRules,   \* tables that migrations and operators may leave
    MaxClock,      \* bound: time
    MaxSamples,    \* bound: telemetry
    MaxRules,      \* bound: rules
    MaxEdits       \* bound: edits of rules

VARIABLES
    clock,    \* seconds
    samples,  \* observable.spans and observable.metric_points
    rules,    \* alert_rules, with the state of the rule's latest firing
    slos,     \* slo_definitions
    edits

arVars == <<clock, samples, rules, slos, edits>>

Operators == {"gt", "gte", "lt", "lte", "eq"}
Scale     == 10    \* denominator of targets and burn rate thresholds

ArInit ==
    /\ clock = 0 /\ samples = {} /\ slos = <<>> /\ edits = 0
    /\ rules \in SeededRules

-----------------------------------------------------------------------------
(***************************************************************************)
(* Requests.                                                               *)
(***************************************************************************)
Has(obj, fields) == fields \subseteq DOMAIN obj

(* The early returns of handle_create_rule, in any order.                  *)
ValidRule(req) ==
    /\ req.name # ""
    /\ req.type \in {"threshold", "deadman", "change_detection"}
    /\ req.type = "threshold" => req.metric # "" /\ req.operator \in Operators
    /\ req.type = "deadman" => req.window > 0
    /\ req.type = "change_detection" =>
         req.metric # "" /\ req.window > 0 /\ req.offset > 0 /\ req.percent >= 0

(* Mutant: the baseline is left out of what is stored.                     *)
StoredCondition_MutNoBaseline(req) ==
    CASE req.type = "threshold" ->
           [metric_name |-> req.metric, operator |-> req.operator, threshold |-> req.threshold]
      [] req.type = "deadman" -> [window_secs |-> req.window]
      [] OTHER -> [metric_name |-> req.metric, window_secs |-> req.window,
                   threshold_percent |-> req.percent]

(* The condition of a deadman rule holds the window only: the service goes *)
(* into the column service_name.                                           *)
StoredCondition(req) ==
    CASE req.type = "threshold" ->
           [metric_name |-> req.metric, operator |-> req.operator, threshold |-> req.threshold]
      [] req.type = "deadman" -> [window_secs |-> req.window]
      [] OTHER -> [metric_name |-> req.metric, window_secs |-> req.window,
                   baseline_offset_secs |-> req.offset, threshold_percent |-> req.percent]

Rule(org, type, cond, svc) ==
    [org |-> org, type |-> type, cond |-> cond, svc |-> svc, silenced |-> FALSE, state |-> "ok"]

(* require_admin is Accounts' concern; a rejected request changes nothing. *)
handle_create_rule(org, req) ==
    /\ Len(rules) < MaxRules /\ ValidRule(req)
    /\ rules' = Append(rules, Rule(org, req.type, StoredCondition(req), req.service))
    /\ UNCHANGED <<clock, samples, slos, edits>>

validate_create_slo(req) ==
    /\ req.service # "" /\ req.environment # ""
    /\ 0 < req.target /\ req.target < Scale
    /\ req.fast > 0 /\ req.slow > 0

(* One transaction inserts the SLO and its rule, whose windows are 60 and  *)
(* 360 minutes; here 1 and 2 ticks of the clock.                           *)
create_slo(org, req) ==
    /\ Len(rules) < MaxRules /\ validate_create_slo(req)
    /\ slos' = Append(slos, [org |-> org, service |-> req.service, environment |-> req.environment,
                             target |-> req.target, fast |-> req.fast, slow |-> req.slow])
    /\ rules' = Append(rules, Rule(org, "slo_burn_rate",
                   [slo_id |-> Len(slos) + 1, fast_window |-> 1, slow_window |-> 2], ""))
    /\ UNCHANGED <<clock, samples, edits>>

(* The UPDATEs name the rule and the caller's tenant.                      *)
EditRule(org, i, rule) ==
    /\ rules[i].org = org /\ edits < MaxEdits
    /\ edits' = edits + 1
    /\ rules' = [rules EXCEPT ![i] = rule]
    /\ UNCHANGED <<clock, samples, slos>>

handle_silence_rule(org, i, on) == EditRule(org, i, [rules[i] EXCEPT !.silenced = on])
handle_update_rule(org, i, svc) == EditRule(org, i, [rules[i] EXCEPT !.svc = svc])

-----------------------------------------------------------------------------
(***************************************************************************)
(* Verdicts: "firing", "ok", or "skip" when the evaluator passes over the  *)
(* rule and leaves its firing as it is.                                    *)
(***************************************************************************)
Parses(rule) ==
    Has(rule.cond, CASE rule.type = "threshold"     -> {"metric_name", "operator", "threshold"}
                     [] rule.type = "slo_burn_rate" -> {"slo_id", "fast_window", "slow_window"}
                     [] rule.type = "deadman"       -> {"service_name", "window_secs"}
                     [] OTHER -> {"metric_name", "window_secs", "baseline_offset_secs",
                                  "threshold_percent"})

Fires(b) == IF b THEN "firing" ELSE "ok"

evaluate_threshold(v, cond) ==
    CASE cond.operator = "gt"  -> v > cond.threshold
      [] cond.operator = "gte" -> v >= cond.threshold
      [] cond.operator = "lt"  -> v < cond.threshold
      [] cond.operator = "lte" -> v <= cond.threshold
      [] OTHER                 -> v = cond.threshold

Points(org, metric) ==
    {s \in samples : s.kind = "point" /\ s.org = org /\ s.metric = metric}

(* The latest point; of several with one timestamp, any: the verdict is    *)
(* among those each of them gives.                                         *)
eval_threshold_rules(rule) ==
    LET pts  == Points(rule.org, rule.cond.metric_name)
        last == {p \in pts : \A q \in pts : q.at <= p.at}
    IN IF pts = {} THEN {"skip"}
       ELSE {Fires(evaluate_threshold(p.value, rule.cond)) : p \in last}

(* Mutant: a span without a status counts as bad.                          *)
fetch_span_counts_MutUnset(org, service, env, window) ==
    LET spans == {s \in samples : s.kind = "span" /\ s.org = org /\ s.service = service
                                  /\ s.environment = env /\ s.at >= clock - window}
    IN [total |-> Cardinality(spans), bad |-> Cardinality({s \in spans : s.status # "OK"})]

fetch_span_counts(org, service, env, window) ==
    LET spans == {s \in samples : s.kind = "span" /\ s.org = org /\ s.service = service
                                  /\ s.environment = env /\ s.at >= clock - window}
    IN [total |-> Cardinality(spans), bad |-> Cardinality({s \in spans : s.status = "ERROR"})]

(* bad/total over the budget 1 - target reaches the threshold; no bad or   *)
(* no events at all is a burn rate of 0, below every valid threshold.      *)
BurnReaches(counts, target, threshold) ==
    counts.bad > 0 /\ counts.bad * Scale >= threshold * counts.total * (Scale - target)

eval_slo_burn_rate_rules(rule) ==
    LET slo == slos[rule.cond.slo_id]
        Counts(window) == fetch_span_counts(slo.org, slo.service, slo.environment, window)
    IN IF rule.cond.slo_id \notin DOMAIN slos \/ slo.org # rule.org THEN {"skip"}
       ELSE {Fires(BurnReaches(Counts(rule.cond.fast_window), slo.target, slo.fast)
                   /\ BurnReaches(Counts(rule.cond.slow_window), slo.target, slo.slow))}

(* Elapsed time saturates at 0: a span from the future counts as seen now. *)
eval_deadman_rules(rule) ==
    LET seen == {s.at : s \in {t \in samples : t.kind = "span" /\ t.org = rule.org
                                               /\ t.service = rule.cond.service_name}}
    IN {Fires(\A t \in seen : clock - t >= rule.cond.window_secs)}

(* avg(value_double): points that hold an integer have none.               *)
WindowPoints(rule, from, to) ==
    {s \in Points(rule.org, rule.cond.metric_name) :
        ~s.integer /\ from <= s.at /\ s.at <= to}

SumValues(pts) == LET Weight(v) == v * Cardinality({p \in pts : p.value = v})
              IN Weight(0) + Weight(1) + Weight(2)

Abs(n) == IF n < 0 THEN -n ELSE n

(* The averages are compared as fractions with their counts.               *)
evaluate_change_detection(sum, count, baseSum, baseCount, percent) ==
    IF baseSum = 0 THEN sum # 0
    ELSE Abs(sum * baseCount - baseSum * count) * 100 >= percent * Abs(baseSum) * count

eval_change_detection_rules(rule) ==
    LET end  == clock - rule.cond.baseline_offset_secs
        cur  == WindowPoints(rule, clock - rule.cond.window_secs, clock)
        base == WindowPoints(rule, end - rule.cond.window_secs, end)
    IN IF cur = {} \/ base = {} THEN {"skip"}
       ELSE {Fires(evaluate_change_detection(SumValues(cur), Cardinality(cur), SumValues(base),
                                             Cardinality(base), rule.cond.threshold_percent))}

Verdicts(rule) ==
    IF ~Parses(rule) THEN {"skip"}
    ELSE CASE rule.type = "threshold"     -> eval_threshold_rules(rule)
           [] rule.type = "slo_burn_rate" -> eval_slo_burn_rate_rules(rule)
           [] rule.type = "deadman"       -> eval_deadman_rules(rule)
           [] OTHER                       -> eval_change_detection_rules(rule)

(* A rule that is not silenced is evaluated; record_firing or              *)
(* resolve_open_firing writes the firing.                                  *)
EvaluateRule(i) ==
    /\ ~rules[i].silenced
    /\ \E v \in Verdicts(rules[i]) :
         rules' = [rules EXCEPT ![i].state =
                      CASE v = "firing" -> "active"
                        [] v = "ok" /\ @ = "active" -> "resolved"
                        [] OTHER -> @]
    /\ UNCHANGED <<clock, samples, slos, edits>>

(* Telemetry arrives with the sender's clock, which may be a second ahead. *)
SampleArrives(kind, org, ahead) ==
    /\ Cardinality(samples) < MaxSamples
    /\ \E id \in 1..MaxSamples :
         /\ \A s \in samples : s.id # id
         /\ \A j \in 1..(id - 1) : \E s \in samples : s.id = j
         /\ samples' = samples \union {[f \in DOMAIN kind \union {"org", "at", "id"} |->
                CASE f = "org" -> org [] f = "at" -> clock + ahead [] f = "id" -> id
                  [] OTHER -> kind[f]]}
    /\ UNCHANGED <<clock, rules, slos, edits>>

Tick ==
    /\ clock < MaxClock
    /\ clock' = clock + 1
    /\ UNCHANGED <<samples, rules, slos, edits>>

-----------------------------------------------------------------------------
(***************************************************************************)
(* What the endpoints show.                                                *)
(***************************************************************************)
condition_fields(cond) ==
    \/ Has(cond, {"metric_name", "operator", "threshold"})
    \/ Has(cond, {"metric_name", "threshold_percent"})
    \/ Has(cond, {"service_name", "window_secs"})

Listable == {"threshold", "deadman", "change_detection"}

list_alert_rules(org) ==
    {[id |-> i, state |-> IF rules[i].silenced THEN "silenced" ELSE rules[i].state,
      firing |-> rules[i].state = "active" /\ ~rules[i].silenced] :
        i \in {j \in DOMAIN rules : rules[j].org = org /\ rules[j].type \in Listable
                                    /\ condition_fields(rules[j].cond)}}

get_alert_rule(org, i) ==
    [id |-> i, silenced |-> rules[i].silenced,
     firing |-> rules[i].state = "active" /\ ~rules[i].silenced]

(* Rules of the SLO with an active firing, silenced or not.                *)
Burning(k) ==
    {i \in DOMAIN rules : /\ rules[i].org = slos[k].org /\ rules[i].type = "slo_burn_rate"
                          /\ rules[i].cond.slo_id = k /\ rules[i].state = "active"}

list_slos(org) ==
    {[id |-> k, firing |-> Burning(k) # {}] : k \in {j \in DOMAIN slos : slos[j].org = org}}

Anywhere == "any"    \* no environment in the query

SlosOf(org, service, env) ==
    {k \in DOMAIN slos : slos[k].org = org /\ slos[k].service = service
                         /\ env \in {Anywhere, slos[k].environment}}

(* Mutant: the environment of the request is not looked at.                *)
handle_alerting_enrichment_MutAnywhere(org, env) ==
    {[service |-> s,
      breaching |-> \E k \in SlosOf(org, s, Anywhere) : Burning(k) # {}] :
        s \in {slos[k].service : k \in {j \in DOMAIN slos : slos[j].org = org}}}

(* A service with an SLO in the environment: is one of them burning?       *)
handle_alerting_enrichment(org, env) ==
    {[service |-> s,
      breaching |-> \E k \in SlosOf(org, s, env) : Burning(k) # {}] :
        s \in {slos[k].service : k \in {j \in DOMAIN slos : slos[j].org = org
                                          /\ env \in {Anywhere, slos[j].environment}}}}

handle_alerting_correlation(org, service, env) ==
    {[id |-> k, firing |-> Burning(k) # {}] : k \in SlosOf(org, service, env)}

-----------------------------------------------------------------------------
ArNext ==
    \/ \E org \in Orgs, req \in RuleRequests : handle_create_rule(org, req)
    \/ \E org \in Orgs, req \in SloRequests : create_slo(org, req)
    \/ \E org \in Orgs, i \in DOMAIN rules :
          \/ \E on \in BOOLEAN : handle_silence_rule(org, i, on)
          \/ handle_update_rule(org, i, "")
    \/ \E i \in DOMAIN rules : EvaluateRule(i)
    \/ \E kind \in SampleKinds, org \in Orgs, ahead \in {0, 1} : SampleArrives(kind, org, ahead)
    \/ Tick

ArSpec == ArInit /\ [][ArNext]_arVars

-----------------------------------------------------------------------------
(* A threshold or change rule that the API accepted is one the evaluator   *)
(* can read and the list shows: the writer and the two readers of the JSON *)
(* condition agree on its fields.  They do not on a deadman rule, which    *)
(* handle_create_rule stores without the service_name that DeadmanCondition *)
(* requires, although docs/agent-context.md:502 says that it is supported. *)
ConditionsAreReadable ==
    \A i \in DOMAIN rules : rules[i].type # "deadman" =>
        /\ Parses(rules[i])
        /\ rules[i].type \in Listable =>
             \E item \in list_alert_rules(rules[i].org) : item.id = i

(* What arrives for one tenant never changes a verdict on another tenant's *)
(* rules, a good span never sets off a burn rate alert and a bad one never *)
(* ends it.                                                                *)
VerdictsFollowTelemetry ==
    [][\A s \in samples' \ samples : \A rule \in {rules[i] : i \in DOMAIN rules} :
          /\ s.org # rule.org => Verdicts(rule)' = Verdicts(rule)
          /\ rule.type = "slo_burn_rate" /\ s.kind = "span" =>
               IF s.status = "ERROR"
               THEN "firing" \in Verdicts(rule) => "firing" \in Verdicts(rule)'
               ELSE "firing" \in Verdicts(rule)' => "firing" \in Verdicts(rule)]_arVars

(* The endpoints tell one story: the list of SLOs, the enrichment of the   *)
(* service catalog and the correlation view agree on which SLOs burn, per  *)
(* environment, and the list and the detail of a rule on whether it fires. *)
EndpointsAgree ==
    \A org \in Orgs :
        /\ \A item \in list_alert_rules(org) :
              item.firing = get_alert_rule(org, item.id).firing
        /\ \A env \in {Anywhere} \union {slos[k].environment : k \in DOMAIN slos} :
           \A e \in handle_alerting_enrichment(org, env) :
              LET shown == handle_alerting_correlation(org, e.service, env) IN
              /\ e.breaching = \E s \in shown : s.firing
              /\ shown \subseteq list_slos(org)

(* The writers and the readers of rules and SLOs agree.                    *)
RulesAreConsistent == ConditionsAreReadable /\ EndpointsAgree

-----------------------------------------------------------------------------
(***************************************************************************)
(* What the tables hold, and the invariant behind the properties.          *)
(***************************************************************************)
RuleTypes == Listable \union {"slo_burn_rate"}

SloConditions == [slo_id : Nat, fast_window : {1}, slow_window : {2}]

StoredConditions ==
    [metric_name : STRING, operator : Operators, threshold : Int]
    \union [window_secs : Int]
    \union [service_name : STRING, window_secs : Int]
    \union [metric_name : STRING, window_secs : Int, baseline_offset_secs : Int,
            threshold_percent : Int]
    \union SloConditions

RuleServices == {""} \union {req.service : req \in RuleRequests}

StoredRules ==
    [org : Orgs, type : RuleTypes, cond : StoredConditions, svc : RuleServices, silenced : BOOLEAN,
     state : {"ok", "active", "resolved"}]

StoredSlos ==
    [org : Orgs, service : STRING, environment : STRING, target : 1 .. (Scale - 1),
     fast : Nat \ {0}, slow : Nat \ {0}]

Readable(rule) == rule.type # "deadman" => Parses(rule)

(* Bodies have the types of their fields; an operator leaves complete      *)
(* rules, and no rule of an SLO without the SLO.                           *)
ASSUME RulesAssumption ==
    /\ {MaxClock, MaxSamples, MaxRules, MaxEdits} \subseteq Nat
    /\ \A req \in RuleRequests : ValidRule(req) => StoredCondition(req) \in StoredConditions
    /\ \A req \in SloRequests :
          /\ req.service \in STRING /\ req.environment \in STRING
          /\ req.target \in Int /\ req.fast \in Int /\ req.slow \in Int
    /\ \A table \in SeededRules :
          /\ table \in Seq(StoredRules)
          /\ \A i \in DOMAIN table : table[i].type # "slo_burn_rate" /\ Readable(table[i])

(* An SLO has one rule, made with it: what the endpoints count as firing   *)
(* alerts of a service are firing SLOs.                                    *)
RulesInv ==
    /\ clock \in Nat /\ IsFiniteSet(samples)
    /\ rules \in Seq(StoredRules) /\ slos \in Seq(StoredSlos)
    /\ \A i \in DOMAIN rules :
          /\ Readable(rules[i])
          /\ rules[i].type = "slo_burn_rate" =>
                rules[i].cond \in SloConditions /\ rules[i].cond.slo_id \in DOMAIN slos
    /\ \A i, j \in DOMAIN rules :
          rules[i].type = "slo_burn_rate" /\ rules[j].type = "slo_burn_rate"
             /\ rules[i].cond.slo_id = rules[j].cond.slo_id => i = j
=============================================================================
