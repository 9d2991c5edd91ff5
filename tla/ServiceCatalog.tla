---------------------------- MODULE ServiceCatalog ----------------------------
(***************************************************************************)
(* The service catalog of query-api (services/query-api/src/discovery.rs)  *)
(* and the SLO half of its reliability report (reliability.rs): request    *)
(* counts from ClickHouse, enriched with what alert-evaluator and          *)
(* admin-service answer on their internal endpoints.                       *)
(***************************************************************************)
EXTENDS AlertRules

CONSTANT Deployed    \* services with a deployment marker in admin-service

----------------------------------------------------------------------------
(* Discovery.                                                              *)

StoredSpans(org, env) ==
    {s \in samples : s.kind = "span" /\ s.org = org /\ env \in {Anywhere, s.environment}}

(* Spans, logs and metric series that name a service.                      *)
list_services(org) == {s.service : s \in {t \in samples : t.org = org}} \ {""}

list_environments(org) == {s.environment : s \in {t \in samples : t.org = org}} \ {""}

----------------------------------------------------------------------------
(* Summaries.                                                              *)

(* error_rate > 5 % and > 1 %.                                             *)
health_state(requests, errors) ==
    IF errors * 100 > 5 * requests THEN "breach"
    ELSE IF errors * 100 > requests THEN "watch" ELSE "healthy"

service_summary_from_row(requests, errors) ==
    [requests |-> requests, errors |-> errors, health |-> health_state(requests, errors),
     alerts |-> 0, deployed |-> FALSE]

(* Mutant: the answer of admin-service replaces what alert-evaluator said. *)
fetch_service_catalog_enrichment_MutReplaces(org, env) ==
    LET alerting == handle_alerting_enrichment(org, env)
        named    == {e.service : e \in alerting}
    IN [s \in named \union Deployed |->
          [alerts    |-> IF s \in Deployed THEN 0
                         ELSE Cardinality(UNION {Burning(k) : k \in SlosOf(org, s, env)}),
           breaching |-> s \notin Deployed /\ \E e \in alerting : e.service = s /\ e.breaching,
           deployed  |-> s \in Deployed]]

(* The two answers merged; a service that only one of them names has the   *)
(* defaults for the other.                                                 *)
fetch_service_catalog_enrichment(org, env) ==
    LET alerting == handle_alerting_enrichment(org, env)
        named    == {e.service : e \in alerting}
    IN [s \in named \union Deployed |->
          [alerts    |-> Cardinality(UNION {Burning(k) : k \in SlosOf(org, s, env)}),
           breaching |-> \E e \in alerting : e.service = s /\ e.breaching,
           deployed  |-> s \in Deployed]]

(* A burning SLO overrides the state that follows from the error rate.     *)
apply_catalog_enrichment(summary, enrichment, service) ==
    IF service \notin DOMAIN enrichment THEN summary
    ELSE [summary EXCEPT !.alerts = enrichment[service].alerts,
                         !.deployed = enrichment[service].deployed,
                         !.health = IF enrichment[service].breaching THEN "breach" ELSE @]

(* WHERE start_time_unix_nano >= from: the end of the range bounds nothing. *)
ServiceRow(org, service, env, from) ==
    {s \in StoredSpans(org, env) : s.service = service /\ s.at >= from}

Summary(org, service, env, from) ==
    LET row == ServiceRow(org, service, env, from)
    IN apply_catalog_enrichment(
          service_summary_from_row(Cardinality(row), Cardinality({s \in row : s.status = "ERROR"})),
          fetch_service_catalog_enrichment(org, env), service)

list_service_summaries(org, env, from) ==
    {[service |-> v, summary |-> Summary(org, v, env, from)] :
        v \in {s.service : s \in {t \in StoredSpans(org, env) : t.at >= from}}}

(* {} is a 404.                                                            *)
get_service_summary(org, service, env, from) ==
    IF ServiceRow(org, service, env, from) = {} THEN {}
    ELSE {[service |-> service, summary |-> Summary(org, service, env, from)]}

compute_slo_summary(shown) ==
    [total |-> Cardinality(shown), firing |-> Cardinality({s \in shown : s.firing})]

get_service_reliability_report(org, service, env) ==
    compute_slo_summary(handle_alerting_correlation(org, service, env))

----------------------------------------------------------------------------
ListedAgrees(org, from, env, item) ==
    LET seen   == item.summary
        report == get_service_reliability_report(org, item.service, env)
    IN /\ get_service_summary(org, item.service, env, from) = {item}
       /\ item.service \in list_services(org) \union {""}
       /\ seen.health = "breach" <=> seen.errors * 100 > 5 * seen.requests \/ report.firing > 0
       /\ seen.alerts > 0 <=> report.firing > 0
       /\ seen.alerts <= report.total
       /\ env = Anywhere =>
            seen.requests = Cardinality(UNION {ServiceRow(org, item.service, e, from) :
                                                 e \in list_environments(org) \union {""}})

(* The catalog, the page of a service and its reliability report agree: a  *)
(* listed service can be opened and shows the same, is among the services  *)
(* discovered if it has a name, is in breach exactly when its errors       *)
(* exceed the threshold or the report of the same environment has a firing *)
(* SLO, and counts an active alert exactly then; the environments and the  *)
(* requests without one make up all of its requests.                       *)
CatalogAgrees ==
    \A org \in Orgs, from \in {0, clock} :
    \A env \in {Anywhere} \union list_environments(org) :
    \A item \in list_service_summaries(org, env, from) : ListedAgrees(org, from, env, item)

(* The writers and the readers of rules and SLOs agree, and the catalog    *)
(* with them.                                                              *)
RulesAndCatalogAgree == RulesAreConsistent /\ CatalogAgrees
=============================================================================
