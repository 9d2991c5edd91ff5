------------------------------ MODULE MCDataPlane ------------------------------
(***************************************************************************)
(* Instances of what handles telemetry at either end of the pipeline, for  *)
(* TLC: the gateway's export endpoints, natural-language questions, the    *)
(* queries over logs, spans and points, and the alert rules evaluated      *)
(* against them.  They share no variables, so a behaviour follows one of   *)
(* them, its focus, and leaves the others in their initial states.         *)
(***************************************************************************)
EXTENDS IngestGateway, NlqPipeline, PlaygroundQueries, ServiceCatalog, TLC

CONSTANTS
    Focuses,              \* components that the run follows
    e1, e2,               \* exports in flight, and questions being answered
    ta, tb                \* tenants

VARIABLE focus

----------------------------------------------------------------------------
(* Exports: one per signal, with nested and mistyped attributes, several   *)
(* series, a sum without isMonotonic, a histogram with a gap in its        *)
(* buckets and one with a decreasing count, undecodable bodies and an      *)
(* empty request.                                                          *)

Text(s) == Scalar("string", s)

OfShop == {<<"service.name", Text("shop")>>}

PointOf(label, detail) ==
    [attrs |-> {<<"route", label>>}, time |-> 1, start |-> 0, value |-> 1, detail |-> detail]

MetricOf(type, monotonic, measured) ==
    [name |-> "m", type |-> type, monotonic |-> monotonic, temporality |-> 2, resource |-> OfShop,
     points |-> measured]

Series(base, suffix, le, scraped) ==
    [base |-> base, suffix |-> suffix, le |-> le, job |-> "j", override |-> "",
     instance |-> "i", label |-> "l", samples |-> scraped]

LogOf(body) ==
    [resource |-> OfShop, attrs |-> {<<"k", Nested("kvlist", {<<"a", Scalar("int", "1")>>})>>},
     body |-> body, time |-> 5, observed |-> 0, trace |-> "zeros"]

OneSpan ==
    [resource |-> OfShop, attrs |-> {<<"k", Scalar("double", "1.0")>>}, kind |-> 2,
     named |-> FALSE, status |-> 2, start |-> 3, end |-> 2, parent |-> "zeros",
     events |-> <<{<<"e", Scalar("bool", "true")>>}>>]

Sent(signal, malformed, data) == [signal |-> signal, malformed |-> malformed, data |-> data]

MCExports ==
    [x \in {"log", "span", "sum", "updown", "summary", "scrape", "bad", "broken", "none"} |->
        CASE x = "log"     -> Sent("logs", FALSE, LogOf(Nested("array", {<<"0", Text("a")>>})))
          [] x = "span"    -> Sent("traces", FALSE, OneSpan)
          [] x = "sum"     -> Sent("metrics", FALSE,
                                   MetricOf("sum", "false", {PointOf(Text("a"), FALSE),
                                                             PointOf(Scalar("int", "1"), FALSE)}))
          [] x = "updown"  -> Sent("metrics", FALSE,
                                   MetricOf("sum", "absent", {PointOf(Text("a"), FALSE)}))
          [] x = "summary" -> Sent("metrics", FALSE, 
                                   MetricOf("summary", "absent", {PointOf(Text("a"), TRUE)}))
          [] x = "scrape"  -> Sent("prometheus", FALSE,
                                   {Series("h", "_bucket", 1, (1 :> 2) @@ (2 :> 3)),
                                    Series("h", "_bucket", Inf, (1 :> 5) @@ (2 :> 3)),
                                    Series("h", "_count", Inf, 1 :> 5),
                                    Series("up", "", Inf, 1 :> 1),
                                    Series("c", "_total", Inf, 1 :> 7),
                                    Series("c", "_created", Inf, 1 :> 7),
                                    Series("g", "_bucket", 1, 1 :> 2),
                                    Series("g", "_bucket", 2, 1 :> 2),
                                    Series("g", "_sum", Inf, 1 :> 5)})
          [] x = "bad"     -> Sent("metrics", TRUE, {})
          [] x = "broken"  -> Sent("prometheus", TRUE, {})
          [] x = "none"    -> Sent("prometheus", FALSE, {})]

----------------------------------------------------------------------------
(* Questions and what the model answers: each form of question, metric     *)
(* names to be guessed, and filters the templates have to reject or keep.  *)

Raw(op, signals, metric, filters) == RawIr(op, signals, metric, filters, "absent", TRUE)

Says(kind, ir) == Answer(TRUE, kind, ir, Missing, NoRaw)

MCAnswers ==
    {NoAnswer,
     Says("decline", Missing),
     Says("ir", NoObject),
     Says("ir", Raw("rate", <<"metric">>, <<"Latency">>,
                    <<Filter("Service_Name", "=", "web"), Filter("time", "range", "1h")>>)),
     Says("ir", Raw("table", <<"logs">>, <<>>,
                    <<Filter("environment", "=", "web"), Filter("environment", "!=", "dev")>>)),
     Says("ir", Raw("topk", <<>>, <<"request">>,
                    <<Filter("service_name", "=~", "w"), Filter("service_name", "!=", "x")>>)),
     Says("catalog", Raw("", <<>>, <<>>, <<>>)),
     Says("ir", Raw("table", <<"traces">>, <<>>, <<Filter("service_name", "!=", "web")>>))}

Charted ==
    [NoIr EXCEPT !.operation = "timeseries", !.signals = <<"metrics">>, !.metric = <<"request">>,
                 !.from = "now-1h", !.filters = <<Filter("environment", "=", "web")>>]

MCQuestions ==
    {Question("text", Missing, <<>>, FALSE, "web", NoIr, "execute"),
     Question("text", Missing, <<>>, FALSE, "web", Charted, "execute"),
     Question("text", Missing, <<>>, TRUE, "", NoIr, "interpret"),
     Question("empty", Missing, <<>>, FALSE, "web", Charted, "execute"),
     Question("raw", Raw("rate", <<>>, <<"request">>, <<>>), <<>>, FALSE, "web", Charted, "execute"),
     Question("shorthand", Missing,
              <<Token("m", "", "request"), Token("", "environment", "web"), Token("op", "", "rate")>>,
              FALSE, "web", Charted, "execute")}

MCRegistered ==
    <<<<"http", "request", "requests">>, <<"Request">>, <<"latency", "response">>, <<"Latency">>,
      <<"request">>>>

----------------------------------------------------------------------------
(* Stored telemetry: logs of two hosts with equal times, a trace whose     *)
(* child starts first and runs in a cluster with a slash in its name, a    *)
(* counter that is reset.                                                  *)

StoredLog(id, ts, source) == [id |-> id, ts |-> ts, severity |-> 9, source |-> source]

MCLogs ==
    {StoredLog("l1", 0, "h"), StoredLog("l2", 1, "h"), StoredLog("l3", 1, "g"), StoredLog("l4", 3, "h")}

StoredSpan(id, trace, parent, service, start, error, pod) ==
    [id |-> id, trace |-> trace, parent |-> parent, service |-> service, start |-> start,
     error |-> error, cluster |-> <<"c">>, namespace |-> <<"n">>, pod |-> <<pod>>,
     container |-> <<"x">>, host |-> <<"h">>]

MCSpans ==
    {StoredSpan("s1", "t1", "", "a", 1, FALSE, "p1"), 
     [StoredSpan("s2", "t1", "s1", "b", 0, TRUE, "p1") EXCEPT !.cluster = <<"c", "n">>, !.namespace = <<>>],
     StoredSpan("s3", "t1", "s1", "b", 2, TRUE, "p2"),
     [StoredSpan("s4", "t2", "", "a", 2, FALSE, "p1") EXCEPT !.namespace = <<"m">>]}

MCPoints == {[t |-> 0, v |-> 2], [t |-> 1, v |-> 3], [t |-> 2, v |-> 1], [t |-> 3, v |-> 4]}

(* A counter whose series in two environments have one sorting key, a      *)
(* counter of two temporalities and a gauge of two series.                 *)
MCSeries ==
    [s \in {"a", "b", "c", "d", "g", "h"} |->
        CASE s = "a" -> [key |-> "k1", group |-> "prod", stream |-> "plain", gauge |-> FALSE]
          [] s = "b" -> [key |-> "k2", group |-> "calls", stream |-> "cumulative", gauge |-> FALSE]
          [] s = "c" -> [key |-> "k1", group |-> "test", stream |-> "plain", gauge |-> FALSE]
          [] s = "d" -> [key |-> "k5", group |-> "calls", stream |-> "delta", gauge |-> FALSE]
          [] s = "g" -> [key |-> "k3", group |-> "load", stream |-> "plain", gauge |-> TRUE]
          [] s = "h" -> [key |-> "k4", group |-> "load", stream |-> "plain", gauge |-> TRUE]]

Measured(s, t, v) == [series |-> s, t |-> t, v |-> v]

MCBatches ==
    [b \in {"b1", "b2", "b3", "b4"} |->
        CASE b = "b1" -> [series |-> {"a", "g"},
                          points |-> {Measured("a", 1, 2), Measured("g", 1, 2)}]
          [] b = "b2" -> [series |-> {"b", "c"},
                          points |-> {Measured("b", 1, 3), Measured("c", 1, 1)}]
          [] b = "b3" -> [series |-> {"b", "g", "h"},
                          points |-> {Measured("b", 2, 1), Measured("g", 2, 1), Measured("h", 2, 4)}]
          [] b = "b4" -> [series |-> {"b", "d", "h"},
                          points |-> {Measured("b", 3, 2), Measured("d", 1, 5), Measured("h", 1, 3)}]]

----------------------------------------------------------------------------
(* A threshold and a change rule, one nameless, SLOs on and off the        *)
(* boundary, and a deadman rule as a database seed would hold it.          *)

MCRuleRequests ==
    {[name |-> "n", type |-> "threshold", metric |-> "m", operator |-> "gt", threshold |-> 1,
      service |-> ""],
     [name |-> "n", type |-> "change_detection", metric |-> "m", window |-> 1, offset |-> 2,
      percent |-> 0, service |-> ""],
     [name |-> "", type |-> "threshold", metric |-> "m", operator |-> "gt", threshold |-> 1,
      service |-> ""]}

(* With a deadman rule made through the API.                               *)
MCDeadmanRequests ==
    MCRuleRequests \union {[name |-> "n", type |-> "deadman", window |-> 1, service |-> "s"]}

MCSloRequests ==
    {[service |-> "s", environment |-> "prod", target |-> 5, fast |-> 2, slow |-> 1],
     [service |-> "s", environment |-> "test", target |-> 5, fast |-> 1, slow |-> 1],
     [service |-> "s", environment |-> "prod", target |-> 10, fast |-> 1, slow |-> 1]}

MCSampleKinds ==
    {[kind |-> "point", metric |-> "m", value |-> 2, integer |-> FALSE, service |-> "s",
      environment |-> "test"],
     [kind |-> "span", service |-> "s", environment |-> "prod", status |-> "ERROR"],
     [kind |-> "span", service |-> "s", environment |-> "prod", status |-> "UNSET"],
     [kind |-> "span", service |-> "", environment |-> "", status |-> "OK"]}

MCSeededRules ==
    {<<>>}
    \union {<<[org |-> o, type |-> "deadman", cond |-> [service_name |-> "s", window_secs |-> 1],
               svc |-> "", silenced |-> FALSE, state |-> "ok"]>> : o \in {ta, tb}}

----------------------------------------------------------------------------
(* Requests in flight differ in nothing but their names, and so do tenants. *)
Symmetry == Permutations({e1, e2}) \union Permutations({ta, tb})

dpVars == <<focus, igVars, nlqVars, tqVars, mqVars, arVars>>

DpInit ==
    /\ focus \in Focuses
    /\ IgInit /\ NlqInit /\ TqInit /\ MqInit /\ ArInit
    /\ focus # "exports" => enforcing
    /\ focus # "rules" => rules = <<>>

(* Two rules are followed over two samples, or one of them edited.         *)
RulesBound == edits > 0 /\ Len(rules) > 1 => Cardinality(samples) <= 1

DpNext ==
    /\ UNCHANGED focus
    /\ \/ /\ focus = "exports" /\ IgNext
          /\ UNCHANGED <<nlqVars, tqVars, mqVars, arVars>>
       \/ /\ focus = "questions" /\ NlqNext
          /\ UNCHANGED <<igVars, tqVars, mqVars, arVars>>
       \/ /\ focus = "logs" /\ LogNext
          /\ UNCHANGED <<igVars, nlqVars, mqVars, arVars>>
       \/ /\ focus = "spans" /\ SpanNext
          /\ UNCHANGED <<igVars, nlqVars, mqVars, arVars>>
       \/ /\ focus = "points" /\ PointNext
          /\ UNCHANGED <<igVars, nlqVars, mqVars, arVars>>
       \/ /\ focus = "metrics" /\ MqNext
          /\ UNCHANGED <<igVars, nlqVars, tqVars, arVars>>
       \/ /\ focus = "rules" /\ ArNext /\ RulesBound'
          /\ UNCHANGED <<igVars, nlqVars, tqVars, mqVars>>

DpSpec == DpInit /\ [][DpNext]_dpVars
=============================================================================
