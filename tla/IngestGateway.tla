---------------------------- MODULE IngestGateway ----------------------------
(***************************************************************************)
(* Replicas of services/ingest-gateway: an export arrives over OTLP/HTTP   *)
(* (JSON or protobuf), OTLP/gRPC or Prometheus remote write, is            *)
(* authenticated, limited, converted, charged to the metric budget and     *)
(* published to Redpanda.                                                  *)
(*                                                                         *)
(* A handler has two awaits: the validation of its key by auth-service and *)
(* the publish.  What lies between them is one step.  Limits and budgets   *)
(* are kept in the memory of each replica.                                 *)
(***************************************************************************)
EXTENDS OtlpConversion, PrometheusConversion

CONSTANTS
    Pods,        \* replicas
    Exports,     \* what clients send: [signal, malformed, data] by identifier
    ExportIds,   \* identifiers of requests
    KeyTenants,  \* tenants that have API keys
    Burst,       \* requests per second and tenant: the size of the token bucket
    Budget       \* METRIC_CARDINALITY_BUDGET

ASSUME IngestAssumption ==
    /\ Burst \in Nat \ {0} /\ Budget \in Nat /\ Inf \in Int
    /\ Pods # {} /\ KeyTenants # {} /\ DOMAIN Exports # {} /\ IsFiniteSet(ExportIds)
    /\ \A x \in DOMAIN Exports : Exports[x].signal \in {"traces", "logs", "metrics", "prometheus"}
    /\ \A x \in DOMAIN Exports : Exports[x].signal = "prometheus" /\ ~Exports[x].malformed =>
          AreTimeSeries(Exports[x].data)

Transports == {"http_json", "http_protobuf", "grpc"}
KeyRoles == {"viewer", "member", "admin"}   \* the CHECK constraint of api_keys.role
Limited == {"traces", "logs", "metrics"}
Refusals == {"unauthorized", "forbidden", "limited", "malformed", "over_budget"}
NoRequest == [stage |-> "free", pod |-> CHOOSE p \in Pods : TRUE, transport |-> "grpc",
              tenant |-> CHOOSE t \in KeyTenants : TRUE, role |-> "viewer",
              export |-> CHOOSE x \in DOMAIN Exports : TRUE, answer |-> "none", charge |-> 0]

VARIABLES
    tokens,    \* trace, log and metric rate limiters
    charged,   \* MetricCardinalityBudget.counts
    enforcing, \* METRIC_CARDINALITY_ENFORCE
    requests,  \* each with the charge that its replica still remembers
    queued     \* requests whose envelope is in telemetry.raw.v1

igVars == <<tokens, charged, enforcing, requests, queued>>

IgInit ==
    /\ tokens = [p \in Pods |-> [k \in Limited \X KeyTenants |-> Burst]]
    /\ charged = [p \in Pods |-> [t \in KeyTenants |-> 0]]
    /\ enforcing \in BOOLEAN
    /\ requests = [r \in ExportIds |-> NoRequest]
    /\ queued = {}

(* HTTP admits two roles; gRPC refuses one. *)
can_ingest(transport, role) ==
    IF transport = "grpc" THEN role # "viewer" ELSE role \in {"member", "admin"}

Answered(r, answer) ==
    [requests EXCEPT ![r] = [requests[r] EXCEPT !.stage = "answered", !.answer = answer]]

(* auth_middleware, and the first lines of the gRPC handlers, which tonic calls only with a
   message that it could decode. *)
Authenticate_export(r, p, transport, t, role, x) ==
    /\ requests[r].stage = "free"
    /\ Exports[x].signal = "prometheus" => transport = "http_protobuf"
    /\ Exports[x].malformed => transport # "grpc"
    /\ requests' = [requests EXCEPT ![r] =
          [NoRequest EXCEPT !.stage = IF can_ingest(transport, role) THEN "admitted" ELSE "answered",
                            !.answer = IF can_ingest(transport, role) THEN "none" ELSE "forbidden",
                            !.pod = p, !.transport = transport, !.tenant = t, !.role = role,
                            !.export = x]]
    /\ UNCHANGED <<tokens, charged, enforcing, queued>>

(* No key, a retired one, or auth-service does not answer. *)
Unauthenticated(r, p, transport, x) ==
    /\ requests[r].stage = "free"
    /\ Exports[x].signal = "prometheus" => transport = "http_protobuf"
    /\ requests' = [requests EXCEPT ![r] =
          [NoRequest EXCEPT !.stage = "answered", !.answer = "unauthorized", !.pod = p,
                            !.transport = transport, !.export = x]]
    /\ UNCHANGED <<tokens, charged, enforcing, queued>>

(* The protobuf converters serve gRPC and the protobuf bodies of OTLP/HTTP. *)
Converted(q) ==
    LET x == Exports[q.export]
        json == q.transport = "http_json"
    IN CASE x.signal = "traces"  -> IF json THEN parse_otlp_traces(x.data)
                                    ELSE proto_spans_to_domain(x.data)
         [] x.signal = "logs"    -> IF json THEN parse_otlp_logs(x.data)
                                    ELSE proto_logs_to_domain(x.data)
         [] x.signal = "metrics" -> IF json THEN parse_otlp_metrics(x.data)
                                    ELSE proto_metrics_to_domain(x.data)
         [] OTHER                -> write_request_to_metrics(x.data)

SeriesCount(q) ==
    CASE Exports[q.export].signal = "metrics" -> Cardinality(Converted(q).series)
      [] Exports[q.export].signal = "prometheus" -> Converted(q).submitted
      [] OTHER -> 0

(* The body of an export is finite. *)
ASSUME ExportsAreFinite ==
    \A x \in DOMAIN Exports, transport \in Transports :
        ~Exports[x].malformed => SeriesCount([export |-> x, transport |-> transport]) \in Nat

LimiterOf(q) ==
    <<IF Exports[q.export].signal = "prometheus" THEN "metrics" ELSE Exports[q.export].signal,
      q.tenant>>

check_key(q) == tokens[q.pod][LimiterOf(q)] > 0
TakeToken(q) == tokens' = [tokens EXCEPT ![q.pod][LimiterOf(q)] = @ - 1]

(* Remote write decodes before it asks the limiter; nothing in the body means 204 at once. *)
Empty(q) == Exports[q.export].signal = "prometheus" /\ ~Exports[q.export].malformed
            /\ Exports[q.export].data = {}

RateLimited(r) ==
    LET q == requests[r]
    IN /\ q.stage = "admitted" /\ ~check_key(q)
       /\ Exports[q.export].signal = "prometheus" => ~Exports[q.export].malformed /\ ~Empty(q)
       /\ requests' = Answered(r, "limited")
       /\ UNCHANGED <<tokens, charged, enforcing, queued>>

(* An unknown media type, a body over a size limit or one that cannot be decoded. *)
Malformed(r) ==
    LET q == requests[r]
    IN /\ q.stage = "admitted" /\ Exports[q.export].malformed
       /\ IF Exports[q.export].signal = "prometheus" THEN UNCHANGED tokens
          ELSE check_key(q) /\ TakeToken(q)
       /\ requests' = Answered(r, "malformed")
       /\ UNCHANGED <<charged, enforcing, queued>>

NothingToWrite(r) ==
    LET q == requests[r]
    IN /\ q.stage = "admitted" /\ Empty(q)
       /\ requests' = Answered(r, "ok")
       /\ UNCHANGED <<tokens, charged, enforcing, queued>>

(* Mutant: the series that the request adds are not counted. *)
ExceedsBudget_MutOldTotal(q) ==
    /\ enforcing /\ SeriesCount(q) > 0
    /\ charged[q.pod][q.tenant] > Budget

(* check_and_observe: under one lock, so two requests cannot both take the last of a budget. *)
ExceedsBudget(q) ==
    /\ enforcing /\ SeriesCount(q) > 0
    /\ charged[q.pod][q.tenant] + SeriesCount(q) > Budget

check_and_observe(r, q) ==
    IF ExceedsBudget(q)
    THEN requests' = Answered(r, "over_budget") /\ UNCHANGED charged
    ELSE /\ charged' = [charged EXCEPT ![q.pod][q.tenant] = @ + SeriesCount(q)]
         /\ requests' = [requests EXCEPT ![r] = [q EXCEPT !.stage = "publishing",
                                                          !.charge = SeriesCount(q)]]

(* Conversion, budget and the start of the publish, which every handler ends with; the budget
   of a request without series is not asked. *)
Export(r) ==
    LET q == requests[r]
    IN /\ q.stage = "admitted" /\ ~Exports[q.export].malformed /\ ~Empty(q)
       /\ check_key(q) /\ TakeToken(q)
       /\ check_and_observe(r, q)
       /\ UNCHANGED <<enforcing, queued>>

Http == {"http_json", "http_protobuf"}

ServedBy(r, signal, transports) ==
    Exports[requests[r].export].signal = signal /\ requests[r].transport \in transports

HttpExport(r) == RateLimited(r) \/ Malformed(r) \/ Export(r)
GrpcExport(r) == RateLimited(r) \/ Export(r)

export_traces(r)  == ServedBy(r, "traces", Http) /\ HttpExport(r)
export_logs(r)    == ServedBy(r, "logs", Http) /\ HttpExport(r)
export_metrics(r) == ServedBy(r, "metrics", Http) /\ HttpExport(r)

(* The three services of grpc/ call their handler export. *)
OltpTraceService_export(r)  == ServedBy(r, "traces", {"grpc"}) /\ GrpcExport(r)
OltpLogService_export(r)    == ServedBy(r, "logs", {"grpc"}) /\ GrpcExport(r)
OltpMetricService_export(r) == ServedBy(r, "metrics", {"grpc"}) /\ GrpcExport(r)

(* write of prometheus_rw. *)
write(r) ==
    /\ ServedBy(r, "prometheus", Http)
    /\ NothingToWrite(r) \/ Malformed(r) \/ RateLimited(r) \/ Export(r)

PublishSucceeds(r) ==
    /\ requests[r].stage = "publishing"
    /\ queued' = queued \union {r}
    /\ requests' = Answered(r, "ok")
    /\ UNCHANGED <<tokens, charged, enforcing>>

(* Mutant: a failed publish is only logged. *)
PublishFails_MutIgnored(r) ==
    /\ requests[r].stage = "publishing"
    /\ queued' \in {queued, queued \union {r}}
    /\ requests' = Answered(r, "ok")
    /\ UNCHANGED <<tokens, charged, enforcing>>

(* The 5 s timeout of publish, or an error: the record may have been stored all the same, and
   the budget keeps its charge. *)
PublishFails(r) ==
    /\ requests[r].stage = "publishing"
    /\ queued' \in {queued, queued \union {r}}
    /\ requests' = Answered(r, "error")
    /\ UNCHANGED <<tokens, charged, enforcing>>

(* The replica loses its limits, its counts and the requests that it serves. *)
PodRestarts(p) ==
    /\ \E r \in ExportIds : requests[r].stage # "free" /\ requests[r].pod = p
    /\ tokens' = [tokens EXCEPT ![p] = [k \in Limited \X KeyTenants |-> Burst]]
    /\ charged' = [charged EXCEPT ![p] = [t \in KeyTenants |-> 0]]
    /\ requests' = [r \in ExportIds |->
          IF requests[r].pod # p THEN requests[r]
          ELSE [requests[r] EXCEPT !.charge = 0,
                   !.stage = IF requests[r].stage = "free" THEN "free" ELSE "answered",
                   !.answer = IF requests[r].stage \in {"admitted", "publishing"}
                              THEN "error" ELSE requests[r].answer]]
    /\ \E some \in SUBSET {r \in ExportIds : requests[r].pod = p /\ requests[r].stage = "publishing"} :
          queued' = queued \union some
    /\ UNCHANGED enforcing

(* governor: one token comes back every 1/Burst of a second. *)
Replenish(p, k) ==
    /\ tokens[p][k] < Burst
    /\ tokens' = [tokens EXCEPT ![p][k] = @ + 1]
    /\ UNCHANGED <<charged, enforcing, requests, queued>>

IgNext ==
    \/ \E r \in ExportIds :
         \/ \E p \in Pods, x \in DOMAIN Exports, tr \in Transports :
              \/ \E t \in KeyTenants, role \in KeyRoles : Authenticate_export(r, p, tr, t, role, x)
              \/ Unauthenticated(r, p, tr, x)
         \/ export_traces(r) \/ export_logs(r) \/ export_metrics(r)
         \/ OltpTraceService_export(r) \/ OltpLogService_export(r)
         \/ OltpMetricService_export(r) \/ write(r)
         \/ PublishSucceeds(r) \/ PublishFails(r)
    \/ \E p \in Pods : PodRestarts(p) \/ \E k \in Limited \X KeyTenants : Replenish(p, k)

IgSpec == IgInit /\ [][IgNext]_igVars

(***************************************************************************)
(* Properties.                                                             *)
(***************************************************************************)
(* What a client is told is true: a success means that the envelope is in the topic (or that
   there was nothing to send), a refusal of any kind means that it never gets there; only an
   error leaves it open.  A viewer's key never gets anything in, whatever the transport. *)
AnswersAreTrue ==
    \A r \in ExportIds :
        LET q == requests[r]
        IN /\ q.answer = "ok" => r \in queued \/ Empty(q)
           /\ q.answer \in Refusals => r \notin queued
           /\ r \in queued => q.role # "viewer"

Charges == [r \in ExportIds |-> requests[r].charge]

(* While it enforces the budget, a replica has never let more series into the topic since it
   started than the budget allows, over all transports and handlers: what it remembers of its
   charges covers every metric envelope that it has published, timeouts included. *)
BudgetHolds ==
    \A p \in Pods, t \in KeyTenants :
        LET mine == {r \in ExportIds : requests[r].pod = p /\ requests[r].tenant = t}
        IN /\ enforcing => charged[p][t] <= Budget
           /\ FoldFunctionOnSet(LAMBDA a, b : a + b, 0, Charges, mine) = charged[p][t]
           /\ \A r \in mine \intersect queued :
                 requests[r].charge \in {0, SeriesCount(requests[r])}

(* One export that goes through both converters (a client that moves from HTTP/JSON to gRPC)
   is stored alike: log bodies and attributes, span attributes and durations, and, above all,
   the identity of a metric series, as far as the values can be written in both encodings.
   The series of a sum whose body leaves isMonotonic out are not among them: the two
   converters give them two identities. *)
ConvertersAgree ==
    \A r, s \in queued :
        LET q == requests[r]
            p == requests[s]
            x == Exports[q.export]
            a == Converted(q)
            b == Converted(p)
        IN q.export = p.export /\ q.transport = "http_json" /\ p.transport # "http_json" =>
             CASE x.signal = "logs" ->
                    /\ Portable(x.data.body) => a.body = b.body
                    /\ PortableAttrs(x.data.attrs) => a.attributes = b.attributes
               [] x.signal = "traces" ->
                    /\ PortableAttrs(x.data.attrs) => a.attributes = b.attributes
                    /\ a.duration = b.duration /\ a.service_name = b.service_name
                    /\ ~x.data.named => a.span_kind = b.span_kind /\ a.status_code = b.status_code
               [] x.signal = "metrics" ->
                    PortableMetric(x.data) => a.series \subseteq b.series
               [] OTHER -> TRUE

(* A histogram point that remote write stores has the buckets of one histogram at one time:
   its bounds increase when the scrape repeats none, and it counts every observation once:
   over its buckets, as many as the +Inf bucket said, when the cumulative counts do not
   decrease. *)
CountsOnce(pt, at) ==
    LET last == {ts \in at : ts.le = Inf}
        distinct == \A u, v \in at : u.le = v.le => u = v
        cumulative == \A u, v \in at : u.le <= v.le => u.samples[pt.time] <= v.samples[pt.time]
    IN /\ distinct => \A i \in 2 .. Len(pt.bounds) : pt.bounds[i - 1] < pt.bounds[i]
       /\ distinct /\ last # {} => Len(pt.counts) = Len(pt.bounds) + 1
       /\ cumulative => \A ts \in last : Total(pt.counts) = ts.samples[pt.time]

IsHistogramOf(pt, request) ==
    \E one \in request :
        /\ pt.series = build_series(one, <<one.base, "">>, "histogram")
        /\ CountsOnce(pt, {ts \in request : /\ ts.suffix = "_bucket"
                                            /\ GroupKey(ts) = GroupKey(one)
                                            /\ pt.time \in DOMAIN ts.samples})

HistogramsAddUp ==
    \A r \in queued :
        LET x == Exports[requests[r].export]
        IN x.signal = "prometheus" =>
             \A pt \in Converted(requests[r]).points :
                pt.series.type = "histogram" => IsHistogramOf(pt, x.data)

(* An export is answered truthfully and within the budget. *)
ExportsAreAccounted == AnswersAreTrue /\ BudgetHolds

(* Why this holds: nothing is in the topic before its request is published, only what could be
   decoded is, a request has no charge before that, and each replica's count for a tenant is
   the sum of the charges that it remembers. *)
Stages == {"free", "admitted", "publishing", "answered"}
RequestRow ==
    [stage : Stages, pod : Pods, transport : Transports, tenant : KeyTenants, role : KeyRoles,
     export : DOMAIN Exports, answer : Refusals \union {"none", "ok", "error"}, charge : Nat]

IgTypeOK ==
    /\ requests \in [ExportIds -> RequestRow]
    /\ charged \in [Pods -> [KeyTenants -> Nat]]
    /\ enforcing \in BOOLEAN
    /\ queued \subseteq ExportIds

InOrder(r, q) ==
    /\ q.stage # "answered" => q.answer = "none" /\ r \notin queued
    /\ q.stage \in {"admitted", "publishing"} => q.role # "viewer"
    /\ q.stage \in {"free", "admitted"} => q.charge = 0
    /\ q.charge = 0 \/ q.charge = SeriesCount(q)
    /\ q.answer = "ok" => r \in queued \/ Empty(q)
    /\ q.answer \in Refusals => r \notin queued
    /\ r \in queued => q.role # "viewer"
    /\ r \in queued \/ q.stage = "publishing" => ~Exports[q.export].malformed

ChargesOf(p, t) ==
    [r \in ExportIds |-> IF requests[r].pod = p /\ requests[r].tenant = t
                         THEN requests[r].charge ELSE 0]

IgInv ==
    /\ IgTypeOK
    /\ \A r \in ExportIds : InOrder(r, requests[r])
    /\ \A p \in Pods, t \in KeyTenants :
          /\ enforcing => charged[p][t] <= Budget
          /\ FoldFunctionOnSet(LAMBDA a, b : a + b, 0, ChargesOf(p, t), ExportIds) = charged[p][t]

(* What is stored of an export does not depend on the way it came in. *)
ConversionsAgree == ConvertersAgree /\ HistogramsAddUp

=============================================================================
