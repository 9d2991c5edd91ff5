--------------------------- MODULE OtlpConversion ---------------------------
(***************************************************************************)
(* What the ingest gateway makes of an OTLP export.  There are two         *)
(* converters: http-json/convert.rs for JSON and grpc/convert.rs for       *)
(* protobuf, which arrives over gRPC and over HTTP.                        *)
(*                                                                         *)
(* An AnyValue is [kind, text, kids]: kids are the <<key, scalar>> pairs of *)
(* an array or a kvlist, and kind "absent" is a KeyValue without a value.  *)
(* A JSON value has the same shape.  Texts are opaque; the text of a       *)
(* double is the one serde_json prints.                                    *)
(***************************************************************************)
EXTENDS Naturals, FiniteSets, Sequences

Scalar(kind, text) == [kind |-> kind, text |-> text, kids |-> {}]
Nested(kind, kids) == [kind |-> kind, text |-> "", kids |-> kids]
Null == Scalar("null", "")

(* f64::to_string writes 1.0 as "1", serde_json as "1.0". *)
Display(text) == IF text = "1.0" THEN "1" ELSE text

(***************************************************************************)
(* AnyValue.                                                               *)
(***************************************************************************)
JsonScalar(v) ==
    CASE v.kind = "string" -> Scalar("str", v.text)
      [] v.kind = "int"    -> IF v.text = "not a number" THEN Null ELSE Scalar("num", v.text)
      [] v.kind = "double" -> IF v.text = "NaN" THEN Null ELSE Scalar("num", v.text)
      [] v.kind = "bool"   -> Scalar("bool", v.text)
      [] OTHER             -> Null

(* Mutant: the elements of a list are kept as they came. *)
extract_otlp_any_value_MutRawKids(v) ==
    CASE v.kind = "array"  -> Nested("arr", v.kids)
      [] v.kind = "kvlist" -> Nested("obj", v.kids)
      [] OTHER             -> JsonScalar(v)

(* http-json: bytesValue is not known, and a key without a value is left out. *)
extract_otlp_any_value(v) ==
    CASE v.kind = "array"  -> Nested("arr", {<<kv[1], JsonScalar(kv[2])>> : kv \in v.kids})
      [] v.kind = "kvlist" -> Nested("obj", {<<kv[1], JsonScalar(kv[2])>> :
                                                kv \in {x \in v.kids : x[2].kind # "absent"}})
      [] OTHER             -> JsonScalar(v)

ProtoScalar(v) ==
    CASE v.kind = "string" -> Scalar("str", v.text)
      [] v.kind = "bool"   -> Scalar("bool", v.text)
      [] v.kind = "int"    -> Scalar("num", v.text)
      [] v.kind = "double" -> IF v.text = "NaN" THEN Null ELSE Scalar("num", v.text)
      [] v.kind = "bytes"  -> Scalar("str", "hexadecimal")
      [] OTHER             -> Null

(* grpc: any_value_to_json. *)
any_value_to_json(v) ==
    CASE v.kind = "array"  -> Nested("arr", {<<kv[1], ProtoScalar(kv[2])>> : kv \in v.kids})
      [] v.kind = "kvlist" -> Nested("obj", {<<kv[1], ProtoScalar(kv[2])>> : kv \in v.kids})
      [] OTHER             -> ProtoScalar(v)

(***************************************************************************)
(* Attributes are sets of <<key, AnyValue>> pairs, keys being distinct.    *)
(***************************************************************************)
otlp_attrs_to_map(attrs) ==
    {<<kv[1], extract_otlp_any_value(kv[2])>> : kv \in {x \in attrs : x[2].kind # "absent"}}

kv_list_to_map(attrs) == {<<kv[1], any_value_to_json(kv[2])>> : kv \in attrs}

(* The labels of a metric series are strings. *)
JsonLabel(v) ==
    LET j == extract_otlp_any_value(v)
    IN CASE j.kind \in {"str", "num", "bool"} -> j.text
         [] j.kind = "null" -> ""
         [] OTHER -> "text of a nested value"

otlp_attrs_to_string_map(attrs) ==
    {<<kv[1], JsonLabel(kv[2])>> : kv \in {x \in attrs : x[2].kind # "absent"}}

kv_str_value(v) ==
    CASE v.kind \in {"string", "int", "bool"} -> v.text
      [] v.kind = "double" -> Display(v.text)
      [] OTHER -> ""

kv_str_map(attrs) == {<<kv[1], kv_str_value(kv[2])>> : kv \in attrs}

(* extract_string_attr and string_attr_from_kv: an attribute that is a string, or "". *)
StringAttr(attrs, key) ==
    LET found == {kv[2].text : kv \in {x \in attrs : x[1] = key /\ x[2].kind = "string"}}
    IN IF found = {} THEN "" ELSE CHOOSE s \in found : TRUE

(***************************************************************************)
(* Logs: [resource, attrs, body, time, observed, trace]; observed 0 and    *)
(* trace "" are fields that the client left out.                           *)
(***************************************************************************)
parse_otlp_logs(lr) ==
    [body |-> extract_otlp_any_value(lr.body), attributes |-> otlp_attrs_to_map(lr.attrs),
     resource_attributes |-> otlp_attrs_to_map(lr.resource),
     service_name |-> StringAttr(lr.resource, "service.name"),
     timestamp |-> lr.time,
     observed |-> IF lr.observed = 0 THEN lr.time ELSE lr.observed,
     trace_id |-> lr.trace]

(* non_empty_hex: no identifier, or one of zeros only, is None. *)
non_empty_hex(id) == IF id = "zeros" THEN "" ELSE id

proto_logs_to_domain(lr) ==
    [body |-> any_value_to_json(lr.body), attributes |-> kv_list_to_map(lr.attrs),
     resource_attributes |-> kv_list_to_map(lr.resource),
     service_name |-> StringAttr(lr.resource, "service.name"),
     timestamp |-> lr.time, observed |-> lr.observed,
     trace_id |-> non_empty_hex(lr.trace)]

(***************************************************************************)
(* Spans: [resource, attrs, kind, named, status, start, end, parent,       *)
(* events]; named says that JSON gives kind and status as enum names.      *)
(***************************************************************************)
SpanKind(n) == CASE n = 2 -> "server" [] n = 3 -> "client" [] n = 4 -> "producer"
                 [] n = 5 -> "consumer" [] OTHER -> "internal"
SpanStatus(n) == CASE n = 1 -> "ok" [] n = 2 -> "error" [] OTHER -> "unset"

(* end.saturating_sub(start): clocks may run backwards. *)
Duration(s) == IF s.end >= s.start THEN s.end - s.start ELSE 0

(* A name is not parsed as a number, so it counts as 0. *)
span_kind_from_json(s) == SpanKind(IF s.named THEN 0 ELSE s.kind)
status_from_json(s) == SpanStatus(IF s.named THEN 0 ELSE s.status)

parse_otlp_traces(s) ==
    [service_name |-> StringAttr(s.resource, "service.name"),
     service_version |-> StringAttr(s.resource, "service.version"),
     resource_attributes |-> otlp_attrs_to_map(s.resource),
     attributes |-> otlp_attrs_to_map(s.attrs),
     parent_span_id |-> s.parent, span_kind |-> span_kind_from_json(s),
     status_code |-> status_from_json(s), duration |-> Duration(s),
     events |-> [i \in DOMAIN s.events |-> otlp_attrs_to_map(s.events[i])],
     deployment_id |-> ""]

(* The version of the service stays in the resource attributes. *)
proto_spans_to_domain(s) ==
    [service_name |-> StringAttr(s.resource, "service.name"), service_version |-> "",
     resource_attributes |-> kv_list_to_map(s.resource), attributes |-> kv_list_to_map(s.attrs),
     parent_span_id |-> non_empty_hex(s.parent), span_kind |-> SpanKind(s.kind),
     status_code |-> SpanStatus(s.status), duration |-> Duration(s),
     events |-> [i \in DOMAIN s.events |-> kv_list_to_map(s.events[i])],
     deployment_id |-> ""]

(***************************************************************************)
(* Metrics: [name, type, monotonic, temporality, resource, points], and a  *)
(* point is [attrs, time, start, value, detail]; detail says that it has   *)
(* exponential buckets or quantiles.  monotonic is "true", "false" or      *)
(* "absent": the JSON form of a protobuf message leaves a false field out. *)
(***************************************************************************)
Temporality(n) == CASE n = 1 -> "delta" [] n = 2 -> "cumulative" [] OTHER -> "none"

(* The identity of a series hashes these fields; the hash is taken to be injective. *)
deterministic_metric_series_id(name, type, monotonic, temporality, labels, resource, service) ==
    <<name, type, monotonic, temporality, labels, resource, service>>

SeriesId(m, monotonic, labels, resource) ==
    deterministic_metric_series_id(m.name, m.type,
        IF m.type = "sum" THEN monotonic ELSE "none",
        IF m.type \in {"sum", "histogram", "exponential_histogram"}
        THEN Temporality(m.temporality) ELSE "none",
        labels, resource, StringAttr(m.resource, "service.name"))

Point(series, dp, start) ==
    [series |-> series, time |-> dp.time, start |-> start, value |-> dp.value]

Rejected(m) ==
    IF m.type \in {"exponential_histogram", "summary"}
    THEN Cardinality({dp \in m.points : dp.detail}) ELSE 0

(* is_monotonic: None for a JSON body without the field, Some(false) for such a message. *)
JsonMonotonic(m) == IF m.monotonic = "absent" THEN "none" ELSE m.monotonic
ProtoMonotonic(m) == IF m.monotonic = "absent" THEN "false" ELSE m.monotonic

(* http-json: only sums, gauges and histograms; a missing start stays missing. *)
parse_otlp_metrics(m) ==
    LET known == IF m.type \in {"sum", "gauge", "histogram"} THEN m.points ELSE {}
        id(dp) == SeriesId(m, JsonMonotonic(m), otlp_attrs_to_string_map(dp.attrs),
                           otlp_attrs_to_map(m.resource))
    IN [series |-> {id(dp) : dp \in known},
        points |-> {Point(id(dp), dp, IF dp.start = 0 THEN "none" ELSE "some") : dp \in known},
        rejected |-> 0]

(* grpc: a missing start is 0; of the other two types count and sum are kept. *)
proto_metrics_to_domain(m) ==
    LET id(dp) == SeriesId(m, ProtoMonotonic(m), kv_str_map(dp.attrs),
                           kv_list_to_map(m.resource))
    IN [series |-> {id(dp) : dp \in m.points},
        points |-> {Point(id(dp), dp, "some") : dp \in m.points},
        rejected |-> Rejected(m)]

(***************************************************************************)
(* What the two converters agree on.                                       *)
(***************************************************************************)
Portable(v) ==
    /\ v.kind \notin {"bytes", "absent"} /\ v.text # "not a number"
    /\ \A kv \in v.kids : kv[2].kind \notin {"bytes", "absent"} /\ kv[2].text # "not a number"

PortableAttrs(attrs) == \A kv \in attrs : Portable(kv[2])

(* Labels agree for scalars whose text both sides print alike. *)
PortableLabel(v) ==
    \/ v.kind \in {"string", "bool"}
    \/ v.kind = "int" /\ v.text # "not a number"
    \/ v.kind = "double" /\ Display(v.text) = v.text /\ v.text # "NaN"

PortableLabels(attrs) == \A kv \in attrs : PortableLabel(kv[2])

(* The series of a sum agree only when the JSON body says whether it is monotonic. *)
PortableMetric(m) ==
    /\ m.type = "sum" => m.monotonic # "absent"
    /\ PortableAttrs(m.resource)
    /\ \A dp \in m.points : PortableLabels(dp.attrs)

=============================================================================
