-------------------------- MODULE PlaygroundQueries --------------------------
(***************************************************************************)
(* The DuckDB renderers of libs/query-core that the browser-local          *)
(* playground runs in place of query-api: log_query.rs, trace_query.rs,    *)
(* service_query.rs, topology_query.rs and metric_query.rs.  Each is said  *)
(* to mirror a production query; here both are read over the same rows.    *)
(*                                                                         *)
(* DuckDB divides integers with / in floating point, and a cast to BIGINT  *)
(* rounds to the nearest integer, a half to the even one.                  *)
(***************************************************************************)
EXTENDS MetricQueries

\* CAST(n / d AS BIGINT)
CastQuotient(n, d) ==
  LET q == n \div d
      r == 2 * (n % d)
  IN  IF r > d \/ (r = d /\ q % 2 = 1) THEN q + 1 ELSE q

(* Mutant: the newest row of the range is excluded.                        *)
render_log_query_duckdb_MutExclusive(from, to) ==
  LastRows({r \in logs : r.ts >= from /\ r.ts < to}, PageLimit)

\* Newest first, at most 500 rows.
render_log_query_duckdb(from, to) ==
  LastRows({r \in logs : r.ts >= from /\ r.ts <= to}, PageLimit)

render_log_histogram_duckdb(from, to, buckets, b) ==
  {r \in logs : /\ r.ts >= from /\ r.ts <= to
                /\ CastQuotient(r.ts - from, HistogramInterval(from, to, buckets)) = b}

\* The roots that started in the range, newest first.
render_trace_query_duckdb(from, to) ==
  LET roots == {s \in spans : s.parent = "" /\ s.start >= from /\ s.start <= to}
  IN  {page \in SUBSET roots :
         /\ Cardinality(page) = Min({PageLimit, Cardinality(roots)})
         /\ \A s \in page, o \in roots \ page : s.start >= o.start}

render_trace_histogram_duckdb(from, to, buckets, b) ==
  TracesOf({s \in spans : /\ s.start >= from /\ s.start <= to
                          /\ CastQuotient(s.start - from, HistogramInterval(from, to, buckets)) = b})

render_response_time_histogram_duckdb(service, from, to, buckets, b) ==
  {s \in spans : /\ s.service = service /\ s.start >= from /\ s.start <= to
                 /\ CastQuotient(s.start - from, HistogramInterval(from, to, buckets)) = b}

render_service_summary_duckdb(service, from, to) ==
  LET rows == {s \in spans : s.service = service /\ s.start >= from /\ s.start <= to}
  IN  [requests |-> Cardinality(rows), errors |-> Cardinality({s \in rows : s.error})]

(* Mutant: the range is that of the caller's span.                         *)
render_topology_duckdb_MutParentRange(from, to, caller, callee) ==
  LET pairs == {p \in Between(CallPairs(0), caller, callee) : p[1].start >= from /\ p[1].start <= to}
  IN  [requests |-> Cardinality(pairs), errors |-> Cardinality(Failing(pairs))]

\* Calls whose callee started in the range; topology_edge_from_row divides the two.
render_topology_duckdb(from, to, caller, callee) ==
  LET pairs == {p \in Between(CallPairs(from), caller, callee) : p[2].start <= to}
  IN  [requests |-> Cardinality(pairs), errors |-> Cardinality(Failing(pairs))]

render_metric_catalog_duckdb(g, k) == Cardinality({s \in OfEntry(g, k) : Copies(s) > 0})

\* One row per series and time.
render_metric_group_points_duckdb(g, s, t) ==
  LET rows == {p \in Joined(g, t) : p.series = s}
  IN  [total |-> SumFunction([p \in rows |-> Copies(s) * p.v]),
       over  |-> IF SeriesOf[s].gauge THEN SumFunction([p \in rows |-> Copies(s)]) ELSE 1]

----------------------------------------------------------------------------
(* Properties.                                                             *)

(* The playground's log table shows what a production search of the range  *)
(* may show, and its histogram puts no log before production's bucket nor  *)
(* more than one after it (render_log_query_duckdb and                     *)
(* render_log_histogram_duckdb against search_logs and plan_log_histogram). *)
PlaygroundLogsMirror ==
  logs # {} => \A q \in HistogramRequests :
    /\ render_log_query_duckdb(q[1], q[2])
         = LastRows(log_search_where_clause(q[1], q[2]), PageLimit)
    /\ \A b \in 0 .. MaxTime :
         render_log_histogram_duckdb(q[1], q[2], q[3], b)
           \subseteq plan_log_histogram(q[1], q[2], q[3], b)
                       \union plan_log_histogram(q[1], q[2], q[3], b - 1)

(* The playground never draws a call that production does not: its edges   *)
(* are edges of production's topology from the start of the range on,      *)
(* which has no end, with no more requests or errors, and every failing    *)
(* edge it shows ends in a service whose summary counts errors of the same *)
(* range.  Its trace list names traces that a production search of the     *)
(* range knows, and its latency histograms cover the traces of its trace   *)
(* histogram bucket by bucket.                                             *)
PlaygroundSpansMirror ==
  spans # {} => \A q \in HistogramRequests :
    /\ \A caller, callee \in Services :
         LET edge == render_topology_duckdb(q[1], q[2], caller, callee)
         IN  edge.requests > 0 =>
               /\ <<caller, callee>> \in TopologyEdges(q[1])
               /\ edge.requests <= plan_topology(q[1], caller, callee).requests
               /\ edge.errors <= plan_topology(q[1], caller, callee).errors
               /\ edge.errors <= render_service_summary_duckdb(callee, q[1], q[2]).errors
    /\ \A page \in render_trace_query_duckdb(q[1], q[2]) :
         \/ Cardinality(TracesOf(spans)) > PageLimit
         \/ \A T \in plan_trace_search(q[1], q[2]) : TracesOf(page) \subseteq T
    /\ \A b \in 0 .. MaxTime :
         render_trace_histogram_duckdb(q[1], q[2], q[3], b)
           = TracesOf(UNION {render_response_time_histogram_duckdb(s, q[1], q[2], q[3], b) :
                               s \in Services})

(* Added up over the series of a group, the points that the playground     *)
(* draws are production's chart, and the two catalogs count alike.         *)
PlaygroundMetricsMirror ==
  inserts # {} => \A g \in Groups :
    /\ \A k \in Streams : render_metric_catalog_duckdb(g, k) = list_metrics(g, k)
    /\ \A t \in 0 .. MaxTime :
         LET drawn == [s \in OfGroup(g) |-> render_metric_group_points_duckdb(g, s, t)]
             whole == get_metric_group_points(g, t)
         IN  /\ SumFunction([s \in OfGroup(g) |-> drawn[s].total]) = whole.total
             /\ whole.over # 1 =>
                  SumFunction([s \in OfGroup(g) |-> drawn[s].over]) = whole.over

(* The views of the logs agree, in production and in the playground.       *)
AllLogViewsAgree == LogViewsAgree /\ PlaygroundLogsMirror

(* The views of the spans agree, in production and in the playground.      *)
AllSpanViewsAgree == SpanViewsAgree /\ PlaygroundSpansMirror

(* What a counter's rates, its catalog entry and its charts show agree, in *)
(* production and in the playground.                                       *)
AllMetricViewsAgree == MetricsAddUp /\ PlaygroundMetricsMirror
============================================================================
