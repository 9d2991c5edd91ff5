-------------------------- MODULE TelemetryQueries --------------------------
(***************************************************************************)
(* What query-api reads back from ClickHouse: log search, live tail,       *)
(* context and histogram (services/query-api/src/logs.rs), trace search    *)
(* and histogram (traces.rs), topology, service summaries and the          *)
(* infrastructure inventory (discovery.rs), and the counter queries of     *)
(* libs/query-core/src/sql_templates.rs.  The SQL of each query is its     *)
(* meaning over a set of stored rows; rows keep arriving, in any order,    *)
(* while a client polls the tail and while one request reads what it       *)
(* answers in separate statements: a search its count and its page, a      *)
(* context its pivot and the rows on either side.  Requests only read, so  *)
(* one at a time is followed.                                              *)
(*                                                                         *)
(* Every row belongs to the caller's tenant: every query binds tenant_id,  *)
(* and the rows of other tenants would only be invisible.                  *)
(***************************************************************************)
EXTENDS Integers, FiniteSetsExt, SequencesExt

CONSTANTS
  LogPool,     \* log rows that may arrive: [id, ts, severity, source],
               \*   source is the service and the host of the row
  SpanPool,    \* span rows that may arrive: [id, trace, parent, service,
               \*   start, error, cluster, namespace, pod, container,
               \*   host], the last five as sequences: the parts of the name
               \*   between its slashes, <<>> if absent
  PointPool,   \* points of one counter series that may arrive: [t, v]
  PageLimit,   \* the limit a search or a tail asks for (at most 500)
  TraceLimit,  \* spans of a trace that are shown (1000)
  Window,      \* the window of a context request (at most 100)
  MaxTime      \* timestamps are 0 .. MaxTime

ASSUME QueryAssumption ==
  /\ PageLimit \in Nat \ {0}
  /\ TraceLimit \in Nat \ {0}
  /\ Window \in Nat \ {0}
  /\ MaxTime \in Nat
  /\ \A r \in LogPool : r.ts \in 0 .. MaxTime
  /\ \A s \in SpanPool : s.start \in 0 .. MaxTime
  /\ \A s, o \in SpanPool : s.trace = o.trace /\ s.id = o.id => s = o
  /\ \A s \in SpanPool : {s.cluster, s.namespace, s.pod, s.container, s.host} \subseteq Seq(STRING)
  /\ \A p \in PointPool : p.t \in 0 .. MaxTime /\ p.v \in Int

VARIABLES
  logs,     \* rows of observable.logs
  spans,    \* rows of observable.spans
  points,   \* rows of observable.metric_points of the series
  since,    \* the tail client's cursor: the timestamp of the last row it saw
  seen,     \* the rows the tail has shown, in order
  late,     \* rows that arrived at or below the cursor (history)
  reading   \* the log request in progress: [stage, counted, page], counted the
            \*   rows that were stored at its first statement

tqVars == <<logs, spans, points, since, seen, late, reading>>

----------------------------------------------------------------------------
(* Log queries.                                                            *)

\* ORDER BY timestamp_unix_nano ASC; the order of equal timestamps is the
\* database's choice, so a page is any sorted sequence of the rows.
SortedByTime(s) == \A i, j \in DOMAIN s : i < j => s[i].ts <= s[j].ts

Orders(rows) == {s \in [1 .. Cardinality(rows) -> rows] :
                   Range(s) = rows /\ SortedByTime(s)}

\* The first n rows in some ascending order, and the last n.
FirstRows(rows, n) ==
  {SubSeq(s, 1, IF Len(s) < n THEN Len(s) ELSE n) : s \in Orders(rows)}

LastRows(rows, n) ==
  {SubSeq(s, IF Len(s) < n THEN 1 ELSE Len(s) - n + 1, Len(s)) : s \in Orders(rows)}

(* Mutant: the tail's cursor is compared with >=, so the last row of a     *)
(* page comes back at the head of the next one.                            *)
tail_logs_MutInclusive(cursor) ==
  FirstRows({r \in logs : r.ts >= cursor}, PageLimit)

tail_logs(cursor) == FirstRows({r \in logs : r.ts > cursor}, PageLimit)

(* Mutant: the bucket width is rounded up.                                 *)
HistogramInterval_MutCeil(from, to, buckets) ==
  Max({1, (Max({1, to - from}) + buckets - 1) \div buckets})

\* to_ns.saturating_sub(from_ns).max(1) / bucket_count, at least 1.
HistogramInterval(from, to, buckets) ==
  Max({1, Max({1, to - from}) \div buckets})

\* WHERE ... GROUP BY intDiv(timestamp - from, interval): the rows of one index.
plan_log_histogram(from, to, buckets, b) ==
  {r \in logs : /\ r.ts >= from /\ r.ts <= to
                /\ (r.ts - from) \div HistogramInterval(from, to, buckets) = b}

\* Indexes past the last bucket are dropped by the handler, missing ones are empty.
log_histogram(from, to, buckets) ==
  [b \in 0 .. (buckets - 1) |-> plan_log_histogram(from, to, buckets, b)]

log_search_where_clause(from, to) == {r \in logs : r.ts >= from /\ r.ts <= to}

----------------------------------------------------------------------------
(* Trace queries and topology.                                             *)

TracesOf(rows) == {s.trace : s \in rows}

plan_trace_histogram(from, to, buckets, b) ==
  TracesOf({s \in spans : /\ s.start >= from /\ s.start <= to
                          /\ (s.start - from) \div HistogramInterval(from, to, buckets) = b})

trace_histogram(from, to, buckets) ==
  [b \in 0 .. (buckets - 1) |-> plan_trace_histogram(from, to, buckets, b)]

(* Mutant: the bucket is found by rounding, not by intDiv.                 *)
plan_response_time_histogram_MutRounded(service, from, to, buckets, b) ==
  LET width == HistogramInterval(from, to, buckets)
  IN  {s \in spans : /\ s.service = service /\ s.start >= from /\ s.start <= to
                     /\ (2 * (s.start - from) + width) \div (2 * width) = b}

\* The spans whose quantiles and rate one bucket of a service shows.
plan_response_time_histogram(service, from, to, buckets, b) ==
  {s \in spans : /\ s.service = service /\ s.start >= from /\ s.start <= to
                 /\ (s.start - from) \div HistogramInterval(from, to, buckets) = b}

get_service_response_time_history(service, from, to, buckets) ==
  [b \in 0 .. (buckets - 1) |-> plan_response_time_histogram(service, from, to, buckets, b)]

\* A trace opened: its first TraceLimit spans by start time; {} is a 404.
get_trace(trace) ==
  LET rows == {s \in spans : s.trace = trace}
  IN  {page \in SUBSET rows :
         /\ Cardinality(page) = Min({TraceLimit, Cardinality(rows)})
         /\ \A s \in page, o \in rows \ page : s.start <= o.start}

NewestStart(rows, trace) == Max({s.start : s \in {x \in rows : x.trace = trace}})

(* Mutant: only root spans are searched, as the NLQ trace query does.      *)
plan_trace_search_MutRootsOnly(from, to) ==
  LET rows == {s \in spans : s.start >= from /\ s.start <= to /\ s.parent = ""}
  IN  {T \in SUBSET TracesOf(rows) :
         /\ Cardinality(T) = Min({PageLimit, Cardinality(TracesOf(rows))})
         /\ \A t \in T, u \in TracesOf(rows) \ T :
              NewestStart(rows, t) >= NewestStart(rows, u)}

\* The traces a search may return: the newest PageLimit of them, by their
\* newest matching span; equal starts are ordered as the database likes.
plan_trace_search(from, to) ==
  LET rows == {s \in spans : s.start >= from /\ s.start <= to}
  IN  {T \in SUBSET TracesOf(rows) :
         /\ Cardinality(T) = Min({PageLimit, Cardinality(TracesOf(rows))})
         /\ \A t \in T, u \in TracesOf(rows) \ T :
              NewestStart(rows, t) >= NewestStart(rows, u)}

\* Branch 1: a span from the window and its parent in another service,
\* whenever that started.
CallPairs(from) ==
  {p \in spans \X spans : /\ p[2].parent = p[1].id /\ p[2].trace = p[1].trace
                          /\ p[1].service # p[2].service
                          /\ p[2].start >= from}

(* Mutant: the window is left out of the second branch.                    *)
CooccurrencePairs_MutUnbounded(from) ==
  {p \in spans \X spans : /\ p[1].trace = p[2].trace
                          /\ p[1].service # p[2].service
                          /\ p[1].start <= p[2].start}

\* Branch 2: ordered pairs of spans of one trace in different services, the
\* first one from the window.
CooccurrencePairs(from) ==
  {p \in spans \X spans : /\ p[1].trace = p[2].trace
                          /\ p[1].service # p[2].service
                          /\ p[1].start <= p[2].start
                          /\ p[1].start >= from}

Between(pairs, caller, callee) ==
  {p \in pairs : p[1].service = caller /\ p[2].service = callee}

(* Mutant: the status of the caller's span counts.                         *)
Failing_MutCaller(pairs) == {p \in pairs : p[1].error}

Failing(pairs) == {p \in pairs : p[2].error}

\* The two branches united; each measure is the larger of the two.  from is
\* bound in both of them.
plan_topology(from, caller, callee) ==
  [requests |-> Max({Cardinality(Between(CallPairs(from), caller, callee)),
                     Cardinality(Between(CooccurrencePairs(from), caller, callee))}),
   errors   |-> Max({Cardinality(Failing(Between(CallPairs(from), caller, callee))),
                     Cardinality(Failing(Between(CooccurrencePairs(from), caller, callee)))})]

Services == {s.service : s \in SpanPool}

TopologyEdges(from) ==
  {e \in Services \X Services :
     Between(CallPairs(from) \union CooccurrencePairs(from), e[1], e[2]) # {}}

----------------------------------------------------------------------------
(* The infrastructure inventory.                                           *)

EntityTypes == {"host", "cluster", "namespace", "pod", "container"}

\* The resource attribute an entity of the type is named by (<<>> if absent).
attribute_sql_expr(type, s) ==
  CASE type = "host" -> s.host
    [] type = "cluster" -> s.cluster
    [] type = "namespace" -> s.namespace
    [] type = "pod" -> s.pod
    [] type = "container" -> s.container

\* One row per combination of the GROUP BY columns.
fetch_infrastructure_summaries(type) ==
  {[cluster |-> s.cluster, namespace |-> s.namespace, pod |-> s.pod,
    entity |-> attribute_sql_expr(type, s)] :
     s \in {x \in spans : attribute_sql_expr(type, x) # <<>>}}

(* Mutant: a pod is named without its namespace.                           *)
infrastructure_identity_MutNoNamespace(type, row) ==
  CASE type = "cluster" -> row.entity
    [] type \in {"host", "namespace", "pod"} -> row.cluster \o row.entity
    [] OTHER -> row.cluster \o row.namespace \o row.pod \o row.entity

\* The entity_id: the names on the path that are present, joined by "/",
\* which their own parts are joined by as well.
infrastructure_identity(type, row) ==
  CASE type = "cluster" -> row.entity
    [] type \in {"host", "namespace"} -> row.cluster \o row.entity
    [] type = "pod" -> row.cluster \o row.namespace \o row.entity
    [] type = "container" -> row.cluster \o row.namespace \o row.pod \o row.entity

list_infrastructure_inventory(type) ==
  {infrastructure_identity(type, row) : row \in fetch_infrastructure_summaries(type)}

\* Found only when exactly one row carries the id.
get_infrastructure_detail(type, id) ==
  Cardinality({row \in fetch_infrastructure_summaries(type) :
                 infrastructure_identity(type, row) = id}) = 1

----------------------------------------------------------------------------
(* Counter queries over the points of one series, in time order.           *)

InTime(rows) == {s \in [1 .. Cardinality(rows) -> rows] :
                   Range(s) = rows /\ \A i, j \in DOMAIN s : i < j => s[i].t < s[j].t}

Samples(rows) == CHOOSE s \in InTime(rows) : TRUE

\* value - lagInFrame(value, 1, value), with a drop counted as a reset: the
\* first sample contributes nothing.
Delta(s, i) ==
  CASE i = 1 -> 0
    [] i > 1 /\ s[i].v < s[i - 1].v -> s[i].v
    [] OTHER -> s[i].v - s[i - 1].v

increase_sql(rows) ==
  SumFunction([i \in DOMAIN Samples(rows) |-> Delta(Samples(rows), i)])

(* Mutant: a drop is taken at face value instead of as a counter reset.    *)
rate_sql_MutNoReset(rows, width) ==
  LET s == Samples(rows)
  IN  [b \in 0 .. (MaxTime \div width) |->
         SumFunction([i \in {j \in DOMAIN s : s[j].t \div width = b} |->
                        IF i = 1 THEN 0 ELSE s[i].v - s[i - 1].v])]

\* The increase in each bucket of the given width (the rate is this divided
\* by the width in seconds).
rate_sql(rows, width) ==
  LET s == Samples(rows)
  IN  [b \in 0 .. (MaxTime \div width) |->
         SumFunction([i \in {j \in DOMAIN s : s[j].t \div width = b} |-> Delta(s, i)])]

\* The rows of the last two samples, with {} for a NULL.  Without a second
\* sample the aggregates over it are NULL, and 0 for the time, which has no
\* NULL: such a series has a row all the same, unless its time is 0.
irate_sql(rows) ==
  LET s == Samples(rows)
      n == Len(s)
  IN  IF n > 1
      THEN {[delta |-> {IF s[n].v < s[n - 1].v THEN s[n].v ELSE s[n].v - s[n - 1].v},
             over  |-> s[n].t - s[n - 1].t]}
      ELSE {[delta |-> {}, over |-> p.t] : p \in {q \in rows : q.t > 0}}

----------------------------------------------------------------------------
(* State.                                                                  *)

NoReading == [stage |-> "idle", counted |-> {}, page |-> <<>>]

TqInit ==
  /\ logs = {} /\ spans = {} /\ points = {}
  /\ since = -1 /\ seen = <<>> /\ late = {}
  /\ reading = NoReading

\* The writer stores a row; nothing orders its timestamp after the rows
\* already stored.
LogArrives(r) ==
  /\ r \notin logs
  /\ logs' = logs \union {r}
  /\ late' = IF r.ts <= since THEN late \union {r} ELSE late
  /\ UNCHANGED <<spans, points, since, seen, reading>>

SpanArrives(s) ==
  /\ s \notin spans
  /\ spans' = spans \union {s}
  /\ UNCHANGED <<logs, points, since, seen, late, reading>>

\* One point per series and timestamp.
PointArrives(p) ==
  /\ \A q \in points : q.t # p.t
  /\ points' = points \union {p}
  /\ UNCHANGED <<logs, spans, since, seen, late, reading>>

\* The client asks for the rows after its cursor and moves it to the last.
TailPolls ==
  \E page \in tail_logs(since) :
    /\ page # <<>>
    /\ seen' = seen \o page
    /\ since' = Last(page).ts
    /\ UNCHANGED <<logs, spans, points, late, reading>>

\* search_logs runs its count, its facets and its page as separate
\* statements.
SearchCounts ==
  /\ reading.stage = "idle"
  /\ reading' = [stage |-> "counted", counted |-> log_search_where_clause(0, MaxTime),
                 page |-> <<>>]
  /\ UNCHANGED <<logs, spans, points, since, seen, late>>

(* Mutant: the page is read with one row less than was asked for.          *)
SearchFetches_MutShortPage ==
  /\ reading.stage = "counted"
  /\ \E page \in LastRows(log_search_where_clause(0, MaxTime), PageLimit - 1) :
       reading' = [reading EXCEPT !.stage = "done", !.page = page]
  /\ UNCHANGED <<logs, spans, points, since, seen, late>>

SearchFetches ==
  /\ reading.stage = "counted"
  /\ \E page \in LastRows(log_search_where_clause(0, MaxTime), PageLimit) :
       reading' = [reading EXCEPT !.stage = "done", !.page = page]
  /\ UNCHANGED <<logs, spans, points, since, seen, late>>

\* get_log_context: the pivot is looked up by its id.
ContextFindsPivot ==
  /\ reading.stage = "idle"
  /\ \E pivot \in logs :
       reading' = [stage |-> "pivot", counted |-> logs, page |-> <<pivot>>]
  /\ UNCHANGED <<logs, spans, points, since, seen, late>>

\* Rows of the service and the host of the last row of the page.
OfSource(page) == {r \in logs : r.source = Last(page).source}

(* Mutant: the rows before the pivot are read in ascending order, so the   *)
(* window holds the oldest rows of the service instead of the nearest.     *)
ContextReadsBefore_MutAscending ==
  /\ reading.stage = "pivot"
  /\ \E before \in FirstRows({r \in OfSource(reading.page) : r.ts < Last(reading.page).ts}, Window) :
       reading' = [reading EXCEPT !.stage = "before", !.page = before \o reading.page]
  /\ UNCHANGED <<logs, spans, points, since, seen, late>>

\* The nearest rows strictly before the pivot.
ContextReadsBefore ==
  /\ reading.stage = "pivot"
  /\ \E before \in LastRows({r \in OfSource(reading.page) : r.ts < Last(reading.page).ts}, Window) :
       reading' = [reading EXCEPT !.stage = "before", !.page = before \o reading.page]
  /\ UNCHANGED <<logs, spans, points, since, seen, late>>

(* Mutant: the rows after the pivot are those of every host.               *)
ContextReadsAfter_MutEveryHost ==
  /\ reading.stage = "before"
  /\ \E after \in FirstRows({r \in logs : r.ts > Last(reading.page).ts}, Window) :
       reading' = [reading EXCEPT !.stage = "around", !.page = reading.page \o after]
  /\ UNCHANGED <<logs, spans, points, since, seen, late>>

\* The nearest rows strictly after it.
ContextReadsAfter ==
  /\ reading.stage = "before"
  /\ \E after \in FirstRows({r \in OfSource(reading.page) : r.ts > Last(reading.page).ts}, Window) :
       reading' = [reading EXCEPT !.stage = "around", !.page = reading.page \o after]
  /\ UNCHANGED <<logs, spans, points, since, seen, late>>

\* The answer is sent, or one of the statements has failed.
RequestEnds ==
  /\ reading.stage # "idle"
  /\ reading' = NoReading
  /\ UNCHANGED <<logs, spans, points, since, seen, late>>

LogNext ==
  \/ \E r \in LogPool : LogArrives(r)
  \/ TailPolls
  \/ SearchCounts \/ SearchFetches
  \/ ContextFindsPivot \/ ContextReadsBefore \/ ContextReadsAfter
  \/ RequestEnds

SpanNext == \E s \in SpanPool : SpanArrives(s)

PointNext == \E p \in PointPool : PointArrives(p)

TqNext == LogNext \/ SpanNext \/ PointNext

TqSpec == TqInit /\ [][TqNext]_tqVars

----------------------------------------------------------------------------
(* Properties.                                                             *)

(* A client that follows the live tail with the timestamp of the last row  *)
(* it saw never sees a row twice, and misses a stored row at or below its  *)
(* cursor only when the row arrived late or shares its timestamp with a    *)
(* row it was shown (tail_logs cuts its pages by timestamp alone).         *)
TailIsSound ==
  /\ Cardinality(Range(seen)) = Len(seen)
  /\ SortedByTime(seen)
  /\ \A r \in logs : r.ts <= since /\ r \notin Range(seen) =>
       r \in late \/ \E i \in DOMAIN seen : seen[i].ts = r.ts

(* The count and the page of a log search are read at different moments    *)
(* (search_logs): still, a page shorter than the limit holds every row     *)
(* that was counted, and a full page only drops counted rows that are no   *)
(* newer than every row it shows.                                          *)
PageCoversCount ==
  reading.stage = "done" =>
    \A r \in reading.counted \ Range(reading.page) :
      /\ Len(reading.page) = PageLimit
      /\ \A q \in Range(reading.page) : q.ts >= r.ts

\* Ranges and bucket counts a histogram is checked for.
HistogramRequests ==
  {q \in (0 .. MaxTime) \X (0 .. MaxTime) \X (1 .. 3) : q[1] <= q[2]}

(* The histogram of a range never counts a row twice, counts no row that   *)
(* the search over the same range does not find, and loses of those only   *)
(* the rows in the remainder at the right edge, after the last whole       *)
(* bucket (plan_log_histogram and log_histogram divide rounding down and   *)
(* drop the indexes past the last bucket).                                 *)
HistogramMatchesSearch ==
  logs # {} => \A q \in HistogramRequests :
    LET h     == log_histogram(q[1], q[2], q[3])
        found == log_search_where_clause(q[1], q[2])
        shown == UNION Range(h)
        width == HistogramInterval(q[1], q[2], q[3])
        count == [b \in DOMAIN h |-> Cardinality(h[b])]
    IN  /\ MapThenSumSet(LAMBDA b : count[b], DOMAIN h) = Cardinality(shown)
        /\ shown \subseteq found
        /\ \A r \in found \ shown : r.ts >= q[1] + q[3] * width
        /\ (q[2] - q[1]) - q[3] * width < q[3]
        /\ q[2] > q[1] /\ q[2] - q[1] >= q[3] => q[1] + q[3] * width <= q[2]

(* The context of a log row is read in three statements while rows arrive  *)
(* (get_log_context): still, it is in time order and of one service and    *)
(* host, and of their rows that were stored when it was asked for it skips *)
(* none between two rows it shows, unless that row has the timestamp of    *)
(* one of them.                                                            *)
ContextIsContiguous ==
  LET c == reading.page
  IN  reading.stage \in {"pivot", "before", "around"} =>
        /\ SortedByTime(c)
        /\ \A i \in DOMAIN c : c[i].source = c[1].source
        /\ \A r \in reading.counted :
             r.source = c[1].source /\ r.ts > c[1].ts /\ r.ts < c[Len(c)].ts =>
               \E i \in DOMAIN c : c[i].ts = r.ts

(* A trace search and the trace histogram of the same range tell the same  *)
(* story: a search that did not fill its page has found every trace the    *)
(* histogram counts, and a full page leaves out only traces whose newest   *)
(* span in the range is no newer (plan_trace_search, plan_trace_histogram). *)
(* A trace that was found opens, complete unless it is cut at the limit,   *)
(* and the response time histograms of the services cover, bucket by       *)
(* bucket, the traces that the trace histogram counts.                     *)
TraceViewsAgree ==
  spans # {} => \A q \in HistogramRequests :
    LET counted == trace_histogram(q[1], q[2], q[3])
        rows    == {s \in spans : s.start >= q[1] /\ s.start <= q[2]}
        timed(b) == UNION {get_service_response_time_history(v, q[1], q[2], q[3])[b] : v \in Services}
    IN  /\ \A T \in plan_trace_search(q[1], q[2]) :
             /\ \A u \in (UNION Range(counted)) \ T :
                  /\ Cardinality(T) = PageLimit
                  /\ \A t \in T : NewestStart(rows, t) >= NewestStart(rows, u)
             /\ \A t \in T : \A page \in get_trace(t) :
                  page # {} /\ \A s \in rows \ page :
                     s.trace = t => Cardinality(page) = TraceLimit
        /\ \A b \in DOMAIN counted : TracesOf(timed(b)) = counted[b]

(* The topology of a window and the traces of the window tell one story    *)
(* (plan_topology, plan_trace_search), although its branches put their     *)
(* bound on different spans: an edge is the work of a trace that a search  *)
(* of the window finds, an edge with errors ends in a span of the window   *)
(* that failed, and two services that a trace reached in the window are    *)
(* connected, in whichever direction.                                      *)
TopologyIsBacked ==
  \A from \in 0 .. MaxTime :
    /\ \A e \in TopologyEdges(from) :
         /\ \A T \in plan_trace_search(from, MaxTime) :
              \/ Cardinality(T) = PageLimit
              \/ \E t \in T : {e[1], e[2]} \subseteq {s.service : s \in {x \in spans : x.trace = t}}
         /\ plan_topology(from, e[1], e[2]).errors > 0 =>
              \E s \in spans : s.service = e[2] /\ s.error /\ s.start >= from
    /\ \A s, o \in {x \in spans : x.start >= from} :
         s.trace = o.trace /\ s.service # o.service =>
           {<<s.service, o.service>>, <<o.service, s.service>>} \cap TopologyEdges(from) # {}

(* The buckets of a rate query add up to the increase over the same points *)
(* for every bucket width, and the increase is what the counter gained:    *)
(* its last value less its first plus what each reset hid.  The last two   *)
(* samples contribute to it exactly what irate reports, over a length of   *)
(* time that is not 0, and irate reports it just when there are two.       *)
RatesAddUp ==
  points # {} =>
  LET s      == Samples(points)
      resets == {i \in 2 .. Len(s) : s[i].v < s[i - 1].v}
  IN  /\ \A width \in 1 .. (MaxTime + 1) :
           SumFunction(rate_sql(points, width)) = increase_sql(points)
      /\ increase_sql(points) = s[Len(s)].v - s[1].v
                                  + SumFunction([i \in resets |-> s[i - 1].v])
      /\ \A last \in irate_sql(points) :
           /\ last.over > 0
           /\ \A d \in last.delta :
                increase_sql(points) = increase_sql(points \ {s[Len(s)]}) + d
      /\ Len(s) > 1 <=> \E last \in irate_sql(points) : last.delta # {}

\* A name that is there and holds no slash.
Plain(name) == Len(name) = 1

(* A pod or a container that the inventory lists with its cluster, its     *)
(* namespace and its pod, all of them plain, can be opened by its id; what *)
(* may come in between is only another row of the same id in which a name  *)
(* holds a slash.  With a name missing, and for the other types, an id may *)
(* be that of several rows, see get_infrastructure_detail's branch for a   *)
(* lookup that "remained ambiguous".                                       *)
WorkloadsOpen ==
  \A type \in {"pod", "container"} : \A row \in fetch_infrastructure_summaries(type) :
    Plain(row.cluster) /\ Plain(row.namespace) /\ Plain(row.pod) /\ Plain(row.entity) =>
      LET id == infrastructure_identity(type, row)
      IN  /\ id \in list_infrastructure_inventory(type)
          /\ \/ get_infrastructure_detail(type, id)
             \/ \E other \in fetch_infrastructure_summaries(type) \ {row} :
                  /\ infrastructure_identity(type, other) = id
                  /\ \E name \in {other.cluster, other.namespace, other.pod, other.entity} :
                       Len(name) > 1

(* The four views of the logs (tail, search, histogram, context) agree.    *)
LogViewsAgree == TailIsSound /\ PageCoversCount /\ HistogramMatchesSearch /\ ContextIsContiguous

(* The views of the spans (traces, topology, inventory) agree.             *)
SpanViewsAgree == TraceViewsAgree /\ TopologyIsBacked /\ WorkloadsOpen

----------------------------------------------------------------------------
\* What a request may have read of the rows that are stored.
Readings == [stage : {"idle", "counted", "done", "pivot", "before", "around"},
             counted : SUBSET logs, page : Seq(logs)]

(* The invariant behind the properties of the tail and of the search: the  *)
(* cursor is not before what the tail has shown, and what a search has     *)
(* counted is still stored.                                                *)
TqInv ==
  /\ logs \subseteq LogPool /\ IsFiniteSet(logs)
  /\ spans \subseteq SpanPool /\ IsFiniteSet(spans)
  /\ since \in Int /\ seen \in Seq(logs)
  /\ IsInjective(seen) /\ SortedByTime(seen)
  /\ \A i \in DOMAIN seen : seen[i].ts <= since
  /\ \A r \in logs : r.ts <= since /\ r \notin Range(seen) =>
       r \in late \/ \E i \in DOMAIN seen : seen[i].ts = r.ts
  /\ reading \in Readings
  /\ reading.stage = "pivot" => Len(reading.page) = 1
  /\ reading.stage \in {"pivot", "before", "around"} => reading.page # <<>>
  /\ PageCoversCount /\ ContextIsContiguous

(* The invariant behind the counter queries: the stored points are         *)
(* finitely many, and no two of them have one time.                        *)
PointsInv ==
  /\ points \subseteq PointPool /\ IsFiniteSet(points)
  /\ \A p, q \in points : p.t = q.t => p = q

============================================================================
