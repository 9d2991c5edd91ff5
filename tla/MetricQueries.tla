---------------------------- MODULE MetricQueries ----------------------------
(***************************************************************************)
(* The metric tables of ClickHouse between the storage-writer that fills   *)
(* them (services/storage-writer/src/metrics.rs) and the metric endpoints  *)
(* of query-api that read them (services/query-api/src/metrics.rs).        *)
(*                                                                         *)
(* observable.metric_series is a ReplacingMergeTree: every insert leaves a *)
(* part of its own, and a background merge of two parts keeps, of the rows *)
(* with one sorting key, the one inserted last.  The sorting key holds the *)
(* service, the metric and the attributes; the identity of a series holds  *)
(* the environment and the resource as well.  The queries do not say FINAL *)
(* and so see the rows of every part.                                      *)
(***************************************************************************)
EXTENDS TelemetryQueries

CONSTANTS
  SeriesOf,       \* [series id -> [key, group, stream, gauge]]: key is the sorting key,
                  \*   group what a chart selects by, stream the monotonicity and the
                  \*   temporality, gauge the metric type
  MetricBatches   \* [batch -> [series : SUBSET ids, points : SUBSET [series, t, v]]]:
                  \*   what the writer may flush at one time

\* A chart selects by metric type; a flush holds the series of its points,
\* because a converter puts both into one envelope.
ASSUME MetricAssumption ==
  /\ IsFiniteSet(DOMAIN SeriesOf)
  /\ \A s \in DOMAIN SeriesOf : SeriesOf[s].gauge \in BOOLEAN
  /\ \A s, o \in DOMAIN SeriesOf :
       SeriesOf[s].group = SeriesOf[o].group => SeriesOf[s].gauge = SeriesOf[o].gauge
  /\ \A b \in DOMAIN MetricBatches :
       /\ MetricBatches[b].series \subseteq DOMAIN SeriesOf
       /\ IsFiniteSet(MetricBatches[b].points)
       /\ \A p \in MetricBatches[b].points : p.series \in MetricBatches[b].series /\ p.v \in Int

VARIABLES
  parts,          \* the parts of observable.metric_series, oldest first
  metricPoints,   \* rows of observable.metric_points, with the batch they came in
  inserts,        \* insert_deduplication_tokens that the tables remember
  described       \* history: series that have been inserted

mqVars == <<parts, metricPoints, inserts, described>>

MqInit == parts = <<>> /\ metricPoints = {} /\ inserts = {} /\ described = {}

\* Rows whose sorting key is not among those of newer rows.
Survivors(old, new) ==
  {s \in old : \A n \in new : SeriesOf[n].key # SeriesOf[s].key}

\* One row per sorting key stays of an inserted block: the last written, and
\* the order of a batch is the order of arrival.
BlocksOf(series) ==
  {kept \in SUBSET series :
     \A s \in series : Cardinality({k \in kept : SeriesOf[k].key = SeriesOf[s].key}) = 1}

(* Mutant: the block of a series insert replaces what was there.           *)
insert_metric_series_MutReplaces(b) ==
  /\ <<"metric_series", b>> \notin inserts
  /\ MetricBatches[b].series # {}
  /\ \E block \in BlocksOf(MetricBatches[b].series) : parts' = <<block>>
  /\ described' = described \union MetricBatches[b].series
  /\ inserts' = inserts \union {<<"metric_series", b>>}
  /\ UNCHANGED metricPoints

\* A batch whose token is remembered is dropped by the table; so this step
\* is taken once per batch.
insert_metric_series(b) ==
  /\ <<"metric_series", b>> \notin inserts
  /\ MetricBatches[b].series # {}
  /\ \E block \in BlocksOf(MetricBatches[b].series) : parts' = Append(parts, block)
  /\ described' = described \union MetricBatches[b].series
  /\ inserts' = inserts \union {<<"metric_series", b>>}
  /\ UNCHANGED metricPoints

\* The two inserts of one flush run at the same time and retry on their own.
insert_metric_points(b) ==
  /\ <<"metric_points", b>> \notin inserts
  /\ MetricBatches[b].points # {}
  /\ metricPoints' = metricPoints \union
       {[series |-> p.series, t |-> p.t, v |-> p.v, batch |-> b] : p \in MetricBatches[b].points}
  /\ inserts' = inserts \union {<<"metric_points", b>>}
  /\ UNCHANGED <<parts, described>>

\* ClickHouse merges two neighbouring parts.
MergeParts(i) ==
  /\ i \in 1 .. (Len(parts) - 1)
  /\ parts' = SubSeq(parts, 1, i - 1)
                \o <<Survivors(parts[i], parts[i + 1]) \union parts[i + 1]>>
                \o SubSeq(parts, i + 2, Len(parts))
  /\ UNCHANGED <<metricPoints, inserts, described>>

MqNext ==
  \/ \E b \in DOMAIN MetricBatches : insert_metric_series(b) \/ insert_metric_points(b)
  \/ \E i \in DOMAIN parts : MergeParts(i)

MqSpec == MqInit /\ [][MqNext]_mqVars

----------------------------------------------------------------------------
(* The endpoints.                                                          *)

Copies(s) == Cardinality({i \in DOMAIN parts : s \in parts[i]})

OfGroup(g) == {s \in DOMAIN SeriesOf : SeriesOf[s].group = g}

Groups == {SeriesOf[s].group : s \in DOMAIN SeriesOf}

Streams == {SeriesOf[s].stream : s \in DOMAIN SeriesOf}

\* The catalog tells apart streams that a chart does not.
OfEntry(g, k) == {s \in OfGroup(g) : SeriesOf[s].stream = k}

(* Mutant: count() instead of countDistinct(metric_series_id).             *)
list_metrics_MutCount(g, k) == MapThenSumSet(Copies, OfEntry(g, k))

\* series_count of an entry of the catalog; one without rows is not listed.
list_metrics(g, k) == Cardinality({s \in OfEntry(g, k) : Copies(s) > 0})

\* The points of the group at one time, each joined with every row of its series.
Joined(g, t) ==
  {p \in metricPoints : p.t = t /\ p.series \in OfGroup(g) /\ Copies(p.series) > 0}

(* Mutant: a gauge is added up like a counter.                             *)
get_metric_group_points_MutSum(g, t) ==
  [total |-> SumFunction([p \in Joined(g, t) |-> Copies(p.series) * p.v]), over |-> 1]

\* A gauge is the average, everything else the sum; total / over is the value.
get_metric_group_points(g, t) ==
  LET rows == Joined(g, t)
  IN  [total |-> SumFunction([p \in rows |-> Copies(p.series) * p.v]),
       over  |-> IF \E s \in OfGroup(g) : SeriesOf[s].gauge
                 THEN SumFunction([p \in rows |-> Copies(p.series)]) ELSE 1]

get_metric_points(s) == {p \in metricPoints : p.series = s}

----------------------------------------------------------------------------
(* Properties.                                                             *)

\* No other series has the sorting key of one of the group's series.
Unshared(g) ==
  \A s \in OfGroup(g), o \in DOMAIN SeriesOf : s # o => SeriesOf[s].key # SeriesOf[o].key

PointsAt(g, t) == {p \in UNION {get_metric_points(s) : s \in OfGroup(g)} : p.t = t}

\* Both inserts of every flush that has begun are done.
Flushed ==
  \A b \in DOMAIN MetricBatches :
    <<"metric_points", b>> \in inserts <=> <<"metric_series", b>> \in inserts

(* Where no two series share a sorting key, the catalog counts every       *)
(* series that was ever inserted whatever has been merged (list_metrics),  *)
(* and a chart (get_metric_group_points) agrees with the series opened one *)
(* by one (get_metric_points): once the flushes are complete no time is    *)
(* missing, an average is never outside the values it averages, a sum of   *)
(* values that are not negative is never too small, and it is exact where  *)
(* each series has one row left.                                           *)
MetricViewsAgree ==
  inserts # {} => \A g \in Groups : Unshared(g) =>
    /\ \A k \in Streams : list_metrics(g, k) = Cardinality(OfEntry(g, k) \intersect described)
    /\ Flushed => \A t \in 0 .. MaxTime :
         LET at    == PointsAt(g, t)
             shown == get_metric_group_points(g, t)
             sum   == SumFunction([p \in at |-> p.v])
         IN  at # {} =>
               /\ Joined(g, t) = at
               /\ IF \E s \in OfGroup(g) : SeriesOf[s].gauge
                  THEN /\ \E p \in at : p.v * shown.over <= shown.total
                       /\ \E p \in at : p.v * shown.over >= shown.total
                  ELSE (\A p \in at : p.v >= 0) => shown.total >= sum
               /\ (\A p \in at : Copies(p.series) = 1) =>
                    shown.total = sum /\ shown.over \in {1, Cardinality(at)}

(* The chart of a counter shows, at each time, the sum of its series'      *)
(* points at that time (get_metric_group_points).                          *)
GroupPointsAddUp ==
  Flushed => \A g \in Groups, t \in 0 .. MaxTime :
    (\A s \in OfGroup(g) : ~SeriesOf[s].gauge) =>
      get_metric_group_points(g, t).total = SumFunction([p \in PointsAt(g, t) |-> p.v])

(* What a counter's rates, its catalog entry and its charts show agree.    *)
MetricsAddUp == RatesAddUp /\ MetricViewsAgree

(* The invariant behind the metric views: every part holds series that     *)
(* were inserted, for every series that was inserted some part holds one   *)
(* with its sorting key, a point comes from a batch whose points were      *)
(* inserted, and the series of a batch that was inserted are described.    *)
MqInv ==
  /\ described \subseteq DOMAIN SeriesOf
  /\ parts \in Seq(SUBSET described)
  /\ \A s \in described : \E i \in DOMAIN parts : \E o \in parts[i] :
       SeriesOf[o].key = SeriesOf[s].key
  /\ IsFiniteSet(metricPoints)
  /\ \A p \in metricPoints :
       /\ p.batch \in DOMAIN MetricBatches /\ <<"metric_points", p.batch>> \in inserts
       /\ p.series \in MetricBatches[p.batch].series /\ p.v \in Int
  /\ \A b \in DOMAIN MetricBatches :
       <<"metric_series", b>> \in inserts => MetricBatches[b].series \subseteq described
============================================================================
