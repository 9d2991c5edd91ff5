------------------------ MODULE PrometheusConversion ------------------------
(***************************************************************************)
(* What the ingest gateway makes of a Prometheus remote-write request      *)
(* (prometheus_rw/convert.rs).  A time series is                           *)
(*   [base, suffix, le, job, override, instance, label, samples]:          *)
(* its name in two parts, the labels that are treated apart, one that      *)
(* stands for all others, and its samples by timestamp.  "" is a label     *)
(* that is missing; le is a number or Inf, which also stands for one that  *)
(* cannot be parsed.                                                       *)
(***************************************************************************)
EXTENDS Integers, Sequences, FiniteSets, SequencesExt, FiniteSetsExt

CONSTANT Inf  \* the bound of the last bucket: a number above all others

HistogramSuffixes == {"_bucket", "_count", "_sum"}

(* A request is finite; the count of a bucket is taken as an unsigned integer. *)
AreTimeSeries(request) ==
    /\ IsFiniteSet(request)
    /\ \A ts \in request : ts.suffix = "_bucket" =>
          ts.le \in Int /\ ts.le <= Inf /\ \A t \in DOMAIN ts.samples : ts.samples[t] \in Nat

build_series(ts, name, type) ==
    [name |-> name, type |-> type,
     monotonic |-> type = "sum",
     temporality |-> IF type \in {"sum", "histogram"} THEN "cumulative" ELSE "none",
     attributes |-> {ts.label} \ {""},
     host |-> ts.instance,
     service_name |-> CASE ts.override # "" -> ts.override
                        [] ts.override = "" /\ ts.job # "" -> ts.job
                        [] OTHER -> "unknown",
     le |-> Inf]

(* The fallback puts le back, so that the buckets stay different series. *)
WithBound(series, le) == [series EXCEPT !.le = le]

Gauges(series, ts) ==
    {[series |-> series, time |-> t, value |-> ts.samples[t], bounds |-> <<>>, counts |-> <<>>] :
        t \in DOMAIN ts.samples}

convert_simple(ts) ==
    LET series == build_series(ts, <<ts.base, ts.suffix>>,
                               IF ts.suffix = "_total" THEN "sum" ELSE "gauge")
    IN [series |-> {series}, points |-> Gauges(series, ts)]

Buckets(group) == {ts \in group : ts.suffix = "_bucket"}
BucketTimes(group) == UNION {DOMAIN ts.samples : ts \in Buckets(group)}
BucketsAt(group, t) == {ts \in Buckets(group) : t \in DOMAIN ts.samples}

(* Mutant: the cumulative counts are stored as they came. *)
IntervalCounts_MutCumulative(cumulative) == cumulative

(* Cumulative counts become the counts of each interval. *)
IntervalCounts(cumulative) ==
    [i \in DOMAIN cumulative |->
        LET prev == IF i = 1 THEN 0 ELSE cumulative[i - 1]
        IN IF cumulative[i] >= prev THEN cumulative[i] - prev ELSE 0]

(* The buckets by their bounds; the order of two with the same bound is that of the request,
   which a set does not tell. *)
SortedByBound(buckets) ==
    CHOOSE s \in Bijection(1 .. Cardinality(buckets), buckets) :
        \A i, j \in DOMAIN s : i < j => s[i].le <= s[j].le

(* A +Inf bucket counts but is no bound. *)
HistogramPoint(series, group, t) ==
    LET sorted == SortedByBound(BucketsAt(group, t))
        finite == SortedByBound({ts \in BucketsAt(group, t) : ts.le # Inf})
    IN [series |-> series, time |-> t, value |-> 0,
        bounds |-> [i \in DOMAIN finite |-> finite[i].le],
        counts |-> IntervalCounts([i \in DOMAIN sorted |-> sorted[i].samples[t]])]

(* Without any +Inf bucket each bucket becomes a gauge; _count and _sum are dropped then.
   Without any bucket at all the series is stored and has no point. *)
convert_histogram_group(base, group) ==
    LET has_inf == \E ts \in Buckets(group) : ts.le = Inf /\ ts.samples # <<>>
        one == CHOOSE ts \in group : TRUE
        series == build_series(one, <<base, "">>, "histogram")
        gauge(ts) == WithBound(build_series(ts, <<ts.base, ts.suffix>>, "gauge"), ts.le)
    IN IF ~has_inf /\ BucketTimes(group) # {}
       THEN [series |-> {gauge(ts) : ts \in Buckets(group)},
             points |-> UNION {Gauges(gauge(ts), ts) : ts \in Buckets(group)}]
       ELSE [series |-> {series},
             points |-> {HistogramPoint(series, group, t) : t \in BucketTimes(group)}]

(* series.len(): series that end up with one identity are counted each. *)
Submitted(group) ==
    IF (\E ts \in Buckets(group) : ts.le = Inf /\ ts.samples # <<>>) \/ BucketTimes(group) = {}
    THEN 1 ELSE Cardinality(Buckets(group))

SumOf(pairs) == MapThenSumSet(LAMBDA p : p[2], pairs)

(* The labels that a histogram's time series share. *)
GroupKey(ts) == <<ts.base, ts.job, ts.override, ts.instance, ts.label>>

write_request_to_metrics(request) ==
    LET simple == {ts \in request : ts.suffix \in {"", "_total"} /\ ts.base # ""}
        histogram == {ts \in request : ts.suffix \in HistogramSuffixes}
        groups == {{ts \in histogram : GroupKey(ts) = k} : k \in {GroupKey(ts) : ts \in histogram}}
        parts == {convert_simple(ts) : ts \in simple}
                 \union {convert_histogram_group((CHOOSE ts \in g : TRUE).base, g) : g \in groups}
    IN [series |-> UNION {p.series : p \in parts}, points |-> UNION {p.points : p \in parts},
        submitted |-> Cardinality(simple) + SumOf({<<g, Submitted(g)>> : g \in groups})]

(***************************************************************************)
(* What the stored points say about the samples.                           *)
(***************************************************************************)
Total(counts) == SumFunction(counts)

=============================================================================
