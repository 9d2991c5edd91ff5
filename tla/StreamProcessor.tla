--------------------------- MODULE StreamProcessor ---------------------------
(***************************************************************************)
(* services/stream-processor: the consumer group "stream-processor" reads  *)
(* telemetry.raw.v1, collects envelopes into batches, counts spans in the  *)
(* span-metrics aggregator, publishes each merged batch to                 *)
(* telemetry.normalized.v1 and only then commits the offsets it read.      *)
(*                                                                         *)
(* Every replica runs the select loop of QueueConsumer::run_batch; the     *)
(* loop is blocked while flush_with_retry runs, so the batch in flight is  *)
(* kept in buf until it is published.  Offsets count records: committed[p] *)
(* = n says that the first n records of p are done.                        *)
(***************************************************************************)
EXTENDS Telemetry, FiniteSets, Functions

CONSTANTS
    Replicas,        \* replicas of stream-processor
    RawPartitions,   \* partitions of telemetry.raw.v1
    NormPartitions,  \* partitions of telemetry.normalized.v1
    NoReplica,       \* owner of a partition that is not assigned
    Kinds,           \* the kinds of record that the producers send
    MaxSize,         \* run_batch's max_size
    MaxRecords,      \* bound: records per raw partition
    MaxFaults        \* bound: crashes, failed publishes, lost commits, rebalances

ASSUME StreamProcessorAssumption ==
    /\ NoReplica \notin Replicas /\ IsFiniteSet(Replicas)
    /\ Kinds \subseteq RecordKinds
    /\ MaxSize \in Nat \ {0}
    /\ MaxRecords \in Nat
    /\ MaxFaults \in Nat

VARIABLES
    raw,         \* [RawPartitions -> Seq(Kinds)], the ingest topic
    owner,       \* group assignment of each raw partition
    committed,   \* offset committed by the group, per raw partition
    pc,          \* "down", or where a replica is in run_batch
    pos,         \* fetch position of a replica in each partition
    buf,         \* envelopes collected for the next (or current) batch
    watermark,   \* highest offset seen since the last commit, 0 if none
    inflight,    \* asynchronous commit requests not yet at the broker
    agg,         \* span calls recorded in the current window
    normalized,  \* [NormPartitions -> Seq(message)], the output topic
    flushes,     \* span-metrics flushes so far (the clock of their points)
    emitted,     \* history: span calls delivered in span-metrics messages
    lost,        \* history: span calls drained or crashed away, not delivered
    faults       \* faults so far

groupVars  == <<owner, committed, inflight>>
loopVars   == <<pc, pos, buf, watermark>>
metricVars == <<agg, flushes, emitted, lost>>
spVars == <<raw, owner, committed, pc, pos, buf, watermark, inflight,
            agg, normalized, flushes, emitted, lost, faults>>

NoOffsets == [p \in RawPartitions |-> 0]
Steps     == {"down", "poll", "record", "publish", "commit"}
RawEnvelopes ==
    [part : RawPartitions, off : Nat, kind : {k \in RecordKinds : Deserialises(k)}]
Messages  == [envs : Seq(RawEnvelopes), calls : Nat, stamp : Nat]

Init ==
    /\ raw = [p \in RawPartitions |-> <<>>]
    /\ owner = [p \in RawPartitions |-> NoReplica]
    /\ committed = NoOffsets
    /\ pc = [r \in Replicas |-> "poll"]
    /\ pos = [r \in Replicas |-> NoOffsets]
    /\ buf = [r \in Replicas |-> <<>>]
    /\ watermark = [r \in Replicas |-> NoOffsets]
    /\ inflight = [r \in Replicas |-> <<>>]
    /\ agg = [r \in Replicas |-> 0]
    /\ normalized = [n \in NormPartitions |-> <<>>]
    /\ flushes = 0
    /\ emitted = 0
    /\ lost = 0
    /\ faults = 0

Fault == faults < MaxFaults /\ faults' = faults + 1

-----------------------------------------------------------------------------
(***************************************************************************)
(* The environment: producers append to the raw topic, the broker assigns  *)
(* partitions to live members.  An assignment makes the member fetch from  *)
(* the committed offset again, also when the partition was its own before, *)
(* whatever it still holds in buf and watermark.                           *)
(***************************************************************************)
Produce(p, k) ==
    /\ Len(raw[p]) < MaxRecords
    /\ raw' = [raw EXCEPT ![p] = Append(@, k)]
    /\ UNCHANGED <<groupVars, loopVars, metricVars, normalized, faults>>

(* Mutant: a new member starts at the end of the partition.                *)
StartFetchingLatest(r, p) ==
    /\ pc[r] # "down"
    /\ owner' = [owner EXCEPT ![p] = r]
    /\ pos' = [pos EXCEPT ![r][p] = Len(raw[p])]
    /\ UNCHANGED <<raw, committed, inflight, pc, buf, watermark, metricVars, normalized>>

StartFetching(r, p) ==
    /\ pc[r] # "down"
    /\ owner' = [owner EXCEPT ![p] = r]
    /\ pos' = [pos EXCEPT ![r][p] = committed[p]]
    /\ UNCHANGED <<raw, committed, inflight, pc, buf, watermark, metricVars, normalized>>

Assign(r, p) ==
    /\ owner[p] = NoReplica
    /\ StartFetching(r, p)
    /\ UNCHANGED faults

Rebalance(r, p) ==
    /\ owner[p] # NoReplica
    /\ StartFetching(r, p)
    /\ Fault

(* Mutant: the payload that does not deserialise is buffered all the same. *)
ReceiveKeepsGarbage(r, p) ==
    /\ pc[r] = "poll" /\ owner[p] = r /\ pos[r][p] < Len(raw[p])
    /\ LET o == pos[r][p] + 1
           k == raw[p][o]
           b == Append(buf[r], Envelope(p, o, k))
       IN  /\ pos' = [pos EXCEPT ![r][p] = o]
           /\ watermark' = [watermark EXCEPT ![r][p] = o]
           /\ buf' = [buf EXCEPT ![r] = b]
           /\ pc' = [pc EXCEPT ![r] = IF Len(b) >= MaxSize THEN "record" ELSE "poll"]
    /\ UNCHANGED <<raw, groupVars, metricVars, normalized, faults>>

(* Mutant: a full batch is committed before it is flushed.                 *)
ReceiveCommitsFirst(r, p) ==
    /\ pc[r] = "poll" /\ owner[p] = r /\ pos[r][p] < Len(raw[p])
    /\ LET o == pos[r][p] + 1
           b == Append(buf[r], Envelope(p, o, raw[p][o]))
           w == [watermark[r] EXCEPT ![p] = o]
       IN  /\ pos' = [pos EXCEPT ![r][p] = o]
           /\ buf' = [buf EXCEPT ![r] = b]
           /\ IF Len(b) < MaxSize
              THEN pc' = pc /\ watermark' = [watermark EXCEPT ![r] = w] /\ UNCHANGED inflight
              ELSE /\ pc' = [pc EXCEPT ![r] = "record"]
                   /\ watermark' = [watermark EXCEPT ![r] = NoOffsets]
                   /\ inflight' = [inflight EXCEPT ![r] = Append(@, w)]
    /\ UNCHANGED <<raw, owner, committed, metricVars, normalized, faults>>

-----------------------------------------------------------------------------
(***************************************************************************)
(* The receive branch of run_batch.  The watermark advances for every      *)
(* record, also one that does not deserialise; a full buffer is flushed    *)
(* before anything else is received.                                       *)
(***************************************************************************)
Receive(r, p) ==
    /\ pc[r] = "poll"
    /\ owner[p] = r
    /\ pos[r][p] < Len(raw[p])
    /\ LET o == pos[r][p] + 1
           k == raw[p][o]
           b == IF Deserialises(k) THEN Append(buf[r], Envelope(p, o, k)) ELSE buf[r]
       IN  /\ pos' = [pos EXCEPT ![r][p] = o]
           /\ watermark' = [watermark EXCEPT ![r][p] = o]
           /\ buf' = [buf EXCEPT ![r] = b]
           /\ pc' = [pc EXCEPT ![r] = IF Deserialises(k) /\ Len(b) >= MaxSize
                                      THEN "record" ELSE "poll"]
    /\ UNCHANGED <<raw, groupVars, metricVars, normalized, faults>>

(* commit: one asynchronous request with every offset of the watermark.    *)
CommitWatermark(r) ==
    /\ inflight' = [inflight EXCEPT ![r] =
                       IF watermark[r] = NoOffsets THEN @ ELSE Append(@, watermark[r])]
    /\ watermark' = [watermark EXCEPT ![r] = NoOffsets]

(* Mutant: the interval branch commits although the buffer is not empty.   *)
TickCommitsBuffered(r) ==
    /\ pc[r] = "poll" /\ watermark[r] # NoOffsets
    /\ CommitWatermark(r)
    /\ pc' = [pc EXCEPT ![r] = IF buf[r] # <<>> THEN "record" ELSE "poll"]
    /\ UNCHANGED <<raw, owner, committed, pos, buf, metricVars, normalized, faults>>

(* Mutant: only a full buffer is ever flushed.                             *)
TickFlushesFull(r) ==
    /\ pc[r] = "poll"
    /\ \/ /\ Len(buf[r]) >= MaxSize
          /\ pc' = [pc EXCEPT ![r] = "record"]
          /\ UNCHANGED <<inflight, watermark>>
       \/ /\ buf[r] = <<>> /\ watermark[r] # NoOffsets
          /\ CommitWatermark(r)
          /\ UNCHANGED pc
    /\ UNCHANGED <<raw, owner, committed, pos, buf, metricVars, normalized, faults>>

(* The interval branch: flush what is buffered, or only commit.            *)
Tick(r) ==
    /\ pc[r] = "poll"
    /\ \/ /\ buf[r] # <<>>
          /\ pc' = [pc EXCEPT ![r] = "record"]
          /\ UNCHANGED <<inflight, watermark>>
       \/ /\ buf[r] = <<>>
          /\ watermark[r] # NoOffsets
          /\ CommitWatermark(r)
          /\ UNCHANGED pc
    /\ UNCHANGED <<raw, owner, committed, pos, buf, metricVars, normalized, faults>>

-----------------------------------------------------------------------------
(***************************************************************************)
(* flush_with_retry and the batch handler.  Every attempt first records    *)
(* all spans of the batch in the aggregator, then merges and publishes.    *)
(***************************************************************************)
SpanCount(batch) == Cardinality({i \in DOMAIN batch : batch[i].kind = "spans"})

(* Mutant: a batch replaces the counts of the window.                      *)
RecordSpansReplaces(r) ==
    /\ pc[r] = "record"
    /\ agg' = [agg EXCEPT ![r] = SpanCount(buf[r])]
    /\ pc' = [pc EXCEPT ![r] = "publish"]
    /\ UNCHANGED <<raw, groupVars, pos, buf, watermark, flushes, emitted, lost,
                   normalized, faults>>

RecordSpans(r) ==
    /\ pc[r] = "record"
    /\ agg' = [agg EXCEPT ![r] = @ + SpanCount(buf[r])]
    /\ pc' = [pc EXCEPT ![r] = "publish"]
    /\ UNCHANGED <<raw, groupVars, pos, buf, watermark, flushes, emitted, lost,
                   normalized, faults>>

Deliver(n, m) == normalized' = [normalized EXCEPT ![n] = Append(@, m)]

(* The attempt succeeds: nothing to publish, or the broker confirmed.      *)
Publish(r) ==
    /\ pc[r] = "publish"
    /\ \/ ~HasRows(buf[r]) /\ UNCHANGED normalized
       \/ HasRows(buf[r]) /\ \E n \in NormPartitions : Deliver(n, NormalizedBatch(buf[r]))
    /\ buf' = [buf EXCEPT ![r] = <<>>]
    /\ pc' = [pc EXCEPT ![r] = "commit"]
    /\ UNCHANGED <<raw, groupVars, pos, watermark, metricVars, faults>>

(* Mutant: the batch is dropped when the producer reports an error.        *)
PublishGivesUp(r) ==
    /\ pc[r] = "publish" /\ HasRows(buf[r])
    /\ buf' = [buf EXCEPT ![r] = <<>>]
    /\ pc' = [pc EXCEPT ![r] = "commit"]
    /\ Fault
    /\ UNCHANGED <<raw, groupVars, pos, watermark, metricVars, normalized>>

(* The producer reports an error: the message may have been delivered all  *)
(* the same (a timeout).  The handler runs again on a clone of the batch.  *)
PublishFails(r) ==
    /\ pc[r] = "publish"
    /\ HasRows(buf[r])
    /\ \/ UNCHANGED normalized
       \/ \E n \in NormPartitions : Deliver(n, NormalizedBatch(buf[r]))
    /\ pc' = [pc EXCEPT ![r] = "record"]
    /\ Fault
    /\ UNCHANGED <<raw, groupVars, pos, buf, watermark, metricVars>>

Commit(r) ==
    /\ pc[r] = "commit"
    /\ CommitWatermark(r)
    /\ pc' = [pc EXCEPT ![r] = "poll"]
    /\ UNCHANGED <<raw, owner, committed, pos, buf, metricVars, normalized, faults>>

(***************************************************************************)
(* The broker handles a replica's commit requests in the order they were   *)
(* sent, possibly long after, or rejects or loses them.                    *)
(***************************************************************************)
CommitArrives(r) ==
    /\ inflight[r] # <<>>
    /\ committed' = [p \in RawPartitions |->
                        IF Head(inflight[r])[p] = 0 THEN committed[p]
                                                    ELSE Head(inflight[r])[p]]
    /\ inflight' = [inflight EXCEPT ![r] = Tail(@)]
    /\ UNCHANGED <<raw, owner, loopVars, metricVars, normalized, faults>>

CommitLost(r) ==
    /\ inflight[r] # <<>>
    /\ inflight' = [inflight EXCEPT ![r] = Tail(@)]
    /\ Fault
    /\ UNCHANGED <<raw, owner, committed, loopVars, metricVars, normalized>>

-----------------------------------------------------------------------------
(***************************************************************************)
(* The background task: drain the window, publish it once, only log an     *)
(* error.                                                                  *)
(***************************************************************************)
FlushSpanMetrics(r) ==
    /\ pc[r] # "down"
    /\ agg[r] > 0
    /\ \/ /\ \E n \in NormPartitions : Deliver(n, SpanMetricsBatch(agg[r], flushes + 1))
          /\ emitted' = emitted + agg[r]
          /\ UNCHANGED <<lost, faults>>
       \/ /\ Fault
          /\ lost' = lost + agg[r]
          /\ UNCHANGED <<normalized, emitted>>
    /\ agg' = [agg EXCEPT ![r] = 0]
    /\ flushes' = flushes + 1
    /\ UNCHANGED <<raw, groupVars, loopVars>>

-----------------------------------------------------------------------------
(***************************************************************************)
(* A replica dies: killed, or run_batch returned an error (a receive error *)
(* that is not retryable, a commit that could not be enqueued) and main    *)
(* exits.  All it held in memory is gone.                                  *)
(***************************************************************************)
Crash(r) ==
    /\ pc[r] # "down"
    /\ Fault
    /\ pc' = [pc EXCEPT ![r] = "down"]
    /\ buf' = [buf EXCEPT ![r] = <<>>]
    /\ watermark' = [watermark EXCEPT ![r] = NoOffsets]
    /\ owner' = [p \in RawPartitions |-> IF owner[p] = r THEN NoReplica ELSE owner[p]]
    /\ agg' = [agg EXCEPT ![r] = 0]
    /\ lost' = lost + agg[r]
    /\ UNCHANGED <<raw, committed, pos, inflight, normalized, flushes, emitted>>

Restart(r) ==
    /\ pc[r] = "down"
    /\ pc' = [pc EXCEPT ![r] = "poll"]
    /\ UNCHANGED <<raw, groupVars, pos, buf, watermark, metricVars, normalized, faults>>

-----------------------------------------------------------------------------
LoopStep(r) ==
    \/ \E p \in RawPartitions : Receive(r, p)
    \/ Tick(r)
    \/ RecordSpans(r)
    \/ Publish(r)
    \/ Commit(r)

ReplicaStep(r) ==
    \/ LoopStep(r)
    \/ PublishFails(r)
    \/ CommitArrives(r)
    \/ CommitLost(r)
    \/ FlushSpanMetrics(r)
    \/ Crash(r)
    \/ Restart(r)
    \/ \E p \in RawPartitions : Assign(r, p) \/ Rebalance(r, p)

Next ==
    \/ \E p \in RawPartitions, k \in Kinds : Produce(p, k)
    \/ \E r \in Replicas : ReplicaStep(r)

Spec == Init /\ [][Next]_spVars

(***************************************************************************)
(* The loop of a live replica keeps running, a dead pod is restarted by    *)
(* Kubernetes, the group coordinator assigns free partitions, and commit   *)
(* requests reach the broker.                                              *)
(***************************************************************************)
Fairness ==
    /\ \A r \in Replicas :
          /\ WF_spVars(\E p \in RawPartitions : Receive(r, p))
          /\ WF_spVars(Tick(r))
          /\ WF_spVars(RecordSpans(r))
          /\ WF_spVars(Publish(r))
          /\ WF_spVars(Commit(r))
          /\ WF_spVars(CommitArrives(r))
          /\ WF_spVars(Restart(r))
    /\ \A p \in RawPartitions : WF_spVars(\E r \in Replicas : Assign(r, p))

FairSpec == Spec /\ Fairness

-----------------------------------------------------------------------------
(***************************************************************************)
(* Properties.                                                             *)
(***************************************************************************)
InBatch(e, batch) == \E i \in DOMAIN batch : batch[i] = e

Published(e) ==
    \E n \in NormPartitions : \E i \in DOMAIN normalized[n] : InBatch(e, normalized[n][i].envs)

NeedsNoPublish == RecordKinds \ PayloadKinds

RawRecords == UNION {{p} \X (1..Len(raw[p])) : p \in RawPartitions}

PublishedRecords ==
    {x \in RawRecords : Published(Envelope(x[1], x[2], raw[x[1]][x[2]]))}

(* The variables of every replica, of the group and of the two topics hold *)
(* values of their types; in particular a record that does not deserialise *)
(* is in no buffer and in no message.                                      *)
TypeOK ==
    /\ raw \in [RawPartitions -> Seq(Kinds)]
    /\ owner \in [RawPartitions -> Replicas \union {NoReplica}]
    /\ committed \in [RawPartitions -> Nat]
    /\ pc \in [Replicas -> Steps]
    /\ pos \in [Replicas -> [RawPartitions -> Nat]]
    /\ buf \in [Replicas -> Seq(RawEnvelopes)]
    /\ watermark \in [Replicas -> [RawPartitions -> Nat]]
    /\ inflight \in [Replicas -> Seq([RawPartitions -> Nat])]
    /\ agg \in [Replicas -> Nat]
    /\ normalized \in [NormPartitions -> Seq(Messages)]
    /\ flushes \in Nat /\ emitted \in Nat /\ lost \in Nat /\ faults \in Nat

(* A record that needs nothing more from stream-processor.                 *)
Settled(p, o) ==
    o <= Len(raw[p]) /\ (raw[p][o] \in PayloadKinds => Published(Envelope(p, o, raw[p][o])))

(* A record that replica r has passed: settled, or still in r's buffer.    *)
Covered(r, p, o) ==
    Settled(p, o) \/ (o <= Len(raw[p]) /\ InBatch(Envelope(p, o, raw[p][o]), buf[r]))

(* No committed loss: every record below a committed offset that carries   *)
(* telemetry has been published to telemetry.normalized.v1, whatever       *)
(* crashes, rebalances, failed publishes and late or lost commits came     *)
(* before (run_batch commits only after flush_with_retry returned).        *)
CommittedImpliesPublished ==
    \A p \in RawPartitions : \A o \in 1..committed[p] : Settled(p, o)

PositionInv ==
    \A r \in Replicas, p \in RawPartitions :
        owner[p] = r => \A o \in 1..pos[r][p] : Covered(r, p, o)

WatermarkInv ==
    \A r \in Replicas, p \in RawPartitions : \A o \in 1..watermark[r][p] : Covered(r, p, o)

RequestInv ==
    \A r \in Replicas : \A i \in DOMAIN inflight[r] :
        \A p \in RawPartitions : \A o \in 1..inflight[r][i][p] : Settled(p, o)

LoopInv == \A r \in Replicas : pc[r] = "commit" => buf[r] = <<>>

(* The inductive strengthening of CommittedImpliesPublished: it follows a  *)
(* record from the fetch position, which a rebalance may set back, over    *)
(* the watermark to the commit requests of run_batch: none of them passes  *)
(* a record that is neither published nor in the replica's own buffer.     *)
DeliveryInv ==
    /\ PositionInv
    /\ WatermarkInv
    /\ RequestInv
    /\ LoopInv
    /\ CommittedImpliesPublished

SumOver(f) == FoldFunction(LAMBDA a, b : a + b, 0, f)

(* Every span that reached telemetry.normalized.v1 has been counted by the *)
(* span-metrics aggregator: its call is in a window still open, in a       *)
(* delivered span-metrics message, or in a window lost by a crash or a     *)
(* failed flush (the handler records spans before it publishes).           *)
SpanCallsAccounted ==
    Cardinality({x \in PublishedRecords : raw[x[1]][x[2]] = "spans"})
        <= emitted + lost + SumOver(agg)

(* Why it holds: the handler counts a batch before it publishes it, so the *)
(* spans counted include those of every batch that is being published.     *)
(* What is in a buffer or a message has been read from the raw topic.      *)
Genuine(e) == e.off \in DOMAIN raw[e.part] /\ raw[e.part][e.off] = e.kind

EnvelopesGenuine ==
    /\ \A r \in Replicas : \A i \in DOMAIN buf[r] : Genuine(buf[r][i])
    /\ \A n \in NormPartitions : \A i \in DOMAIN normalized[n] :
          \A j \in DOMAIN normalized[n][i].envs : Genuine(normalized[n][i].envs[j])

Recorded(e) == Published(e) \/ \E r \in Replicas : pc[r] = "publish" /\ InBatch(e, buf[r])

CountedSpans ==
    {x \in RawRecords : raw[x[1]][x[2]] = "spans" /\ Recorded(Envelope(x[1], x[2], "spans"))}

AccountInv ==
    /\ EnvelopesGenuine
    /\ IsFiniteSet(CountedSpans)
    /\ Cardinality(CountedSpans) <= emitted + lost + SumOver(agg)

(* The pipeline stage implements AtLeastOnce with publishing as effect.    *)
Delivery == INSTANCE AtLeastOnce WITH
                Partitions <- RawPartitions, Entries <- Kinds,
                Skippable <- NeedsNoPublish, log <- raw, done <- PublishedRecords

DeliverySpec == Delivery!Spec

(* Every record with telemetry is eventually published although replicas   *)
(* crash, publishes fail and partitions move, as long as this stops.       *)
EventuallyPublished ==
    \A p \in RawPartitions : \A o \in 1..MaxRecords :
        (o <= Len(raw[p]) /\ raw[p][o] \in PayloadKinds)
            ~> <<p, o>> \in PublishedRecords
==============================================================================
