------------------------ MODULE StreamProcessorProofs ------------------------
(***************************************************************************)
(* Theorems about StreamProcessor, for every set of replicas, partitions,  *)
(* batch size and bound.                                                   *)
(***************************************************************************)
EXTENDS StreamProcessor, SumTheorems

(* An envelope built from a record of the log that deserialises is one     *)
(* that a buffer may hold.                                                 *)
LEMMA EnvelopeType ==
    ASSUME TypeOK, NEW p \in RawPartitions, NEW o \in 1..Len(raw[p])
    PROVE  /\ raw[p][o] \in Kinds
           /\ Deserialises(raw[p][o]) => Envelope(p, o, raw[p][o]) \in RawEnvelopes
<1>1. raw[p] \in Seq(Kinds)
  BY DEF TypeOK
<1>2. raw[p][o] \in Kinds
  BY <1>1
<1>3. QED
  BY <1>2, StreamProcessorAssumption DEF Envelope, RawEnvelopes

(* commit leaves well-formed requests and an empty watermark.              *)
LEMMA CommitWatermarkType ==
    ASSUME TypeOK, NEW r \in Replicas, CommitWatermark(r)
    PROVE  /\ inflight' \in [Replicas -> Seq([RawPartitions -> Nat])]
           /\ watermark' \in [Replicas -> [RawPartitions -> Nat]]
  BY DEF CommitWatermark, TypeOK, NoOffsets

(* A message appended to the output topic leaves it a topic of messages.   *)
LEMMA DeliverType ==
    ASSUME TypeOK, NEW n \in NormPartitions, NEW m \in Messages, Deliver(n, m)
    PROVE  normalized' \in [NormPartitions -> Seq(Messages)]
  BY DEF Deliver, TypeOK

(* The number of spans of a batch is a natural number.                     *)
LEMMA SpanCountType ==
    ASSUME NEW b \in Seq(RawEnvelopes)
    PROVE  SpanCount(b) \in Nat
<1>1. DOMAIN b = 1..Len(b) /\ Len(b) \in Nat
  OBVIOUS
<1>2. IsFiniteSet(1..Len(b))
  BY <1>1, FS_Interval
<1>3. IsFiniteSet({i \in DOMAIN b : b[i].kind = "spans"})
  BY <1>1, <1>2, FS_Subset
<1>4. QED
  BY <1>3, FS_CardinalityType DEF SpanCount

(* TypeOK is inductive: one step per action.                               *)
LEMMA TypeStep ==
    ASSUME TypeOK, [Next]_spVars
    PROVE  TypeOK'
<1>1. ASSUME NEW p \in RawPartitions, NEW k \in Kinds, Produce(p, k) PROVE TypeOK'
  BY <1>1 DEF Produce, TypeOK, groupVars, loopVars, metricVars
<1>2. ASSUME NEW r \in Replicas, NEW p \in RawPartitions, Assign(r, p) PROVE TypeOK'
  <2>1. owner' \in [RawPartitions -> Replicas \union {NoReplica}]
    BY <1>2 DEF Assign, StartFetching, TypeOK
  <2>2. pos' \in [Replicas -> [RawPartitions -> Nat]]
    BY <1>2 DEF Assign, StartFetching, TypeOK
  <2>3. UNCHANGED <<raw, committed, inflight, pc, buf, watermark, metricVars, normalized, faults>>
    BY <1>2 DEF Assign, StartFetching
  <2>4. QED
    BY <2>1, <2>2, <2>3 DEF TypeOK, metricVars
<1>3. ASSUME NEW r \in Replicas, NEW p \in RawPartitions, Rebalance(r, p) PROVE TypeOK'
  <2>1. owner' \in [RawPartitions -> Replicas \union {NoReplica}] /\ faults' \in Nat
    BY <1>3 DEF Rebalance, StartFetching, Fault, TypeOK
  <2>2. pos' \in [Replicas -> [RawPartitions -> Nat]]
    BY <1>3 DEF Rebalance, StartFetching, TypeOK
  <2>3. UNCHANGED <<raw, committed, inflight, pc, buf, watermark, metricVars, normalized>>
    BY <1>3 DEF Rebalance, StartFetching
  <2>4. QED
    BY <2>1, <2>2, <2>3 DEF TypeOK, metricVars
<1>4. ASSUME NEW r \in Replicas, NEW p \in RawPartitions, Receive(r, p) PROVE TypeOK'
  <2> DEFINE o == pos[r][p] + 1
             e == Envelope(p, o, raw[p][o])
  <2>1. o \in 1..Len(raw[p])
    BY <1>4 DEF Receive, TypeOK
  <2>2. Deserialises(raw[p][o]) => e \in RawEnvelopes
    BY <2>1, EnvelopeType
  <2>3. /\ buf[r] \in Seq(RawEnvelopes)
        /\ Deserialises(raw[p][o]) => Append(buf[r], e) \in Seq(RawEnvelopes)
    BY <2>2 DEF TypeOK
  <2>4. buf' \in [Replicas -> Seq(RawEnvelopes)]
    BY <1>4, <2>3 DEF Receive, TypeOK
  <2>5. pos' \in [Replicas -> [RawPartitions -> Nat]] /\ watermark' \in [Replicas -> [RawPartitions -> Nat]]
    BY <1>4, <2>1 DEF Receive, TypeOK
  <2>6. pc' \in [Replicas -> Steps]
    BY <1>4 DEF Receive, TypeOK, Steps
  <2>7. UNCHANGED <<raw, groupVars, metricVars, normalized, faults>>
    BY <1>4 DEF Receive
  <2>8. QED
    BY <2>4, <2>5, <2>6, <2>7 DEF TypeOK, groupVars, metricVars
<1>5. ASSUME NEW r \in Replicas, Tick(r) PROVE TypeOK'
  <2>1. pc' \in [Replicas -> Steps]
    BY <1>5 DEF Tick, TypeOK, Steps
  <2>2. CASE CommitWatermark(r)
    BY <1>5, <2>1, <2>2, CommitWatermarkType DEF Tick, TypeOK, metricVars
  <2>3. CASE UNCHANGED <<inflight, watermark>>
    BY <1>5, <2>1, <2>3 DEF Tick, TypeOK, metricVars
  <2>4. QED
    BY <1>5, <2>2, <2>3 DEF Tick
<1>6. ASSUME NEW r \in Replicas, RecordSpans(r) PROVE TypeOK'
  <2>1. SpanCount(buf[r]) \in Nat
    BY SpanCountType DEF TypeOK
  <2>2. agg' \in [Replicas -> Nat]
    BY <1>6, <2>1 DEF RecordSpans, TypeOK
  <2>3. QED
    BY <1>6, <2>2 DEF RecordSpans, TypeOK, groupVars, Steps
<1>7. ASSUME NEW r \in Replicas, Publish(r) PROVE TypeOK'
  <2>1. NormalizedBatch(buf[r]) \in Messages
    BY DEF TypeOK, NormalizedBatch, Messages
  <2>2. normalized' \in [NormPartitions -> Seq(Messages)]
    BY <1>7, <2>1, DeliverType DEF Publish, TypeOK
  <2>3. QED
    BY <1>7, <2>2 DEF Publish, TypeOK, groupVars, metricVars, Steps
<1>8. ASSUME NEW r \in Replicas, PublishFails(r) PROVE TypeOK'
  <2>1. NormalizedBatch(buf[r]) \in Messages
    BY DEF TypeOK, NormalizedBatch, Messages
  <2>2. normalized' \in [NormPartitions -> Seq(Messages)]
    BY <1>8, <2>1, DeliverType DEF PublishFails, TypeOK
  <2>3. QED
    BY <1>8, <2>2 DEF PublishFails, Fault, TypeOK, groupVars, metricVars, Steps
<1>9. ASSUME NEW r \in Replicas, Commit(r) PROVE TypeOK'
  BY <1>9, CommitWatermarkType DEF Commit, TypeOK, metricVars, Steps
<1>10. ASSUME NEW r \in Replicas, CommitArrives(r) PROVE TypeOK'
  BY <1>10 DEF CommitArrives, TypeOK, metricVars, loopVars
<1>11. ASSUME NEW r \in Replicas, CommitLost(r) PROVE TypeOK'
  BY <1>11 DEF CommitLost, Fault, TypeOK, metricVars, loopVars
<1>12. ASSUME NEW r \in Replicas, FlushSpanMetrics(r) PROVE TypeOK'
  <2>1. SpanMetricsBatch(agg[r], flushes + 1) \in Messages
    BY DEF TypeOK, SpanMetricsBatch, Messages
  <2>2. normalized' \in [NormPartitions -> Seq(Messages)]
    BY <1>12, <2>1, DeliverType DEF FlushSpanMetrics, TypeOK
  <2>3. agg[r] \in Nat /\ agg' \in [Replicas -> Nat] /\ flushes' \in Nat
    BY <1>12 DEF FlushSpanMetrics, TypeOK
  <2>4. emitted' \in Nat /\ lost' \in Nat /\ faults' \in Nat
    BY <1>12, <2>3 DEF FlushSpanMetrics, Fault, TypeOK
  <2>5. UNCHANGED <<raw, groupVars, loopVars>>
    BY <1>12 DEF FlushSpanMetrics
  <2>6. QED
    BY <2>2, <2>3, <2>4, <2>5 DEF TypeOK, groupVars, loopVars
<1>13. ASSUME NEW r \in Replicas, Crash(r) PROVE TypeOK'
  BY <1>13 DEF Crash, Fault, TypeOK, NoOffsets, Steps
<1>14. ASSUME NEW r \in Replicas, Restart(r) PROVE TypeOK'
  BY <1>14 DEF Restart, TypeOK, groupVars, metricVars, Steps
<1>15. ASSUME UNCHANGED spVars PROVE TypeOK'
  BY <1>15 DEF TypeOK, spVars
<1>16. QED
  BY <1>1, <1>2, <1>3, <1>4, <1>5, <1>6, <1>7, <1>8, <1>9, <1>10, <1>11, <1>12,
     <1>13, <1>14, <1>15 DEF Next, ReplicaStep, LoopStep

(* Every value that the variables take has its type.                       *)
THEOREM TypeCorrect == Spec => []TypeOK
<1>1. Init => TypeOK
  BY StreamProcessorAssumption DEF Init, TypeOK, NoOffsets, Steps
<1>2. TypeOK /\ [Next]_spVars => TypeOK'
  BY TypeStep
<1>3. QED
  BY <1>1, <1>2, PTL DEF Spec

-----------------------------------------------------------------------------
(* No step takes a record out of the raw topic or a message out of the     *)
(* normalized topic.                                                       *)
LEMMA TopicsGrow ==
    ASSUME [Next]_spVars
    PROVE  /\ raw' = raw \/ \E p \in RawPartitions, k \in Kinds : raw' = [raw EXCEPT ![p] = Append(@, k)]
           /\ normalized' = normalized \/ \E n \in NormPartitions : \E m : Deliver(n, m)
  BY DEF Next, ReplicaStep, LoopStep, spVars, Produce, StartFetching, Assign, Rebalance, Receive,
         Tick, RecordSpans, Publish, PublishFails, Commit, CommitArrives, CommitLost,
         FlushSpanMetrics, Crash, Restart

(* A record of the raw topic keeps its place and its kind.                 *)
LEMMA RawStable ==
    ASSUME TypeOK, [Next]_spVars, NEW p \in RawPartitions, NEW o \in Nat \ {0}, o <= Len(raw[p])
    PROVE  o <= Len(raw'[p]) /\ raw'[p][o] = raw[p][o]
<1>1. CASE raw' = raw
  BY <1>1
<1>2. ASSUME NEW q \in RawPartitions, NEW k \in Kinds, raw' = [raw EXCEPT ![q] = Append(@, k)]
      PROVE  o <= Len(raw'[p]) /\ raw'[p][o] = raw[p][o]
  BY <1>2 DEF TypeOK
<1>3. QED
  BY <1>1, <1>2, TopicsGrow

(* What has been published stays published.                                *)
LEMMA PublishedStable ==
    ASSUME TypeOK, [Next]_spVars, NEW e, Published(e)
    PROVE  Published(e)'
<1>1. CASE normalized' = normalized
  BY <1>1 DEF Published
<1>2. ASSUME NEW n \in NormPartitions, NEW m, Deliver(n, m)
      PROVE  Published(e)'
  <2>1. PICK q \in NormPartitions : \E i \in DOMAIN normalized[q] : InBatch(e, normalized[q][i].envs)
    BY DEF Published
  <2>2. PICK i \in DOMAIN normalized[q] : InBatch(e, normalized[q][i].envs)
    BY <2>1
  <2>3. normalized[q] \in Seq(Messages) /\ normalized[n] \in Seq(Messages)
    BY DEF TypeOK
  <2>4. i \in DOMAIN normalized'[q] /\ normalized'[q][i] = normalized[q][i]
    BY <1>2, <2>3 DEF Deliver, TypeOK
  <2>5. QED
    BY <2>2, <2>4 DEF Published, InBatch
<1>3. QED
  BY <1>1, <1>2, TopicsGrow

(* A settled record stays settled.                                         *)
LEMMA SettledStable ==
    ASSUME TypeOK, [Next]_spVars, NEW p \in RawPartitions, NEW o \in Nat \ {0}, Settled(p, o)
    PROVE  Settled(p, o)'
  BY RawStable, PublishedStable DEF Settled

(* A record stays covered by a replica as long as the replica drops no     *)
(* envelope that it has not published.                                     *)
LEMMA CoveredStable ==
    ASSUME TypeOK, [Next]_spVars, NEW r \in Replicas, NEW p \in RawPartitions,
           NEW o \in Nat \ {0}, Covered(r, p, o),
           \A e : InBatch(e, buf[r]) => InBatch(e, buf'[r]) \/ Published(e)'
                                        \/ e.kind \notin PayloadKinds
    PROVE  Covered(r, p, o)'
<1>1. CASE Settled(p, o)
  BY <1>1, SettledStable DEF Covered
<1>2. CASE o <= Len(raw[p]) /\ InBatch(Envelope(p, o, raw[p][o]), buf[r])
  <2>1. o <= Len(raw'[p]) /\ raw'[p][o] = raw[p][o]
    BY <1>2, RawStable
  <2>2. Envelope(p, o, raw[p][o]).kind = raw[p][o]
    BY DEF Envelope
  <2>3. QED
    BY <1>2, <2>1, <2>2 DEF Covered, Settled
<1>3. QED
  BY <1>1, <1>2 DEF Covered

(* A replica that does not crash drops only envelopes that it publishes in *)
(* the same step, or that have no rows.                                    *)
LEMMA BufferKept ==
    ASSUME TypeOK, [Next]_spVars, NEW r \in Replicas, ~Crash(r)
    PROVE  \A e : InBatch(e, buf[r]) => InBatch(e, buf'[r]) \/ Published(e)'
                                        \/ e.kind \notin PayloadKinds
<1> DEFINE Kept == \A e : InBatch(e, buf[r]) => InBatch(e, buf'[r]) \/ Published(e)'
                                                \/ e.kind \notin PayloadKinds
<1>1. buf[r] \in Seq(RawEnvelopes)
  BY DEF TypeOK
<1>2. CASE buf'[r] = buf[r]
  BY <1>2
<1>3. ASSUME NEW p \in RawPartitions, Receive(r, p) PROVE Kept
  <2>1. PICK e : buf'[r] = buf[r] \/ buf'[r] = Append(buf[r], e)
    BY <1>3 DEF Receive, TypeOK
  <2>2. CASE buf'[r] = Append(buf[r], e)
    <3>1. \A i \in DOMAIN buf[r] : i \in DOMAIN buf'[r] /\ buf'[r][i] = buf[r][i]
      BY <1>1, <2>2
    <3>2. QED
      BY <3>1 DEF InBatch
  <2>3. QED
    BY <1>2, <2>1, <2>2
<1>4. ASSUME Publish(r) PROVE Kept
  <2>1. CASE ~HasRows(buf[r])
    BY <2>1 DEF HasRows, InBatch
  <2>2. ASSUME NEW n \in NormPartitions, Deliver(n, NormalizedBatch(buf[r])) PROVE Kept
    <3> DEFINE i == Len(normalized[n]) + 1
    <3>1. normalized[n] \in Seq(Messages)
      BY DEF TypeOK
    <3>2. normalized'[n] = Append(normalized[n], NormalizedBatch(buf[r]))
      BY <2>2 DEF Deliver, TypeOK
    <3>3. i \in DOMAIN normalized'[n] /\ normalized'[n][i].envs = buf[r]
      BY <3>1, <3>2 DEF NormalizedBatch
    <3>4. QED
      BY <3>3 DEF Published, InBatch
  <2>3. QED
    BY <1>4, <2>1, <2>2 DEF Publish
<1>5. ASSUME NEW q \in Replicas, q # r, ReplicaStep(q) PROVE buf'[r] = buf[r]
  BY <1>5 DEF TypeOK, ReplicaStep, LoopStep, Receive, Tick, RecordSpans, Publish, PublishFails,
         Commit, CommitArrives, CommitLost, FlushSpanMetrics, Crash, Restart, Assign, Rebalance,
         StartFetching, loopVars
<1>6. ASSUME ReplicaStep(r) PROVE Kept
  BY <1>2, <1>3, <1>4, <1>6 DEF ReplicaStep, LoopStep, Tick, RecordSpans, PublishFails,
         Commit, CommitArrives, CommitLost, FlushSpanMetrics, Restart, Assign, Rebalance,
         StartFetching, loopVars
<1>7. CASE UNCHANGED spVars \/ \E p \in RawPartitions, k \in Kinds : Produce(p, k)
  BY <1>2, <1>7 DEF spVars, Produce, loopVars
<1>8. QED
  BY <1>2, <1>5, <1>6, <1>7 DEF Next

(* The record that a replica has just received is in its buffer, or needs  *)
(* no publish.                                                             *)
LEMMA ReceivedCovered ==
    ASSUME TypeOK, NEW r \in Replicas, NEW p \in RawPartitions, Receive(r, p),
           NEW o \in Nat, o = pos[r][p] + 1
    PROVE  Covered(r, p, o)'
<1> DEFINE e == Envelope(p, o, raw[p][o])
<1>1. o \in 1..Len(raw[p]) /\ raw' = raw
  BY DEF Receive, TypeOK
<1>2. raw[p][o] \in RecordKinds
  BY <1>1, EnvelopeType, StreamProcessorAssumption
<1>3. CASE raw[p][o] = "garbage"
  BY <1>1, <1>3 DEF Covered, Settled, PayloadKinds
<1>4. CASE raw[p][o] # "garbage"
  <2>1. buf'[r] = Append(buf[r], e) /\ buf[r] \in Seq(RawEnvelopes)
    BY <1>4 DEF Receive, TypeOK, Deserialises
  <2>2. Len(buf[r]) + 1 \in DOMAIN buf'[r] /\ buf'[r][Len(buf[r]) + 1] = e
    BY <2>1
  <2>3. InBatch(e, buf'[r])
    BY <2>2 DEF InBatch
  <2>4. QED
    BY <1>1, <2>3 DEF Covered
<1>5. QED
  BY <1>3, <1>4

(* A commit is requested with an empty buffer, so it only covers settled   *)
(* records.                                                                *)
LEMMA RequestSettled ==
    ASSUME TypeOK, DeliveryInv, NEW r \in Replicas, buf[r] = <<>>,
           NEW p \in RawPartitions, NEW o \in 1..watermark[r][p]
    PROVE  Settled(p, o)
  BY DEF DeliveryInv, WatermarkInv, Covered, InBatch

(* Where the fetch position of an owner comes from: a new assignment, a    *)
(* received record, or no change.                                          *)
LEMMA PositionKept ==
    ASSUME TypeOK, [Next]_spVars, NEW r \in Replicas, NEW p \in RawPartitions, owner'[p] = r,
           ~Assign(r, p), ~Rebalance(r, p), ~Receive(r, p)
    PROVE  owner[p] = r /\ pos'[r][p] = pos[r][p]
<1> DEFINE Kept == owner[p] = r /\ pos'[r][p] = pos[r][p]
<1>1. CASE UNCHANGED <<owner, pos>>
  BY <1>1
<1>2. ASSUME NEW q \in Replicas, NEW x \in RawPartitions, Receive(q, x) PROVE Kept
  <2>1. owner' = owner /\ pos' = [pos EXCEPT ![q][x] = pos[q][x] + 1]
    BY <1>2 DEF Receive, groupVars
  <2>2. q # r \/ x # p
    BY <1>2
  <2>3. QED
    BY <2>1, <2>2 DEF TypeOK
<1>3. ASSUME NEW q \in Replicas, NEW x \in RawPartitions, Assign(q, x) \/ Rebalance(q, x)
      PROVE  Kept
  <2>1. owner' = [owner EXCEPT ![x] = q] /\ pos' = [pos EXCEPT ![q][x] = committed[x]]
    BY <1>3 DEF Assign, Rebalance, StartFetching
  <2>2. x # p
    BY <1>3, <2>1 DEF TypeOK
  <2>3. QED
    BY <2>1, <2>2 DEF TypeOK
<1>4. ASSUME NEW q \in Replicas, Crash(q) PROVE Kept
  BY <1>4, StreamProcessorAssumption DEF Crash, TypeOK
<1>5. ASSUME NEW q \in Replicas, ReplicaStep(q) PROVE Kept
  BY <1>1, <1>2, <1>3, <1>4, <1>5 DEF ReplicaStep, LoopStep, Tick, RecordSpans, Publish,
         PublishFails, Commit, CommitArrives, CommitLost, FlushSpanMetrics, Restart,
         loopVars, groupVars
<1>6. CASE UNCHANGED spVars \/ \E x \in RawPartitions, k \in Kinds : Produce(x, k)
  BY <1>1, <1>6 DEF spVars, Produce, loopVars, groupVars
<1>7. QED
  BY <1>5, <1>6 DEF Next

(* A watermark only moves when a record is received; a commit and a crash  *)
(* clear it.                                                               *)
LEMMA WatermarkKept ==
    ASSUME TypeOK, [Next]_spVars, NEW r \in Replicas, NEW p \in RawPartitions, ~Receive(r, p)
    PROVE  watermark'[r][p] = 0 \/ (watermark'[r][p] = watermark[r][p] /\ ~Crash(r))
<1> DEFINE Kept == watermark'[r][p] = 0 \/ (watermark'[r][p] = watermark[r][p] /\ ~Crash(r))
<1>1. ASSUME NEW q \in Replicas, watermark' = [watermark EXCEPT ![q] = NoOffsets], Crash(r) => q = r
      PROVE  Kept
  BY <1>1 DEF NoOffsets, TypeOK
<1>2. CASE watermark' = watermark
  <2>1. ASSUME Crash(r) PROVE watermark'[r][p] = 0
    BY <2>1 DEF Crash, NoOffsets, TypeOK
  <2>2. QED
    BY <1>2, <2>1
<1>3. ASSUME NEW q \in Replicas, NEW x \in RawPartitions, Receive(q, x) PROVE Kept
  <2>1. watermark' = [watermark EXCEPT ![q][x] = pos[q][x] + 1]
    BY <1>3 DEF Receive
  <2>2. q # r \/ x # p
    BY <1>3
  <2>3. ~Crash(r)
    BY <1>3 DEF Receive, Crash, Fault, TypeOK
  <2>4. QED
    BY <2>1, <2>2, <2>3 DEF TypeOK
<1>4. ASSUME NEW q \in Replicas, CommitWatermark(q), faults' = faults PROVE Kept
  BY <1>1, <1>4 DEF CommitWatermark, Crash, Fault, TypeOK
<1>5. ASSUME NEW q \in Replicas, Crash(q) PROVE Kept
  <2>1. watermark' = [watermark EXCEPT ![q] = NoOffsets]
    BY <1>5 DEF Crash
  <2>2. Crash(r) => q = r
    BY <1>5 DEF Crash, TypeOK
  <2>3. QED
    BY <1>1, <2>1, <2>2
<1>6. ASSUME NEW q \in Replicas, ReplicaStep(q) PROVE Kept
  BY <1>2, <1>3, <1>4, <1>5, <1>6 DEF ReplicaStep, LoopStep, Tick, RecordSpans, Publish,
         PublishFails, Commit, CommitArrives, CommitLost, FlushSpanMetrics, Restart,
         Assign, Rebalance, StartFetching, loopVars
<1>7. CASE UNCHANGED spVars \/ \E x \in RawPartitions, k \in Kinds : Produce(x, k)
  BY <1>2, <1>7 DEF spVars, Produce, loopVars
<1>8. QED
  BY <1>6, <1>7 DEF Next

(* A commit request holds the watermark of a replica with an empty buffer. *)
LEMMA RequestKept ==
    ASSUME TypeOK, LoopInv, [Next]_spVars, NEW r \in Replicas
    PROVE  \/ inflight'[r] = inflight[r]
           \/ inflight[r] # <<>> /\ inflight'[r] = Tail(inflight[r])
           \/ buf[r] = <<>> /\ inflight'[r] = Append(inflight[r], watermark[r])
<1> DEFINE Kept == \/ inflight'[r] = inflight[r]
                   \/ inflight[r] # <<>> /\ inflight'[r] = Tail(inflight[r])
                   \/ buf[r] = <<>> /\ inflight'[r] = Append(inflight[r], watermark[r])
<1>1. CASE inflight' = inflight
  BY <1>1
<1>2. ASSUME NEW q \in Replicas, CommitWatermark(q), buf[q] = <<>> PROVE Kept
  BY <1>2 DEF CommitWatermark, TypeOK
<1>3. ASSUME NEW q \in Replicas, inflight[q] # <<>>,
             inflight' = [inflight EXCEPT ![q] = Tail(inflight[q])]
      PROVE  Kept
  BY <1>3 DEF TypeOK
<1>4. ASSUME NEW q \in Replicas, ReplicaStep(q) PROVE Kept
  BY <1>1, <1>2, <1>3, <1>4 DEF ReplicaStep, LoopStep, Receive, Tick, RecordSpans, Publish,
         PublishFails, Commit, CommitArrives, CommitLost, FlushSpanMetrics, Crash, Restart,
         Assign, Rebalance, StartFetching, groupVars, LoopInv
<1>5. CASE UNCHANGED spVars \/ \E x \in RawPartitions, k \in Kinds : Produce(x, k)
  BY <1>1, <1>5 DEF spVars, Produce, groupVars
<1>6. QED
  BY <1>4, <1>5 DEF Next

(* The committed offsets only change to those of a pending request.        *)
LEMMA CommittedKept ==
    ASSUME TypeOK, [Next]_spVars, NEW p \in RawPartitions
    PROVE  \/ committed'[p] = committed[p]
           \/ \E r \in Replicas : inflight[r] # <<>> /\ committed'[p] = inflight[r][1][p]
<1>1. ASSUME NEW r \in Replicas, CommitArrives(r)
      PROVE  \/ committed'[p] = committed[p]
             \/ inflight[r] # <<>> /\ committed'[p] = inflight[r][1][p]
  <2>1. Head(inflight[r]) = inflight[r][1]
    BY <1>1 DEF CommitArrives, TypeOK
  <2>2. committed' = [x \in RawPartitions |-> IF inflight[r][1][x] = 0 THEN committed[x]
                                                                     ELSE inflight[r][1][x]]
    BY <1>1, <2>1 DEF CommitArrives
  <2>3. inflight[r] # <<>>
    BY <1>1 DEF CommitArrives
  <2>4. QED
    BY <2>2, <2>3
<1>2. CASE committed' = committed
  BY <1>2
<1>3. QED
  BY <1>1, <1>2 DEF Next, ReplicaStep, LoopStep, spVars, Produce, StartFetching, Assign, Rebalance,
         Receive, Tick, RecordSpans, Publish, PublishFails, Commit, CommitLost,
         FlushSpanMetrics, Crash, Restart, groupVars

(* Only the end of a publish leads to "commit", and it empties the buffer. *)
LEMMA LoopKept ==
    ASSUME TypeOK, LoopInv, [Next]_spVars
    PROVE  LoopInv'
<1>1. CASE UNCHANGED <<pc, buf>>
  BY <1>1 DEF LoopInv
<1>2. ASSUME NEW q \in Replicas,
             \A r \in Replicas \ {q} : pc'[r] = pc[r] /\ buf'[r] = buf[r],
             pc'[q] = "commit" => buf'[q] = <<>>
      PROVE  LoopInv'
  BY <1>2 DEF LoopInv
<1>3. ASSUME NEW q \in Replicas, LoopStep(q) PROVE LoopInv'
  BY <1>2, <1>3 DEF LoopStep, Receive, Tick, RecordSpans, Publish, Commit, TypeOK
<1>4. ASSUME NEW q \in Replicas, PublishFails(q) \/ Crash(q) \/ Restart(q) PROVE LoopInv'
  BY <1>2, <1>4 DEF PublishFails, Crash, Restart, TypeOK
<1>5. ASSUME NEW q \in Replicas, ReplicaStep(q) PROVE LoopInv'
  BY <1>1, <1>3, <1>4, <1>5 DEF ReplicaStep, CommitArrives, CommitLost, FlushSpanMetrics,
         Assign, Rebalance, StartFetching, loopVars
<1>6. CASE UNCHANGED spVars \/ \E x \in RawPartitions, k \in Kinds : Produce(x, k)
  BY <1>1, <1>6 DEF spVars, Produce, loopVars
<1>7. QED
  BY <1>5, <1>6 DEF Next

(* DeliveryInv is inductive: one step per conjunct, from the lemmas on how *)
(* a step may move a position, a watermark, a request and an offset.       *)
LEMMA DeliveryInductive ==
    ASSUME TypeOK, DeliveryInv, [Next]_spVars
    PROVE  DeliveryInv'
<1> USE DEF DeliveryInv
<1>1. ASSUME NEW r \in Replicas, ~Crash(r), NEW p \in RawPartitions, NEW o \in Nat \ {0},
             Covered(r, p, o)
      PROVE  Covered(r, p, o)'
  BY <1>1, BufferKept, CoveredStable
<1>2. TypeOK'
  BY TypeStep
<1>3. PositionInv'
  <2> SUFFICES ASSUME NEW r \in Replicas, NEW p \in RawPartitions, owner'[p] = r,
                      NEW o \in 1..pos'[r][p]
               PROVE  Covered(r, p, o)'
    BY DEF PositionInv
  <2>1. o \in Nat \ {0}
    BY <1>2 DEF TypeOK
  <2>2. ~Crash(r)
    BY StreamProcessorAssumption DEF Crash, TypeOK
  <2>3. CASE Assign(r, p) \/ Rebalance(r, p)
    <3>1. pos'[r][p] = committed[p]
      BY <2>3 DEF Assign, Rebalance, StartFetching, TypeOK
    <3>2. Settled(p, o)
      BY <3>1 DEF CommittedImpliesPublished
    <3>3. QED
      BY <2>1, <3>2, SettledStable DEF Covered
  <2>4. CASE Receive(r, p)
    <3>1. pos'[r][p] = pos[r][p] + 1 /\ owner[p] = r /\ pos[r][p] \in Nat
      BY <2>4 DEF Receive, TypeOK
    <3>2. CASE o = pos[r][p] + 1
      BY <2>4, <3>1, <3>2, ReceivedCovered
    <3>3. CASE o \in 1..pos[r][p]
      BY <1>1, <2>1, <2>2, <3>1, <3>3 DEF PositionInv
    <3>4. QED
      BY <3>1, <3>2, <3>3
  <2>5. CASE ~Receive(r, p) /\ ~Assign(r, p) /\ ~Rebalance(r, p)
    <3>1. owner[p] = r /\ pos'[r][p] = pos[r][p]
      BY <2>5, PositionKept
    <3>2. QED
      BY <1>1, <2>1, <2>2, <3>1 DEF PositionInv
  <2>6. QED
    BY <2>3, <2>4, <2>5
<1>4. WatermarkInv'
  <2> SUFFICES ASSUME NEW r \in Replicas, NEW p \in RawPartitions, NEW o \in 1..watermark'[r][p]
               PROVE  Covered(r, p, o)'
    BY DEF WatermarkInv
  <2>1. o \in Nat \ {0}
    BY <1>2 DEF TypeOK
  <2>2. CASE Receive(r, p)
    <3>1. watermark'[r][p] = pos[r][p] + 1 /\ owner[p] = r /\ pos[r][p] \in Nat
      BY <2>2 DEF Receive, TypeOK
    <3>2. CASE o = pos[r][p] + 1
      BY <2>2, <3>1, <3>2, ReceivedCovered
    <3>3. CASE o \in 1..pos[r][p]
      <4>1. ~Crash(r)
        BY <2>2 DEF Receive, Crash, Fault, TypeOK
      <4>2. QED
        BY <1>1, <2>1, <3>1, <3>3, <4>1 DEF PositionInv
    <3>4. QED
      BY <3>1, <3>2, <3>3
  <2>3. CASE ~Receive(r, p)
    <3>1. watermark'[r][p] = watermark[r][p] /\ ~Crash(r)
      BY <2>1, <2>3, WatermarkKept
    <3>2. QED
      BY <1>1, <2>1, <3>1 DEF WatermarkInv
  <2>4. QED
    BY <2>2, <2>3
<1>5. RequestInv'
  <2> SUFFICES ASSUME NEW r \in Replicas, NEW i \in DOMAIN inflight'[r], NEW p \in RawPartitions,
                      NEW o \in 1..inflight'[r][i][p]
               PROVE  Settled(p, o)'
    BY DEF RequestInv
  <2>1. o \in Nat \ {0}
    BY <1>2 DEF TypeOK
  <2>2. inflight[r] \in Seq([RawPartitions -> Nat]) /\ watermark[r] \in [RawPartitions -> Nat]
    BY DEF TypeOK
  <2>3. CASE inflight'[r] = inflight[r]
    BY <2>3 , <2>1, SettledStable DEF RequestInv
  <2>4. CASE inflight[r] # <<>> /\ inflight'[r] = Tail(inflight[r])
    <3>1. i + 1 \in DOMAIN inflight[r] /\ inflight'[r][i] = inflight[r][i + 1]
      BY <2>2, <2>4
    <3>2. QED
      BY <2>1, <3>1, SettledStable DEF RequestInv
  <2>5. CASE buf[r] = <<>> /\ inflight'[r] = Append(inflight[r], watermark[r])
    <3>1. CASE i \in DOMAIN inflight[r]
      <4>1. inflight'[r][i] = inflight[r][i]
        BY <2>2, <2>5, <3>1
      <4>2. QED
        BY <2>1, <3>1, <4>1, SettledStable DEF RequestInv
    <3>2. CASE i \notin DOMAIN inflight[r]
      <4>1. inflight'[r][i] = watermark[r]
        BY <2>2, <2>5, <3>2
      <4>2. Settled(p, o)
        BY <2>5, <4>1, RequestSettled
      <4>3. QED
        BY <2>1, <4>2, SettledStable
    <3>3. QED
      BY <3>1, <3>2
  <2>6. QED
    BY <2>3, <2>4, <2>5, RequestKept
<1>6. LoopInv'
  BY LoopKept
<1>7. CommittedImpliesPublished'
  <2> SUFFICES ASSUME NEW p \in RawPartitions, NEW o \in 1..committed'[p]
               PROVE  Settled(p, o)'
    BY DEF CommittedImpliesPublished
  <2>1. o \in Nat \ {0}
    BY <1>2 DEF TypeOK
  <2>2. CASE committed'[p] = committed[p]
    BY <2>1, <2>2, SettledStable DEF CommittedImpliesPublished
  <2>3. ASSUME NEW r \in Replicas, inflight[r] # <<>>, committed'[p] = inflight[r][1][p]
        PROVE  Settled(p, o)'
    <3>1. 1 \in DOMAIN inflight[r]
      BY <2>3 DEF TypeOK
    <3>2. QED
      BY <2>1, <2>3, <3>1, SettledStable DEF RequestInv
  <2>4. QED
    BY <2>2, <2>3, CommittedKept
<1>8. QED
  BY <1>3, <1>4, <1>5, <1>6, <1>7

(* The invariants that the theorems rest on hold throughout.               *)
LEMMA DeliveryInvariant == Spec => [](TypeOK /\ DeliveryInv)
<1>1. Init => DeliveryInv
  <2> SUFFICES ASSUME Init PROVE DeliveryInv
    OBVIOUS
  <2>1. PositionInv /\ WatermarkInv /\ CommittedImpliesPublished
    BY DEF Init, PositionInv, WatermarkInv, CommittedImpliesPublished, NoOffsets
  <2>2. RequestInv /\ LoopInv
    BY DEF Init, RequestInv, LoopInv
  <2>3. QED
    BY <2>1, <2>2 DEF DeliveryInv
<1>2. TypeOK /\ DeliveryInv /\ [Next]_spVars => DeliveryInv'
  BY DeliveryInductive
<1>3. QED
  BY <1>1, <1>2, TypeCorrect, PTL DEF Spec

(* No committed loss, for any number of replicas, partitions, faults and   *)
(* records: a record below a committed offset of telemetry.raw.v1 that     *)
(* carries telemetry has been published to telemetry.normalized.v1.        *)
THEOREM DeliverySafe == Spec => []CommittedImpliesPublished
<1>1. DeliveryInv => CommittedImpliesPublished
  BY DEF DeliveryInv
<1>2. QED
  BY <1>1, DeliveryInvariant, PTL

-----------------------------------------------------------------------------
(* Two steps never happen at once: a record is appended, or a commit       *)
(* arrives, or a message may be published.                                 *)
LEMMA OneEffect ==
    ASSUME [Next]_spVars
    PROVE  \/ /\ \E p \in RawPartitions, k \in Kinds : raw' = [raw EXCEPT ![p] = Append(@, k)]
              /\ UNCHANGED <<normalized, committed>>
           \/ UNCHANGED <<raw, normalized>>
           \/ UNCHANGED <<raw, committed>>
  BY DEF Next, ReplicaStep, LoopStep, spVars, Produce, StartFetching, Assign, Rebalance,
         Receive, Tick, RecordSpans, Publish, PublishFails, Commit, CommitArrives, CommitLost,
         FlushSpanMetrics, Crash, Restart, groupVars

(* With the same messages in the output topic the same envelopes are       *)
(* published.                                                              *)
LEMMA PublishedSame ==
    ASSUME UNCHANGED normalized, NEW e
    PROVE  Published(e)' <=> Published(e)
  BY DEF Published

(* Stream-processor implements AtLeastOnce: whatever its replicas do, the  *)
(* raw topic, the set of published records and the committed offsets       *)
(* change only as the abstract stage allows.                               *)
THEOREM DeliveryRefines == Spec => DeliverySpec
<1>1. Init => Delivery!Init
  BY DEF Init, Delivery!Init, PublishedRecords, RawRecords, NoOffsets
<1>2. ASSUME TypeOK, DeliveryInv, [Next]_spVars
      PROVE  [Delivery!Next]_(Delivery!vars)
  <2>1. TypeOK' /\ DeliveryInv'
    BY <1>2, TypeStep, DeliveryInductive
  <2>2. ASSUME NEW p \in RawPartitions, NEW k \in Kinds,
               raw' = [raw EXCEPT ![p] = Append(@, k)], UNCHANGED <<normalized, committed>>
        PROVE  Delivery!Produce(p, k)
    <3> DEFINE new == <<p, Len(raw[p]) + 1>>
    <3>1. \A q \in RawPartitions : /\ raw[q] \in Seq(Kinds)
                                   /\ q # p => raw'[q] = raw[q]
      BY <1>2, <2>2 DEF TypeOK
    <3>2. raw'[p] = Append(raw[p], k) /\ Len(raw'[p]) = Len(raw[p]) + 1
      BY <1>2, <2>2 DEF TypeOK
    <3>3. RawRecords' = RawRecords \union {new}
      BY <3>1, <3>2 DEF RawRecords
    <3>4. \A x \in RawRecords : raw'[x[1]][x[2]] = raw[x[1]][x[2]]
      BY <3>1, <3>2 DEF RawRecords
    <3>5. \A x \in RawRecords : x \in PublishedRecords' <=> x \in PublishedRecords
      BY <2>2, <3>3, <3>4, PublishedSame DEF PublishedRecords
    <3>6. PublishedRecords \subseteq RawRecords /\ PublishedRecords' \subseteq RawRecords'
      BY DEF PublishedRecords
    <3>7. PublishedRecords' \in {PublishedRecords, PublishedRecords \union {new}}
      BY <3>3, <3>5, <3>6
    <3>8. QED
      BY <2>2, <3>7 DEF Delivery!Produce
  <2>3. CASE UNCHANGED <<raw, normalized>>
    <3>1. PublishedRecords' = PublishedRecords
      BY <2>3, PublishedSame DEF PublishedRecords, RawRecords
    <3>2. committed' \in [RawPartitions -> Nat]
      BY <2>1 DEF TypeOK
    <3>3. ASSUME NEW p \in RawPartitions, NEW o \in 1..committed'[p]
          PROVE  Delivery!Settled(p, o)
      <4>1. Settled(p, o)'
        BY <2>1, <3>3 DEF DeliveryInv, CommittedImpliesPublished
      <4>2. Settled(p, o)
        BY <2>3, <4>1, PublishedSame DEF Settled
      <4>3. o \in 1..Len(raw[p])
        BY <3>2, <3>3, <4>2, <1>2 DEF Settled, TypeOK
      <4>4. raw[p][o] \in RecordKinds
        BY <1>2, <4>3, EnvelopeType, StreamProcessorAssumption
      <4>5. <<p, o>> \in RawRecords
        BY <4>3 DEF RawRecords
      <4>6. QED
        BY <4>2, <4>4, <4>5 DEF Delivery!Settled, Settled, NeedsNoPublish, PublishedRecords
    <3>4. QED
      BY <2>3, <3>1, <3>2, <3>3 DEF Delivery!Next, Delivery!Commit
  <2>4. CASE UNCHANGED <<raw, committed>>
    <3>1. RawRecords' = RawRecords
      BY <2>4 DEF RawRecords
    <3>2. PublishedRecords \subseteq PublishedRecords'
      BY <1>2, <2>4, <3>1, PublishedStable DEF PublishedRecords
    <3>3. PublishedRecords' \subseteq Delivery!Records
      BY <2>4 DEF PublishedRecords, RawRecords, Delivery!Records
    <3>4. QED
      BY <2>4, <3>2, <3>3 DEF Delivery!Next, Delivery!Perform
  <2>5. QED
    BY <1>2, <2>2, <2>3, <2>4, OneEffect DEF Delivery!Next
<1>3. QED
  BY <1>1, <1>2, DeliveryInvariant, PTL DEF Spec, DeliverySpec, Delivery!Spec
-----------------------------------------------------------------------------
(* The sum over the replicas, as SumTheorems speaks of it.                 *)
LEMMA SumOverReplicas ==
    ASSUME NEW f \in [Replicas -> Nat]
    PROVE  SumOver(f) = SumOn(f, Replicas) /\ SumOver(f) \in Nat
<1>1. DOMAIN f = Replicas
  OBVIOUS
<1>2. SumOver(f) = SumOn(f, Replicas)
  BY <1>1 DEF SumOver, FoldFunction, SumOn
<1>3. QED
  BY <1>2, SumNat, StreamProcessorAssumption

(* A window of one replica changes: so much more or less has been counted. *)
LEMMA WindowChanges ==
    ASSUME TypeOK, NEW r \in Replicas, NEW n \in Nat, agg' = [agg EXCEPT ![r] = n]
    PROVE  /\ SumOver(agg) \in Nat /\ SumOver(agg)' \in Nat /\ agg[r] \in Nat
           /\ SumOver(agg)' + agg[r] = SumOver(agg) + n
<1>1. PICK f : f = agg'
  OBVIOUS
<1>2. agg \in [Replicas -> Nat] /\ f \in [Replicas -> Nat]
  BY <1>1 DEF TypeOK
<1>3. f[r] = n /\ \A q \in Replicas \ {r} : f[q] = agg[q]
  BY <1>1, <1>2
<1>4. SumOver(agg) = SumOn(agg, Replicas) /\ SumOver(f) = SumOn(f, Replicas)
  BY <1>2, SumOverReplicas
<1>5. SumOver(agg)' = SumOver(f)
  BY <1>1
<1>6. /\ SumOn(agg, Replicas) \in Nat /\ SumOn(f, Replicas) \in Nat
      /\ SumOn(f, Replicas) + agg[r] = SumOn(agg, Replicas) + f[r]
  <2>1. \A q \in Replicas : agg[q] \in Nat /\ f[q] \in Nat
    BY <1>2
  <2>2. SumOn(agg, Replicas) \in Nat /\ SumOn(f, Replicas) \in Nat
    BY <2>1, SumNat, StreamProcessorAssumption
  <2>3. SumOn(f, Replicas) + agg[r] = SumOn(agg, Replicas) + f[r]
    BY <1>3, <2>1, SumChanges, StreamProcessorAssumption
  <2>4. QED
    BY <2>2, <2>3
<1>7. QED
  BY <1>2, <1>3, <1>4, <1>5, <1>6

(* Only the handler adds to what has been counted; a flush of the window   *)
(* and a crash move it to what was delivered or lost.                      *)
LEMMA CountsMove ==
    ASSUME TypeOK, [Next]_spVars, \A r \in Replicas : ~RecordSpans(r)
    PROVE  (emitted + lost + SumOver(agg))' = emitted + lost + SumOver(agg)
<1>1. CASE UNCHANGED metricVars
  <2>1. UNCHANGED <<agg, emitted, lost>>
    BY <1>1 DEF metricVars
  <2>2. SumOver(agg)' = SumOver(agg)
    BY <2>1
  <2> HIDE DEF SumOver
  <2>3. QED
    BY <2>1, <2>2
<1>2. ASSUME NEW r \in Replicas, FlushSpanMetrics(r) \/ Crash(r)
      PROVE  (emitted + lost + SumOver(agg))' = emitted + lost + SumOver(agg)
  <2>1. agg' = [agg EXCEPT ![r] = 0]
    BY <1>2 DEF FlushSpanMetrics, Crash
  <2>2. /\ SumOver(agg) \in Nat /\ SumOver(agg)' \in Nat /\ agg[r] \in Nat
        /\ SumOver(agg)' + agg[r] = SumOver(agg) + 0
    BY <2>1, WindowChanges
  <2>3. \/ emitted' = emitted + agg[r] /\ lost' = lost
        \/ lost' = lost + agg[r] /\ emitted' = emitted
    BY <1>2 DEF FlushSpanMetrics, Crash
  <2>4. emitted \in Nat /\ lost \in Nat
    BY DEF TypeOK
  <2> HIDE DEF SumOver
  <2>5. QED
    BY <2>2, <2>3, <2>4
<1>3. QED
  BY <1>1, <1>2 DEF Next, ReplicaStep, LoopStep, Produce, Assign, Rebalance, StartFetching, Receive,
         Tick, RecordSpans, Publish, PublishFails, Commit, CommitArrives, CommitLost, Restart,
         spVars, metricVars

-----------------------------------------------------------------------------
(* An envelope stays one of a record of the raw topic.                     *)
LEMMA GenuineStable ==
    ASSUME TypeOK, [Next]_spVars, NEW e \in RawEnvelopes, Genuine(e)
    PROVE  Genuine(e)'
<1>1. e.part \in RawPartitions /\ raw[e.part] \in Seq(Kinds)
  BY DEF TypeOK, RawEnvelopes
<1>2. e.off \in 1..Len(raw[e.part]) /\ Len(raw[e.part]) \in Nat
  BY <1>1 DEF Genuine
<1>3. e.off <= Len(raw'[e.part]) /\ raw'[e.part][e.off] = raw[e.part][e.off]
  BY <1>1, <1>2, RawStable
<1>4. raw'[e.part] \in Seq(Kinds)
  BY <1>1, TypeStep DEF TypeOK
<1>5. QED
  BY <1>2, <1>3, <1>4 DEF Genuine

(* What a step puts into a buffer it has read from the raw topic; what it  *)
(* puts into a message comes from the buffer that it publishes.            *)
LEMMA WhatIsNew ==
    ASSUME TypeOK, [Next]_spVars
    PROVE  /\ \A r \in Replicas : \A i \in DOMAIN buf'[r] :
                \/ i \in DOMAIN buf[r] /\ buf'[r][i] = buf[r][i]
                \/ Genuine(buf'[r][i]) /\ raw' = raw
           /\ \A n \in NormPartitions : \A i \in DOMAIN normalized'[n] :
                \/ i \in DOMAIN normalized[n] /\ normalized'[n][i] = normalized[n][i]
                \/ normalized'[n][i].envs = <<>>
                \/ \E r \in Replicas : /\ pc[r] = "publish" /\ normalized'[n][i].envs = buf[r]
                                       /\ Publish(r) \/ PublishFails(r)
<1> DEFINE Bufs == \A r \in Replicas : \A i \in DOMAIN buf'[r] :
                \/ i \in DOMAIN buf[r] /\ buf'[r][i] = buf[r][i]
                \/ Genuine(buf'[r][i]) /\ raw' = raw
           Msgs == \A n \in NormPartitions : \A i \in DOMAIN normalized'[n] :
                \/ i \in DOMAIN normalized[n] /\ normalized'[n][i] = normalized[n][i]
                \/ normalized'[n][i].envs = <<>>
                \/ \E r \in Replicas : /\ pc[r] = "publish" /\ normalized'[n][i].envs = buf[r]
                                       /\ Publish(r) \/ PublishFails(r)
<1>1. ASSUME NEW r \in Replicas, NEW p \in RawPartitions, Receive(r, p) PROVE Bufs
  <2> DEFINE o == pos[r][p] + 1
             e == Envelope(p, o, raw[p][o])
  <2>1. \A q \in Replicas : /\ buf[q] \in Seq(RawEnvelopes)
                            /\ q # r => buf'[q] = buf[q]
    BY <1>1 DEF Receive, TypeOK
  <2>2. buf'[r] = buf[r] \/ buf'[r] = Append(buf[r], e)
    BY <1>1 DEF Receive, TypeOK
  <2>3. Genuine(e) /\ raw' = raw
    BY <1>1 DEF Receive, TypeOK, Genuine, Envelope
  <2> HIDE DEF e
  <2>4. QED
    BY <2>1, <2>2, <2>3
<1>2. ASSUME NEW r \in Replicas, buf' = [buf EXCEPT ![r] = <<>>] PROVE Bufs
  BY <1>2 DEF TypeOK
<1>3. ASSUME UNCHANGED buf PROVE Bufs
  BY <1>3
<1>4. Bufs
  BY <1>1, <1>2, <1>3 DEF Next, ReplicaStep, LoopStep, spVars, Produce, Assign, Rebalance,
         StartFetching, Tick, RecordSpans, Publish, PublishFails, Commit, CommitArrives, CommitLost,
         FlushSpanMetrics, Crash, Restart, loopVars
<1>5. ASSUME UNCHANGED normalized PROVE Msgs
  BY <1>5
<1>6. ASSUME NEW n \in NormPartitions, NEW m, Deliver(n, m),
             \/ m.envs = <<>>
             \/ \E r \in Replicas : /\ pc[r] = "publish" /\ m.envs = buf[r]
                                    /\ Publish(r) \/ PublishFails(r)
      PROVE  Msgs
  <2>1. \A q \in NormPartitions : /\ normalized[q] \in Seq(Messages)
                                  /\ q # n => normalized'[q] = normalized[q]
    BY <1>6 DEF Deliver, TypeOK
  <2>2. normalized'[n] = Append(normalized[n], m)
    BY <1>6 DEF Deliver, TypeOK
  <2>3. QED
    BY <1>6, <2>1, <2>2
<1>7. ASSUME NEW r \in Replicas, Publish(r) \/ PublishFails(r) PROVE Msgs
  <2>1. UNCHANGED normalized \/ \E n \in NormPartitions : Deliver(n, NormalizedBatch(buf[r]))
    BY <1>7 DEF Publish, PublishFails
  <2>2. pc[r] = "publish" /\ NormalizedBatch(buf[r]).envs = buf[r]
    BY <1>7 DEF Publish, PublishFails, NormalizedBatch
  <2>3. QED
    BY <1>5, <1>6, <1>7, <2>1, <2>2
<1>8. ASSUME NEW r \in Replicas, FlushSpanMetrics(r) PROVE Msgs
  <2>1. UNCHANGED normalized
        \/ \E n \in NormPartitions : Deliver(n, SpanMetricsBatch(agg[r], flushes + 1))
    BY <1>8 DEF FlushSpanMetrics
  <2>2. SpanMetricsBatch(agg[r], flushes + 1).envs = <<>>
    BY DEF SpanMetricsBatch
  <2>3. QED
    BY <1>5, <1>6, <2>1, <2>2
<1>9. Msgs
  <2>1. CASE UNCHANGED spVars
    BY <1>5, <2>1 DEF spVars
  <2>2. CASE \E p \in RawPartitions, k \in Kinds : Produce(p, k)
    BY <1>5, <2>2 DEF Produce
  <2>3. ASSUME NEW r \in Replicas, LoopStep(r) PROVE Msgs
    <3>1. CASE \E p \in RawPartitions : Receive(r, p)
      BY <1>5, <3>1 DEF Receive
    <3>2. CASE Tick(r) \/ RecordSpans(r) \/ Commit(r)
      BY <1>5, <3>2 DEF Tick, RecordSpans, Commit
    <3>3. QED
      BY <1>7, <2>3, <3>1, <3>2 DEF LoopStep
  <2>4. ASSUME NEW r \in Replicas, CommitArrives(r) \/ CommitLost(r) \/ Crash(r) \/ Restart(r)
        PROVE  Msgs
    BY <1>5, <2>4 DEF CommitArrives, CommitLost, Crash, Restart
  <2>5. ASSUME NEW r \in Replicas, NEW p \in RawPartitions, Assign(r, p) \/ Rebalance(r, p)
        PROVE  Msgs
    BY <1>5, <2>5 DEF Assign, Rebalance, StartFetching
  <2>6. ASSUME NEW r \in Replicas, ReplicaStep(r) PROVE Msgs
    BY <1>7, <1>8, <2>3, <2>4, <2>5, <2>6 DEF ReplicaStep
  <2>7. QED
    BY <2>1, <2>2, <2>6 DEF Next
<1>10. QED
  BY <1>4, <1>9

(* Every envelope that a replica holds or has published stands for a       *)
(* record that the producers have sent.                                    *)
LEMMA GenuineKept ==
    ASSUME TypeOK, EnvelopesGenuine, [Next]_spVars
    PROVE  EnvelopesGenuine'
<1>1. TypeOK'
  BY TypeStep
<1>2. ASSUME NEW r \in Replicas, NEW i \in DOMAIN buf'[r] PROVE Genuine(buf[r][i])'
  <2>1. CASE i \in DOMAIN buf[r] /\ buf'[r][i] = buf[r][i]
    <3>1. PICK e : e = buf[r][i]
      OBVIOUS
    <3>2. e \in RawEnvelopes /\ Genuine(e)
      BY <2>1, <3>1 DEF EnvelopesGenuine, TypeOK
    <3>3. Genuine(e)'
      BY <3>2, GenuineStable
    <3>4. QED
      BY <2>1, <3>1, <3>3 DEF Genuine
  <2>2. CASE Genuine(buf'[r][i]) /\ raw' = raw
    BY <2>2 DEF Genuine
  <2>3. QED
    BY <2>1, <2>2, WhatIsNew
<1>3. ASSUME NEW n \in NormPartitions, NEW i \in DOMAIN normalized'[n],
             NEW j \in DOMAIN normalized'[n][i].envs
      PROVE  Genuine(normalized[n][i].envs[j])'
  <2>1. PICK e : e = normalized'[n][i].envs[j]
    OBVIOUS
  <2>2. e \in RawEnvelopes
    <3>1. normalized'[n][i] \in Messages
      BY <1>1 DEF TypeOK
    <3>2. QED
      BY <2>1, <3>1 DEF Messages
  <2>3. Genuine(e)
    <3>1. CASE i \in DOMAIN normalized[n] /\ normalized'[n][i] = normalized[n][i]
      BY <2>1, <3>1 DEF EnvelopesGenuine
    <3>2. CASE normalized'[n][i].envs = <<>>
      BY <3>2
    <3>3. ASSUME NEW r \in Replicas, normalized'[n][i].envs = buf[r] PROVE Genuine(e)
      BY <2>1, <3>3 DEF EnvelopesGenuine
    <3>4. QED
      BY <3>1, <3>2, <3>3, WhatIsNew
  <2>4. Genuine(e)'
    BY <2>2, <2>3, GenuineStable
  <2>5. QED
    BY <2>1, <2>4 DEF Genuine
<1>4. QED
  BY <1>2, <1>3 DEF EnvelopesGenuine

(* A step publishes only what the replica has recorded before; a replica   *)
(* records its batch in a step of its own.                                 *)
LEMMA RecordedKept ==
    ASSUME TypeOK, [Next]_spVars, NEW e, Recorded(e)'
    PROVE  Recorded(e) \/ \E r \in Replicas : RecordSpans(r) /\ InBatch(e, buf[r])
<1>1. CASE Published(e)'
  <2>1. PICK n \in NormPartitions : \E i \in DOMAIN normalized'[n] : InBatch(e, normalized'[n][i].envs)
    BY <1>1 DEF Published, InBatch
  <2>2. PICK i \in DOMAIN normalized'[n] : InBatch(e, normalized'[n][i].envs)
    BY <2>1
  <2>3. CASE i \in DOMAIN normalized[n] /\ normalized'[n][i] = normalized[n][i]
    BY <2>2, <2>3 DEF Recorded, Published
  <2>4. CASE normalized'[n][i].envs = <<>>
    BY <2>2, <2>4 DEF InBatch
  <2>5. ASSUME NEW r \in Replicas, pc[r] = "publish", normalized'[n][i].envs = buf[r]
        PROVE  Recorded(e)
    BY <2>2, <2>5 DEF Recorded
  <2>6. QED
    BY <2>3, <2>4, <2>5, WhatIsNew
<1>2. ASSUME NEW r \in Replicas, pc'[r] = "publish", InBatch(e, buf'[r])
      PROVE  Recorded(e) \/ \E q \in Replicas : RecordSpans(q) /\ InBatch(e, buf[q])
  <2>1. RecordSpans(r) \/ pc[r] = "publish"
    <3>1. ASSUME NEW q \in Replicas, ReplicaStep(q) PROVE RecordSpans(r) \/ pc[r] = "publish"
      <4>1. CASE q = r
        BY <1>2, <3>1, <4>1 DEF ReplicaStep, LoopStep, Assign, Rebalance, StartFetching, Receive, Tick,
           Publish, PublishFails, Commit, CommitArrives, CommitLost, FlushSpanMetrics, Crash, Restart,
           loopVars, TypeOK
      <4>2. CASE q # r
        BY <1>2, <3>1, <4>2 DEF ReplicaStep, LoopStep, Assign, Rebalance, StartFetching, Receive, Tick,
           RecordSpans, Publish, PublishFails, Commit, CommitArrives, CommitLost, FlushSpanMetrics,
           Crash, Restart, loopVars, TypeOK
      <4>3. QED
        BY <4>1, <4>2
    <3>2. CASE UNCHANGED pc
      BY <1>2, <3>2
    <3>3. QED
      BY <3>1, <3>2 DEF Next, spVars, Produce, loopVars
  <2>2. \A i \in DOMAIN buf'[r] : i \in DOMAIN buf[r] /\ buf'[r][i] = buf[r][i]
    <3>1. \A p \in RawPartitions : ~Receive(r, p)
      BY <1>2 DEF Receive, TypeOK
    <3>2. ASSUME NEW q \in Replicas, ReplicaStep(q) PROVE buf'[r] = buf[r] \/ buf'[r] = <<>>
      <4>1. CASE q = r
        BY <3>1, <3>2, <4>1 DEF ReplicaStep, LoopStep, Assign, Rebalance, StartFetching, Tick, RecordSpans,
           Publish, PublishFails, Commit, CommitArrives, CommitLost, FlushSpanMetrics, Crash, Restart,
           loopVars, TypeOK
      <4>2. CASE q # r
        BY <3>2, <4>2 DEF ReplicaStep, LoopStep, Assign, Rebalance, StartFetching, Receive, Tick,
           RecordSpans, Publish, PublishFails, Commit, CommitArrives, CommitLost, FlushSpanMetrics,
           Crash, Restart, loopVars, TypeOK
      <4>3. QED
        BY <4>1, <4>2
    <3>3. buf'[r] = buf[r] \/ buf'[r] = <<>>
      BY <3>2 DEF Next, spVars, Produce, loopVars
    <3>4. QED
      BY <3>3
  <2>3. InBatch(e, buf[r])
    BY <1>2, <2>2 DEF InBatch
  <2>4. QED
    BY <2>1, <2>3 DEF Recorded
<1>3. QED
  BY <1>1, <1>2 DEF Recorded, InBatch

(* The records of the spans that a batch holds are no more than SpanCount. *)
LEMMA BatchSpans ==
    ASSUME NEW b \in Seq(RawEnvelopes)
    PROVE  LET spans == {<<b[i].part, b[i].off>> : i \in {i \in DOMAIN b : b[i].kind = "spans"}}
           IN  /\ IsFiniteSet(spans) /\ Cardinality(spans) \in Nat
               /\ Cardinality(spans) <= SpanCount(b)
<1> DEFINE I == {i \in DOMAIN b : b[i].kind = "spans"}
           spans == {<<b[i].part, b[i].off>> : i \in I}
           f == [i \in I |-> <<b[i].part, b[i].off>>]
<1>1. IsFiniteSet(I)
  <2>1. DOMAIN b = 1..Len(b) /\ Len(b) \in Nat
    OBVIOUS
  <2>2. IsFiniteSet(1..Len(b))
    BY <2>1, FS_Interval
  <2>3. QED
    BY <2>1, <2>2, FS_Subset
<1>2. f \in Surjection(I, spans)
  BY DEF Surjection
<1> HIDE DEF f
<1>3. IsFiniteSet(spans) /\ Cardinality(spans) <= Cardinality(I)
  <2> HIDE DEF spans, I
  <2>1. QED
    BY <1>1, <1>2, FS_Surjection
<1>4. Cardinality(spans) \in Nat
  BY <1>3, FS_CardinalityType
<1>5. QED
  BY <1>3, <1>4 DEF SpanCount

(* What has been recorded stands for a record of the raw topic.            *)
LEMMA RecordedGenuine ==
    ASSUME EnvelopesGenuine, NEW e, Recorded(e)
    PROVE  Genuine(e)
  BY DEF EnvelopesGenuine, Recorded, Published, InBatch

(* A step counts no span but those of a batch that it records.             *)
LEMMA CountedGrow ==
    ASSUME TypeOK, EnvelopesGenuine, [Next]_spVars, NEW x \in CountedSpans'
    PROVE  \/ x \in CountedSpans
           \/ \E r \in Replicas : RecordSpans(r) /\ InBatch(Envelope(x[1], x[2], "spans"), buf[r])
<1> DEFINE e == Envelope(x[1], x[2], "spans")
<1>1. x \in RawRecords' /\ Recorded(e)'
  BY DEF CountedSpans
<1>2. PICK p \in RawPartitions : x \in {p} \X (1..Len(raw'[p]))
  BY <1>1 DEF RawRecords
<1>3. /\ x = <<x[1], x[2]>> /\ x[1] = p
      /\ e.part = x[1] /\ e.off = x[2] /\ e.kind = "spans"
  BY <1>2 DEF Envelope
<1> HIDE DEF e
<1>4. CASE Recorded(e)
  <2>1. Genuine(e)
    BY <1>4, RecordedGenuine
  <2>2. x[2] \in DOMAIN raw[p] /\ raw[p][x[2]] = "spans"
    BY <1>3, <2>1 DEF Genuine
  <2>3. DOMAIN raw[p] = 1..Len(raw[p])
    BY DEF TypeOK
  <2>4. x \in RawRecords
    BY <1>3, <2>2, <2>3 DEF RawRecords
  <2>5. QED
    BY <1>3, <1>4, <2>2, <2>4 DEF CountedSpans, e
<1>5. CASE \E r \in Replicas : RecordSpans(r) /\ InBatch(e, buf[r])
  BY <1>5 DEF e
<1>6. QED
  BY <1>1, <1>4, <1>5, RecordedKept

(* AccountInv is inductive.                                                *)
LEMMA AccountInductive ==
    ASSUME TypeOK, AccountInv, [Next]_spVars
    PROVE  AccountInv'
<1>1. EnvelopesGenuine'
  BY GenuineKept DEF AccountInv
<1>2. /\ EnvelopesGenuine /\ IsFiniteSet(CountedSpans) /\ Cardinality(CountedSpans) \in Nat
      /\ Cardinality(CountedSpans) <= emitted + lost + SumOver(agg)
  BY FS_CardinalityType DEF AccountInv
<1>3. emitted \in Nat /\ lost \in Nat /\ SumOver(agg) \in Nat
  BY SumOverReplicas DEF TypeOK
<1>4. CASE \A r \in Replicas : ~RecordSpans(r)
  <2>1. PICK new : new = CountedSpans'
    OBVIOUS
  <2>2. new \in SUBSET CountedSpans
    BY <1>2, <1>4, <2>1, CountedGrow
  <2>3. IsFiniteSet(new) /\ Cardinality(new) \in Nat /\ Cardinality(new) <= Cardinality(CountedSpans)
    BY <1>2, <2>2, FS_Subset, FS_CardinalityType
  <2>4. (emitted + lost + SumOver(agg))' = emitted + lost + SumOver(agg)
    BY <1>4, CountsMove
  <2>5. IsFiniteSet(CountedSpans)' /\ (Cardinality(CountedSpans) <= emitted + lost + SumOver(agg))'
    <3>1. Cardinality(new) <= emitted + lost + SumOver(agg)
      BY <1>2, <1>3, <2>3
    <3>2. QED
      BY <2>1, <2>3, <2>4, <3>1
  <2>6. QED
    BY <1>1, <2>5 DEF AccountInv
<1>5. ASSUME NEW r \in Replicas, RecordSpans(r) PROVE AccountInv'
  <2>1. buf[r] \in Seq(RawEnvelopes)
    BY DEF TypeOK
  <2> DEFINE batch == {<<buf[r][i].part, buf[r][i].off>> : i \in {i \in DOMAIN buf[r] : buf[r][i].kind = "spans"}}
  <2>2. IsFiniteSet(batch) /\ Cardinality(batch) \in Nat /\ Cardinality(batch) <= SpanCount(buf[r])
    BY <2>1, BatchSpans
  <2>3. PICK new : new = CountedSpans'
    OBVIOUS
  <2>4. \A q \in Replicas : RecordSpans(q) => q = r
    BY <1>5 DEF RecordSpans, TypeOK
  <2>5. ASSUME NEW x \in new PROVE x \in CountedSpans \union batch
    <3>1. CASE x \in CountedSpans
      BY <3>1
    <3>2. CASE InBatch(Envelope(x[1], x[2], "spans"), buf[r])
      <4>1. PICK i \in DOMAIN buf[r] : buf[r][i] = Envelope(x[1], x[2], "spans")
        BY <3>2 DEF InBatch
      <4>2. x = <<x[1], x[2]>>
        BY <2>3 DEF CountedSpans, RawRecords
      <4>3. buf[r][i].part = x[1] /\ buf[r][i].off = x[2] /\ buf[r][i].kind = "spans"
        BY <4>1 DEF Envelope
      <4>4. QED
        BY <4>2, <4>3
    <3>3. QED
      BY <1>2, <2>3, <2>4, <3>1, <3>2, CountedGrow
  <2> HIDE DEF batch
  <2>6. SpanCount(buf[r]) \in Nat
    BY <2>1, SpanCountType
  <2>7. /\ IsFiniteSet(CountedSpans \union batch)
        /\ Cardinality(CountedSpans \union batch) \in Nat
        /\ Cardinality(CountedSpans \union batch) <= Cardinality(CountedSpans) + Cardinality(batch)
    <3>1. /\ IsFiniteSet(CountedSpans \union batch)
          /\ Cardinality(CountedSpans \union batch)
               = Cardinality(CountedSpans) + Cardinality(batch) - Cardinality(CountedSpans \cap batch)
      BY <1>2, <2>2, FS_Union
    <3>2. IsFiniteSet(CountedSpans \cap batch)
      BY <1>2, FS_Subset
    <3>3. Cardinality(CountedSpans \cap batch) \in Nat /\ Cardinality(CountedSpans \union batch) \in Nat
      BY <3>1, <3>2, FS_CardinalityType
    <3>4. QED
      BY <1>2, <2>2, <3>1, <3>3
  <2>8. IsFiniteSet(new) /\ Cardinality(new) \in Nat
        /\ Cardinality(new) <= Cardinality(CountedSpans \union batch)
    <3>1. new \in SUBSET (CountedSpans \union batch)
      BY <2>5
    <3>2. QED
      BY <2>7, <3>1, FS_Subset, FS_CardinalityType
  <2>9. agg[r] \in Nat /\ agg' = [agg EXCEPT ![r] = agg[r] + SpanCount(buf[r])]
        /\ UNCHANGED <<emitted, lost>>
    BY <1>5 DEF RecordSpans, TypeOK
  <2>10. SumOver(agg)' \in Nat /\ SumOver(agg)' + agg[r] = SumOver(agg) + (agg[r] + SpanCount(buf[r]))
    <3>1. agg[r] + SpanCount(buf[r]) \in Nat
      BY <2>6, <2>9
    <3>2. QED
      BY <2>9, <3>1, WindowChanges
  <2>11. Cardinality(new) <= (emitted + lost + SumOver(agg))'
    <3>1. (emitted + lost + SumOver(agg))' = emitted + lost + SumOver(agg)'
      BY <2>9
    <3> HIDE DEF SumOver
    <3>2. QED
      BY <1>2, <1>3, <2>2, <2>6, <2>7, <2>8, <2>9, <2>10, <3>1
  <2>12. QED
    BY <1>1, <2>3, <2>8, <2>11 DEF AccountInv
<1>6. QED
  BY <1>4, <1>5

(* Every span in telemetry.normalized.v1 has been counted, whatever is     *)
(* retried, delivered twice, read again after a rebalance or lost in a     *)
(* crash: the handler records a batch before each attempt to publish it.   *)
THEOREM SpansAreCounted == Spec => []SpanCallsAccounted
<1>1. Init => AccountInv
  <2> SUFFICES ASSUME Init PROVE AccountInv
    OBVIOUS
  <2>1. EnvelopesGenuine
    BY DEF Init, EnvelopesGenuine
  <2>2. CountedSpans = {}
    BY DEF Init, CountedSpans, RawRecords
  <2>3. IsFiniteSet(CountedSpans) /\ Cardinality(CountedSpans) = 0
    BY <2>2, FS_EmptySet
  <2>4. SumOver(agg) \in Nat
    BY SumOverReplicas DEF Init
  <2>5. QED
    BY <2>1, <2>3, <2>4 DEF Init, AccountInv
<1>2. TypeOK /\ AccountInv /\ [Next]_spVars => AccountInv'
  BY AccountInductive
<1>3. TypeOK /\ AccountInv => SpanCallsAccounted
  <2> SUFFICES ASSUME TypeOK, AccountInv PROVE SpanCallsAccounted
    OBVIOUS
  <2> DEFINE published == {x \in PublishedRecords : raw[x[1]][x[2]] = "spans"}
  <2>1. published \in SUBSET CountedSpans
    BY DEF CountedSpans, PublishedRecords, Recorded
  <2> HIDE DEF published
  <2>2. Cardinality(published) <= Cardinality(CountedSpans) /\ Cardinality(published) \in Nat
        /\ Cardinality(CountedSpans) \in Nat
    BY <2>1, FS_Subset, FS_CardinalityType DEF AccountInv
  <2>3. SumOver(agg) \in Nat /\ emitted \in Nat /\ lost \in Nat
    BY SumOverReplicas DEF TypeOK
  <2>4. Cardinality(published) <= emitted + lost + SumOver(agg)
    BY <2>2, <2>3 DEF AccountInv
  <2>5. QED
    BY <2>4 DEF SpanCallsAccounted, published
<1>4. QED
  BY <1>1, <1>2, <1>3, TypeCorrect, PTL DEF Spec
==============================================================================
