----------------------- MODULE TelemetryPipelineProofs -----------------------
(***************************************************************************)
(* The end-to-end guarantee of TelemetryPipeline, from the theorems about  *)
(* its two components.  Each component is shown to behave as its module    *)
(* says while the other one takes its steps; the storage-writer's topic    *)
(* then grows by what stream-processor publishes.                          *)
(***************************************************************************)
EXTENDS TelemetryPipeline, TLAPS

(* The assumptions of the two components follow from those of the path.    *)
LEMMA ProcessorAssumption == SP!StreamProcessorAssumption
  BY PipelineAssumption
  DEF SP!StreamProcessorAssumption, RecordKinds, PayloadKinds, SP!RecordKinds, SP!PayloadKinds,
      IsFiniteSet, SP!IsFiniteSet

(* A sequence is one over the set of its own elements.                     *)
LEMMA OwnRange ==
    ASSUME NEW E, NEW s \in Seq(E)
    PROVE  s \in Seq({s[i] : i \in DOMAIN s})
  OBVIOUS

(* The assumptions of the path give those of storage-writer in it.         *)
LEMMA WriterAssumption == SW!StorageWriterAssumption
  BY PipelineAssumption, OwnRange DEF SW!StorageWriterAssumption, SP!Messages

(* What stream-processor adds to the topic between them is a message.      *)
LEMMA Publishes ==
    ASSUME SP!TypeOK, SP!Next
    PROVE  \/ normalized' = normalized
           \/ \E n \in NormPartitions, m \in SP!Messages :
                 normalized' = [normalized EXCEPT ![n] = Append(@, m)]
<1>1. ASSUME NEW r \in Replicas, NEW n \in NormPartitions,
             SP!Deliver(n, SP!NormalizedBatch(buf[r]))
      PROVE  \E m \in SP!Messages : normalized' = [normalized EXCEPT ![n] = Append(@, m)]
  <2>1. SP!NormalizedBatch(buf[r]) \in SP!Messages
    BY DEF SP!TypeOK, SP!Messages, SP!NormalizedBatch
  <2>2. QED
    BY <1>1, <2>1 DEF SP!Deliver
<1>2. ASSUME NEW r \in Replicas, NEW n \in NormPartitions,
             SP!Deliver(n, SP!SpanMetricsBatch(agg[r], flushes + 1))
      PROVE  \E m \in SP!Messages : normalized' = [normalized EXCEPT ![n] = Append(@, m)]
  <2>1. SP!SpanMetricsBatch(agg[r], flushes + 1) \in SP!Messages
    BY DEF SP!TypeOK, SP!Messages, SP!SpanMetricsBatch
  <2>2. QED
    BY <1>2, <2>1 DEF SP!Deliver
<1>3. ASSUME NEW r \in Replicas, SP!ReplicaStep(r)
      PROVE  \/ normalized' = normalized
             \/ \E n \in NormPartitions : \/ SP!Deliver(n, SP!NormalizedBatch(buf[r]))
                                          \/ SP!Deliver(n, SP!SpanMetricsBatch(agg[r], flushes + 1))
  BY <1>3 DEF SP!ReplicaStep, SP!LoopStep, SP!Receive, SP!Tick, SP!RecordSpans, SP!Publish,
         SP!Commit, SP!PublishFails, SP!CommitArrives, SP!CommitLost, SP!FlushSpanMetrics,
         SP!Crash, SP!Restart, SP!Assign, SP!Rebalance, SP!StartFetching
<1>4. ASSUME NEW p \in RawPartitions, NEW k \in Kinds, SP!Produce(p, k)
      PROVE  normalized' = normalized
  BY <1>4 DEF SP!Produce
<1>5. QED
  BY <1>1, <1>2, <1>3, <1>4 DEF SP!Next

(* A writer's step leaves stream-processor and the topic alone.            *)
LEMMA WriterReadsOnly ==
    ASSUME NEW w \in Writers, SW!WriterStep(w)
    PROVE  normalized' = normalized
  BY DEF SW!WriterStep, SW!WAssign, SW!WRebalance, SW!WStartFetching, SW!WReceive, SW!Insert,
         SW!InsertFails, SW!WCommit, SW!WCommitArrives, SW!WCommitLost, SW!ConsumerStops,
         SW!WCrash, SW!WRestart, SW!Leave

(* Seen from stream-processor the path is stream-processor.                *)
THEOREM PathProcesses == Spec => SP!Spec
<1>1. Init => SP!Init
  BY DEF Init
<1>2. [Next]_vars => [SP!Next]_(SP!spVars)
  BY WriterReadsOnly DEF Next, ProcessorStep, WriterStep, vars, processorOnly, SP!spVars
<1>3. QED
  BY <1>1, <1>2, PTL DEF Spec, SP!Spec

(* Every value on the processor's side has its type, and no committed      *)
(* offset of the raw topic runs ahead of the publishes.                    *)
LEMMA ProcessorSafe == Spec => [](SP!TypeOK /\ SP!DeliveryInv)
  BY PathProcesses, SP!DeliveryInvariant, ProcessorAssumption, PTL

(* Seen from storage-writer the path is storage-writer behind a producer   *)
(* of the messages that stream-processor publishes.                        *)
THEOREM PathWrites == Spec => SW!OpenSpec
<1>1. Init => SW!Init
  BY DEF Init, SP!Init, SW!Init
<1>2. ASSUME SP!TypeOK, [Next]_vars PROVE [SW!OpenNext]_(SW!swVars)
  <2>1. CASE ProcessorStep
    <3>1. SP!Next /\ UNCHANGED writerOnly
      BY <2>1 DEF ProcessorStep
    <3>2. CASE normalized' = normalized
      BY <3>1, <3>2 DEF writerOnly, SW!swVars
    <3>3. ASSUME NEW n \in NormPartitions, NEW m \in SP!Messages,
                 normalized' = [normalized EXCEPT ![n] = Append(@, m)]
          PROVE  SW!OpenNext
      <4>1. SW!MessageArrives(n, m)
        BY <3>1, <3>3 DEF writerOnly, SW!MessageArrives, SW!consumerVars
      <4>2. QED
        BY <4>1 DEF SW!OpenNext
    <3>4. QED
      BY <1>2, <3>1, <3>2, <3>3, Publishes
  <2>2. CASE WriterStep
    BY <2>2 DEF WriterStep, SW!OpenNext
  <2>3. CASE UNCHANGED vars
    BY <2>3 DEF vars, writerOnly, SW!swVars
  <2>4. QED
    BY <1>2, <2>1, <2>2, <2>3 DEF Next
<1>3. QED
  BY <1>1, <1>2, ProcessorSafe, PTL DEF Spec, SW!OpenSpec

(* The storage-writer of the path keeps its own invariant.                 *)
LEMMA WriterSafe == Spec => [](SW!WTypeOK /\ SW!StorageInv)
  BY PathWrites, SW!StorageInvariant, WriterAssumption, PTL

(* A row is visible when every message that carries its record is durable. *)
LEMMA DurableIsVisible ==
    ASSUME SP!TypeOK, NEW p \in RawPartitions, NEW o \in 1..Len(raw[p]),
           raw[p][o] \in PayloadKinds,
           NEW m \in SP!Messages, SP!InBatch(SP!Envelope(p, o, raw[p][o]), m.envs), SW!Durable(m)
    PROVE  Visible(p, o)
<1> DEFINE t == TableOf(raw[p][o])
<1>1. PICK i \in DOMAIN m.envs : m.envs[i] = Envelope(p, o, raw[p][o])
  BY DEF SP!InBatch, SP!Envelope, Envelope
<1>2. t \in SW!Tables /\ SW!HasRow(m.envs[i], t)
  BY <1>1 DEF TableOf, SW!Tables, SW!HasRow, Envelope, PayloadKinds
<1> HIDE DEF t
<1>3. t \in SW!TablesOf(m)
  BY <1>2 DEF SW!TablesOf, SW!HasBlock
<1>4. PICK j \in DOMAIN blocks[t] : blocks[t][j][1] = SW!Block(m, t)
  BY <1>3 DEF SW!Durable, SW!Stored
<1>5. \E k \in DOMAIN SW!RowsFor(m.envs, t) : SW!RowsFor(m.envs, t)[k] = m.envs[i]
  <2>1. m.envs \in Seq(SP!RawEnvelopes)
    BY DEF SP!Messages
  <2>2. PICK batch \in Seq(SP!RawEnvelopes) : batch = m.envs
    BY <2>1
  <2>3. i \in DOMAIN batch /\ SW!HasRow(batch[i], t)
    BY <1>2, <2>2
  <2>4. \E k \in DOMAIN SW!RowsFor(batch, t) : SW!RowsFor(batch, t)[k] = batch[i]
    BY <2>3, SW!RowsForAll, WriterAssumption
  <2>5. QED
    BY <2>2, <2>4
<1>6. blocks[t][j][1].rows = SW!RowsFor(m.envs, t)
  BY <1>4 DEF SW!Block
<1>7. RowIn(blocks[t][j], Envelope(p, o, raw[p][o]))
  BY <1>1, <1>5, <1>6 DEF RowIn
<1>8. o <= Len(raw[p])
  BY DEF SP!TypeOK
<1>9. QED
  BY <1>4, <1>7, <1>8 DEF Visible, t

(* The two commits together.                                               *)
LEMMA CommitsMeet ==
    ASSUME SP!TypeOK, SP!CommittedImpliesPublished, SW!CommittedImpliesStored
    PROVE  NoCommittedLoss
<1> SUFFICES ASSUME Drained, NEW p \in RawPartitions, NEW o \in 1..committed[p],
                    raw[p][o] \in PayloadKinds
             PROVE  Visible(p, o)
  BY DEF NoCommittedLoss
<1>1. SP!Settled(p, o)
  BY DEF SP!CommittedImpliesPublished
<1>2. o \in 1..Len(raw[p]) /\ SP!Published(SP!Envelope(p, o, raw[p][o]))
  BY <1>1 DEF SP!Settled, SP!TypeOK, PayloadKinds, SP!PayloadKinds
<1>3. PICK n \in NormPartitions : \E i \in DOMAIN normalized[n] :
         SP!InBatch(SP!Envelope(p, o, raw[p][o]), normalized[n][i].envs)
  BY <1>2 DEF SP!Published
<1>4. PICK i \in DOMAIN normalized[n] :
         SP!InBatch(SP!Envelope(p, o, raw[p][o]), normalized[n][i].envs)
  BY <1>3
<1>5. i \in 1..Len(normalized[n]) /\ normalized[n][i] \in SP!Messages
  BY DEF SP!TypeOK
<1>6. SW!Durable(normalized[n][i])
  BY <1>5 DEF SW!CommittedImpliesStored, SW!DurableUpTo, Drained
<1>7. QED
  BY <1>2, <1>4, <1>5, <1>6, DurableIsVisible

(* Every record whose offset stream-processor has committed is visible in  *)
(* its table once the writers have committed what was published: neither   *)
(* commit runs ahead of the rows, for any number of replicas, writers,     *)
(* partitions, records and faults.                                         *)
THEOREM PathLosesNothing == Spec => []NoCommittedLoss
<1>1. SP!TypeOK /\ SP!DeliveryInv /\ SW!StorageInv => NoCommittedLoss
  BY CommitsMeet DEF SP!DeliveryInv, SW!StorageInv
<1>2. QED
  BY <1>1, ProcessorSafe, WriterSafe, PTL
==============================================================================
