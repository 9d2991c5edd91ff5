-------------------------- MODULE TelemetryPipeline --------------------------
(***************************************************************************)
(* The delivery path from telemetry.raw.v1 to ClickHouse: stream-processor *)
(* and storage-writer, joined by the topic telemetry.normalized.v1.        *)
(***************************************************************************)
EXTENDS Telemetry, FiniteSets

CONSTANTS
    Replicas, RawPartitions, NormPartitions, NoReplica, Kinds,
    MaxSize, MaxRecords, MaxFaults,
    Writers, NoWriter, WithEvents, MultiAttr, Seeds, Window,
    MaxMessages, MaxWriterFaults

VARIABLES
    raw, owner, committed, pc, pos, buf, watermark, inflight,
    agg, flushes, emitted, lost, faults,
    normalized,
    wowner, wcommitted, wpc, wpos, cur, seed, todo, winflight, blocks, wfaults

ASSUME PipelineAssumption ==
    /\ NoReplica \notin Replicas /\ IsFiniteSet(Replicas)
    /\ Kinds \subseteq RecordKinds
    /\ MaxSize \in Nat \ {0}
    /\ MaxRecords \in Nat
    /\ MaxFaults \in Nat
    /\ NoWriter \notin Writers
    /\ Seeds \subseteq Nat /\ Seeds # {}
    /\ Window \in Nat
    /\ MaxMessages \in Nat
    /\ MaxWriterFaults \in Nat

(* The two components, with the theorems about them.                       *)
SP == INSTANCE StreamProcessorProofs
SW == INSTANCE StorageWriterProofs WITH Contents <- SP!Messages

processorOnly == <<raw, owner, committed, pc, pos, buf, watermark, inflight,
                   agg, flushes, emitted, lost, faults>>
writerOnly    == <<wowner, wcommitted, wpc, wpos, cur, seed, todo, winflight,
                   blocks, wfaults>>
vars == <<processorOnly, normalized, writerOnly>>

Init == SP!Init /\ SW!WInit

ProcessorStep == SP!Next /\ UNCHANGED writerOnly
WriterStep    == (\E w \in Writers : SW!WriterStep(w)) /\ UNCHANGED processorOnly

Next == ProcessorStep \/ WriterStep

Spec == Init /\ [][Next]_vars

FairSpec == Spec /\ SP!Fairness /\ SW!WriterFairness

-----------------------------------------------------------------------------
TableOf(kind) == CASE kind = "spans" -> "spans" [] kind = "logs" -> "logs"
                   [] OTHER -> "metric_points"

RowIn(b, e) == \E i \in DOMAIN b[1].rows : b[1].rows[i] = e

(* A row of this record is visible to queries.                             *)
Visible(p, o) ==
    o <= Len(raw[p]) /\ \E i \in DOMAIN blocks[TableOf(raw[p][o])] :
        RowIn(blocks[TableOf(raw[p][o])][i], Envelope(p, o, raw[p][o]))

Drained == \A n \in NormPartitions : wcommitted[n] = Len(normalized[n])

(* End to end: once the writers have committed everything published, every *)
(* record whose offset stream-processor committed is visible: neither of   *)
(* the two commits can run ahead of the rows.                              *)
NoCommittedLoss ==
    Drained => \A p \in RawPartitions : \A o \in 1..committed[p] :
                   raw[p][o] \in PayloadKinds => Visible(p, o)

(* Every accepted record becomes visible once the faults have stopped, if  *)
(* not all writers' consumer tasks have ended.                             *)
EventuallyVisible ==
    \A p \in RawPartitions : \A o \in 1..MaxRecords :
        (o <= Len(raw[p]) /\ raw[p][o] \in PayloadKinds) ~>
            \/ Visible(p, o)
            \/ \A w \in Writers : wpc[w] = "stopped"

(* No record is visible twice, whatever was delivered again.               *)
NoDuplicateVisibleRows ==
    \A p \in RawPartitions : \A o \in 1..Len(raw[p]) :
        raw[p][o] \in PayloadKinds =>
            \A i, j \in DOMAIN blocks[TableOf(raw[p][o])] :
                /\ RowIn(blocks[TableOf(raw[p][o])][i], Envelope(p, o, raw[p][o]))
                /\ RowIn(blocks[TableOf(raw[p][o])][j], Envelope(p, o, raw[p][o]))
                => i = j
==============================================================================
