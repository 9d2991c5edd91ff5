------------------------------ MODULE Telemetry ------------------------------
(***************************************************************************)
(* The telemetry that travels from the ingest gateway to ClickHouse.       *)
(*                                                                         *)
(* An envelope is named by its place in the topic telemetry.raw.v1 and     *)
(* carries one payload kind.  A message of telemetry.normalized.v1 is the  *)
(* merged form of the envelopes of one batch, in batch order, or a flush   *)
(* of the span metrics (no envelopes, "calls" spans counted, "stamp" tells *)
(* two flushes apart as their time_unix_nano does).                        *)
(***************************************************************************)
EXTENDS Naturals, Sequences

(***************************************************************************)
(* What a record of the raw topic holds: one of the three payloads of      *)
(* EnvelopePayload, an envelope whose payload lists are empty, or bytes    *)
(* that are not an envelope at all.                                        *)
(***************************************************************************)
PayloadKinds == {"spans", "logs", "metrics"}
RecordKinds  == PayloadKinds \union {"empty", "garbage"}

(* Bytes that serde_json cannot parse never reach a batch. *)
Deserialises(kind) == kind # "garbage"

Envelope(p, o, k) == [part |-> p, off |-> o, kind |-> k]

(* The guard of the handler: publish only a merged batch with some row.    *)
HasRows(batch) == \E i \in DOMAIN batch : batch[i].kind \in PayloadKinds

(* NormalizedTelemetryBatch as published by the handler, and by the flush  *)
(* of the span metrics.                                                    *)
NormalizedBatch(batch)         == [envs |-> batch, calls |-> 0, stamp |-> 0]
SpanMetricsBatch(calls, stamp) == [envs |-> <<>>, calls |-> calls, stamp |-> stamp]
==============================================================================
