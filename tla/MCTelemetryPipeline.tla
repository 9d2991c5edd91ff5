------------------------- MODULE MCTelemetryPipeline -------------------------
(***************************************************************************)
(* Instances of TelemetryPipeline for TLC.                                 *)
(***************************************************************************)
EXTENDS TelemetryPipeline

CONSTANTS r1, p1, n1, w1

MCReplicas       == {r1}
MCRawPartitions  == {p1}
MCNormPartitions == {n1}
MCWriters        == {w1}
NoEnvelopes      == {}
==============================================================================
