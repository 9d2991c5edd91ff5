--------------------------- MODULE MCStorageWriter ---------------------------
(***************************************************************************)
(* Instances of StorageWriter for TLC.                                     *)
(***************************************************************************)
EXTENDS StorageWriter, Functions

CONSTANTS w1, w2, n1, p1

MCWriters      == {w1, w2}
MCOnePartition == {n1}

spanEnv   == Envelope(p1, 1, "spans")
logEnv    == Envelope(p1, 2, "logs")
metricEnv == Envelope(p1, 3, "metrics")
lateEnv   == Envelope(p1, 4, "logs")

MCWithEvents == {spanEnv}
MCMultiAttr  == {spanEnv, logEnv}
NoEnvelopes  == {}

(* A message with rows for every table, a later one with rows for logs,    *)
(* one with spans only, and one that cannot be parsed.                     *)
mixedMessage   == NormalizedBatch(<<spanEnv, logEnv, metricEnv>>)
lateMessage    == NormalizedBatch(<<lateEnv>>)
spanMessage    == NormalizedBatch(<<spanEnv>>)
unparseable    == NormalizedBatch(<<>>)

MCContents     == {mixedMessage, lateMessage, unparseable}
MCSpanContents == {spanMessage}

(* Two orders of the attribute maps with one message in the topic, one     *)
(* order with MaxMessages of them.  The messages of a partition differ, so *)
(* that the second one is stored only by a writer that goes on to it.      *)
WithinBounds ==
    \A n \in NormPartitions :
        /\ (\E w \in Writers : seed[w] = 2) => Len(normalized[n]) <= 1
        /\ IsInjective(normalized[n])

BoundedNext == Next /\ WithinBounds'

BoundedSpec == Init /\ [][BoundedNext]_swVars /\ WriterFairness
==============================================================================
