------------------------- MODULE StorageWriterProofs -------------------------
(***************************************************************************)
(* Theorems about StorageWriter, for every set of writers, partitions and  *)
(* messages, every deduplication window and every bound.                   *)
(***************************************************************************)
EXTENDS StorageWriter, SumTheorems

(* What the bound on the length of the topic forbids is all that tells     *)
(* Spec from OpenSpec: the lemmas are about the latter, where the topic    *)
(* grows without bound, and so hold for the writers behind any producer.   *)
LEMMA SpecIsOpen == Spec => OpenSpec
<1>1. [Next]_swVars => [OpenNext]_swVars
  BY DEF Next, OpenNext, PublishMessage
<1>2. QED
  BY <1>1, PTL DEF Spec, OpenSpec

(* How a step may change the topic and the tables: by one more message, by *)
(* one more block of a message that a writer holds.                        *)
LEMMA TopicGrows ==
    ASSUME [OpenNext]_swVars
    PROVE  \/ normalized' = normalized
           \/ \E n \in NormPartitions, m \in Contents :
                 normalized' = [normalized EXCEPT ![n] = Append(@, m)]
  BY DEF OpenNext, WriterStep, swVars, MessageArrives, WStartFetching, WAssign, WRebalance, WReceive,
         Insert, InsertFails, WCommit, WCommitArrives, WCommitLost, Leave, ConsumerStops,
         WCrash, WRestart

(* A message keeps its place in the topic.                                 *)
LEMMA MessageStable ==
    ASSUME WTypeOK, [OpenNext]_swVars, NEW n \in NormPartitions, NEW o \in 1..Len(normalized[n])
    PROVE  /\ o \in 1..Len(normalized'[n])
           /\ normalized'[n][o] = normalized[n][o]
           /\ normalized[n][o] \in Contents
<1>1. normalized[n] \in Seq(Contents)
  BY DEF WTypeOK
<1>2. CASE normalized' = normalized
  BY <1>1, <1>2
<1>3. ASSUME NEW q \in NormPartitions, NEW m \in Contents,
             normalized' = [normalized EXCEPT ![q] = Append(@, m)]
      PROVE  /\ o \in 1..Len(normalized'[n])
             /\ normalized'[n][o] = normalized[n][o]
             /\ normalized[n][o] \in Contents
  BY <1>1, <1>3 DEF WTypeOK
<1>4. QED
  BY <1>2, <1>3, TopicGrows

(* A place of the topic stays one.                                         *)
LEMMA PositionsGrow ==
    ASSUME WTypeOK, [OpenNext]_swVars
    PROVE  WPositions \subseteq WPositions'
<1> SUFFICES ASSUME NEW x \in WPositions PROVE x \in WPositions'
  OBVIOUS
<1>1. PICK n \in NormPartitions : x \in {n} \X (1..Len(normalized[n]))
  BY DEF WPositions
<1>2. x[2] \in 1..Len(normalized'[n])
  BY <1>1, MessageStable
<1>3. QED
  BY <1>1, <1>2 DEF WPositions

(* What a place of the topic is.                                           *)
LEMMA PositionParts ==
    ASSUME WTypeOK, NEW x \in WPositions
    PROVE  /\ x = <<x[1], x[2]>>
           /\ x[1] \in NormPartitions
           /\ x[2] \in 1..Len(normalized[x[1]])
           /\ x[2] \in Nat \ {0}
           /\ normalized[x[1]][x[2]] \in Contents
<1>1. PICK n \in NormPartitions : x \in {n} \X (1..Len(normalized[n]))
  BY DEF WPositions
<1>2. normalized[n] \in Seq(Contents)
  BY DEF WTypeOK
<1>3. QED
  BY <1>1, <1>2

(* A writer that is writing holds a message; any other holds none.         *)
LEMMA CurType ==
    ASSUME WTypeOK, NEW w \in Writers
    PROVE  /\ wpc[w] = "write" => cur[w] \in WPositions /\ CurMessage(w) \in Contents
           /\ wpc[w] # "write" => cur[w] = <<>>
  BY PositionParts DEF WTypeOK, CurMessage

(* An insert, applied or deduplicated, leaves the block in its table and   *)
(* takes none away.                                                        *)
LEMMA ApplyStores ==
    ASSUME WTypeOK, NEW w \in Writers, NEW t \in Tables, wpc[w] = "write", Apply(w, t),
           NEW m, m = CurMessage(w)
    PROVE  /\ DOMAIN blocks' = Tables
           /\ \A u \in Tables : blocks'[u] \in Seq(TokensOf[u])
           /\ \A u \in Tables : \A b : Stored(u, b) => Stored(u, b)'
           /\ Stored(t, Block(m, t))'
<1> DEFINE tok == Token(m, t, seed[w])
<1>1. tok \in TokensOf[t]
  <2>1. m \in Contents /\ seed[w] \in Seeds \union {0}
    BY CurType DEF WTypeOK
  <2>2. QED
    BY <2>1 DEF TokensOf
<1>2. tok[1] = Block(m, t)
  BY DEF Token
<1>3. blocks' = IF InWindow(t, tok) THEN blocks ELSE [blocks EXCEPT ![t] = Append(@, tok)]
  BY DEF Apply
<1> HIDE DEF tok
<1>4. blocks[t] \in Seq(TokensOf[t])
  BY DEF WTypeOK
<1>5. CASE InWindow(t, tok)
  <2>1. blocks' = blocks
    BY <1>3, <1>5
  <2>2. PICK i \in DOMAIN blocks[t] : blocks[t][i] = tok
    BY <1>5 DEF InWindow
  <2>3. QED
    BY <1>2, <2>1, <2>2 DEF Stored, WTypeOK
<1>6. CASE ~InWindow(t, tok)
  <2>1. blocks' = [blocks EXCEPT ![t] = Append(@, tok)]
    BY <1>3, <1>6
  <2>2. blocks'[t] = Append(blocks[t], tok) /\ DOMAIN blocks' = Tables
    BY <2>1 DEF WTypeOK
  <2>3. \A u \in Tables : u # t => blocks'[u] = blocks[u]
    BY <2>1 DEF WTypeOK
  <2>4. \A u \in Tables : blocks'[u] \in Seq(TokensOf[u])
    <3>1. ASSUME NEW T, tok \in T, blocks[t] \in Seq(T) PROVE blocks'[t] \in Seq(T)
      BY <2>2, <3>1
    <3>2. blocks'[t] \in Seq(TokensOf[t])
      BY <1>1, <1>4, <3>1
    <3>3. QED
      BY <2>3, <3>2 DEF WTypeOK
  <2>5. Stored(t, Block(m, t))'
    <3>1. Len(blocks[t]) + 1 \in DOMAIN blocks'[t] /\ blocks'[t][Len(blocks[t]) + 1] = tok
      BY <1>4, <2>2
    <3>2. QED
      BY <1>2, <3>1 DEF Stored
  <2>6. ASSUME NEW u \in Tables, NEW b, Stored(u, b) PROVE Stored(u, b)'
    <3>1. CASE u # t
      BY <2>3, <2>6, <3>1 DEF Stored
    <3>2. CASE u = t
      <4>1. PICK i \in DOMAIN blocks[t] : blocks[t][i][1] = b
        BY <2>6, <3>2 DEF Stored
      <4>2. i \in DOMAIN blocks'[t] /\ blocks'[t][i] = blocks[t][i]
        BY <1>4, <2>2, <4>1
      <4>3. QED
        BY <3>2, <4>1, <4>2 DEF Stored
    <3>3. QED
      BY <3>1, <3>2
  <2>7. QED
    BY <2>2, <2>4, <2>5, <2>6
<1>7. QED
  BY <1>5, <1>6

(* No block leaves a table, and the tables keep their type.                *)
LEMMA BlocksGrow ==
    ASSUME WTypeOK, [OpenNext]_swVars
    PROVE  /\ DOMAIN blocks' = Tables
           /\ \A u \in Tables : blocks'[u] \in Seq(TokensOf[u])
           /\ \A u \in Tables : \A b : Stored(u, b) => Stored(u, b)'
<1> DEFINE Grow == /\ DOMAIN blocks' = Tables
                   /\ \A u \in Tables : blocks'[u] \in Seq(TokensOf[u])
                   /\ \A u \in Tables : \A b : Stored(u, b) => Stored(u, b)'
<1>1. CASE blocks' = blocks
  BY <1>1 DEF WTypeOK, Stored
<1>2. ASSUME NEW w \in Writers, NEW t \in Tables, wpc[w] = "write", Apply(w, t) PROVE Grow
  BY <1>2, ApplyStores
<1>3. blocks' = blocks \/ \E w \in Writers, t \in Tables : wpc[w] = "write" /\ Apply(w, t)
  BY DEF OpenNext, WriterStep, swVars, MessageArrives, WStartFetching, WAssign, WRebalance, WReceive,
         Insert, InsertFails, WCommit, WCommitArrives, WCommitLost, Leave, ConsumerStops,
         WCrash, WRestart
<1>4. QED
  BY <1>1, <1>2, <1>3

(* Rows once durable stay so, and with them a durable prefix.              *)
LEMMA DurableStable ==
    ASSUME WTypeOK, [OpenNext]_swVars
    PROVE  /\ \A m : Durable(m) => Durable(m)'
           /\ \A n \in NormPartitions, o \in Nat : DurableUpTo(n, o) => DurableUpTo(n, o)'
<1>1. \A m : Durable(m) => Durable(m)'
  BY BlocksGrow DEF Durable, TablesOf
<1>2. ASSUME NEW n \in NormPartitions, NEW o \in Nat, DurableUpTo(n, o), NEW i \in 1..o
      PROVE  (i <= Len(normalized[n]) /\ Durable(normalized[n][i]))'
  <2>1. i \in 1..Len(normalized[n]) /\ Durable(normalized[n][i])
    BY <1>2 DEF DurableUpTo, WTypeOK
  <2>2. i <= Len(normalized'[n]) /\ normalized'[n][i] = normalized[n][i]
    BY <2>1, MessageStable
  <2>3. PICK m : m = normalized[n][i]
    OBVIOUS
  <2>4. Durable(m)'
    BY <1>1, <2>1, <2>3
  <2>5. QED
    BY <2>2, <2>3, <2>4
<1>3. QED
  BY <1>1, <1>2 DEF DurableUpTo

-----------------------------------------------------------------------------
(* WTypeOK is inductive: one step per action.  Only MessageArrives changes *)
(* the topic, and the tables are the matter of BlocksGrow.                 *)
LEMMA WTypeStep ==
    ASSUME WTypeOK, [OpenNext]_swVars
    PROVE  WTypeOK'
<1>1. DOMAIN blocks' = Tables /\ \A u \in Tables : blocks'[u] \in Seq(TokensOf[u])
  BY BlocksGrow
<1>2. WPositions \subseteq WPositions'
  BY PositionsGrow
<1>3. normalized' = normalized => WPositions' = WPositions
  BY DEF WPositions
<1>4. \A u \in Tables : TokensOf[u]' = TokensOf[u]
  OBVIOUS
<1>5. ASSUME NEW n \in NormPartitions, NEW m \in Contents, MessageArrives(n, m) PROVE WTypeOK'
  <2>1. normalized' \in [NormPartitions -> Seq(Contents)]
    BY <1>5 DEF MessageArrives, WTypeOK
  <2>2. UNCHANGED <<wowner, wcommitted, consumerVars, winflight, blocks, wfaults>>
    BY <1>5 DEF MessageArrives
  <2>3. winflight' \in [Writers -> Seq(WPositions')]
    BY <1>2, <2>2 DEF WTypeOK
  <2>4. cur' \in [Writers -> WPositions' \union {<<>>}]
    BY <1>2, <2>2 DEF WTypeOK, consumerVars
  <2>5. ASSUME NEW w \in Writers PROVE wpc'[w] = "write" <=> cur'[w] \in WPositions'
    <3>1. cur'[w] = cur[w] /\ wpc'[w] = wpc[w]
      BY <2>2 DEF consumerVars
    <3>2. <<>> \notin WPositions'
      BY DEF WPositions
    <3>3. QED
      BY <1>2, <3>1, <3>2 DEF WTypeOK
  <2>6. QED
    BY <1>1, <2>1, <2>2, <2>3, <2>4, <2>5 DEF WTypeOK, consumerVars
<1>6. ASSUME NEW w \in Writers, NEW n \in NormPartitions, WAssign(w, n) \/ WRebalance(w, n)
      PROVE  WTypeOK'
  <2>1. WStartFetching(w, n) /\ wfaults' \in Nat
    BY <1>6 DEF WAssign, WRebalance, WFault, WTypeOK
  <2>2. wowner' \in [NormPartitions -> Writers \union {NoWriter}]
    BY <2>1 DEF WStartFetching, WTypeOK
  <2>3. wpos' \in [Writers -> [NormPartitions -> Nat]]
    BY <2>1 DEF WStartFetching, WTypeOK
  <2>4. QED
    BY <1>3, <2>1, <2>2, <2>3 DEF WStartFetching, WTypeOK
<1>7. ASSUME NEW w \in Writers, NEW n \in NormPartitions, WReceive(w, n) PROVE WTypeOK'
  <2> DEFINE o == wpos[w][n] + 1
  <2>1. o \in 1..Len(normalized[n])
    BY <1>7 DEF WReceive, WTypeOK
  <2>2. <<n, o>> \in WPositions
    BY <2>1 DEF WPositions
  <2>3. WPositions' = WPositions
    BY <1>3, <1>7 DEF WReceive
  <2>4. cur' = [cur EXCEPT ![w] = <<n, o>>] /\ wpc' = [wpc EXCEPT ![w] = "write"]
    BY <1>7 DEF WReceive
  <2>5. cur' \in [Writers -> WPositions \union {<<>>}]
    BY <2>2, <2>4 DEF WTypeOK
  <2>6. wpc' \in [Writers -> {"down", "stopped", "recv", "write"}]
    BY <2>4 DEF WTypeOK
  <2>7. \A v \in Writers : wpc'[v] = "write" <=> cur'[v] \in WPositions
    BY <2>2, <2>4 DEF WTypeOK
  <2>8. wpos' \in [Writers -> [NormPartitions -> Nat]]
    BY <1>7, <2>1 DEF WReceive, WTypeOK
  <2>9. todo' \in [Writers -> SUBSET Tables]
    BY <1>7 DEF WReceive, WTypeOK, TablesOf
  <2>10. seed' \in [Writers -> Seeds \union {0}]
    BY <1>7 DEF WReceive, WTypeOK
  <2>11. UNCHANGED <<normalized, wowner, wcommitted, winflight, blocks, wfaults>>
    BY <1>7 DEF WReceive
  <2>12. QED
    BY <2>3, <2>5, <2>6, <2>7, <2>8, <2>9, <2>10, <2>11 DEF WTypeOK
<1>8. ASSUME NEW w \in Writers, NEW t \in Tables, Insert(w, t) PROVE WTypeOK'
  BY <1>1, <1>3, <1>8 DEF Insert, WTypeOK
<1>9. ASSUME NEW w \in Writers, NEW t \in Tables, InsertFails(w, t) PROVE WTypeOK'
  <2>1. todo' \in [Writers -> SUBSET Tables]
    BY <1>9 DEF InsertFails, WTypeOK, Tables
  <2>2. QED
    BY <1>1, <1>3, <1>9, <2>1 DEF InsertFails, WFault, WTypeOK
<1>10. ASSUME NEW w \in Writers, wpc'[w] # "write", wpc' = [wpc EXCEPT ![w] = wpc'[w]],
              cur' = [cur EXCEPT ![w] = <<>>], normalized' = normalized
       PROVE  /\ cur' \in [Writers -> WPositions' \union {<<>>}]
              /\ \A v \in Writers : wpc'[v] = "write" <=> cur'[v] \in WPositions'
  <2>1. <<>> \notin WPositions'
    BY DEF WPositions
  <2>2. QED
    BY <1>3, <1>10, <2>1 DEF WTypeOK
<1>11. ASSUME NEW w \in Writers, WCommit(w) PROVE WTypeOK'
  <2>1. cur[w] \in WPositions /\ WPositions' = WPositions
    BY <1>3, <1>11, CurType DEF WCommit
  <2>2. winflight' \in [Writers -> Seq(WPositions)]
    BY <1>11, <2>1 DEF WCommit, WTypeOK
  <2>3. wpc' \in [Writers -> {"down", "stopped", "recv", "write"}] /\ wpc'[w] = "recv"
    BY <1>11 DEF WCommit, WTypeOK
  <2>4. /\ cur' \in [Writers -> WPositions' \union {<<>>}]
        /\ \A v \in Writers : wpc'[v] = "write" <=> cur'[v] \in WPositions'
    BY <1>10, <1>11, <2>3 DEF WCommit
  <2>5. UNCHANGED <<normalized, wowner, wcommitted, wpos, seed, todo, blocks, wfaults>>
    BY <1>11 DEF WCommit
  <2>6. QED
    BY <2>1, <2>2, <2>3, <2>4, <2>5 DEF WTypeOK
<1>12. ASSUME NEW w \in Writers, winflight[w] # <<>>
       PROVE  /\ winflight[w][1] \in WPositions /\ Head(winflight[w]) = winflight[w][1]
              /\ [winflight EXCEPT ![w] = Tail(@)] \in [Writers -> Seq(WPositions)]
  BY <1>12 DEF WTypeOK
<1>13. ASSUME NEW w \in Writers, WCommitArrives(w) PROVE WTypeOK'
  <2>1. winflight[w][1][1] \in NormPartitions /\ winflight[w][1][2] \in Nat
    BY <1>12, <1>13, PositionParts DEF WCommitArrives
  <2>2. wcommitted' = [wcommitted EXCEPT ![winflight[w][1][1]] = winflight[w][1][2]]
    BY <1>12, <1>13 DEF WCommitArrives
  <2>3. wcommitted' \in [NormPartitions -> Nat]
    BY <2>1, <2>2 DEF WTypeOK
  <2>4. QED
    BY <1>3, <1>12, <1>13, <2>3 DEF WCommitArrives, WTypeOK, consumerVars
<1>14. ASSUME NEW w \in Writers, WCommitLost(w) PROVE WTypeOK'
  BY <1>3, <1>12, <1>14 DEF WCommitLost, WFault, WTypeOK, consumerVars
<1>15. ASSUME NEW w \in Writers, ConsumerStops(w) \/ WCrash(w) PROVE WTypeOK'
  <2>1. /\ wpc' \in [Writers -> {"down", "stopped", "recv", "write"}]
        /\ wpc'[w] # "write" /\ wpc' = [wpc EXCEPT ![w] = wpc'[w]]
    BY <1>15 DEF ConsumerStops, WCrash, WTypeOK
  <2>2. Leave(w)
    BY <1>15 DEF ConsumerStops, WCrash
  <2>3. /\ cur' \in [Writers -> WPositions' \union {<<>>}]
        /\ \A v \in Writers : wpc'[v] = "write" <=> cur'[v] \in WPositions'
    BY <1>10, <2>1, <2>2 DEF Leave
  <2>4. QED
    BY <1>3, <2>1, <2>2, <2>3 DEF Leave, WFault, WTypeOK
<1>16. ASSUME NEW w \in Writers, WRestart(w) PROVE WTypeOK'
  BY <1>3, <1>16 DEF WRestart, WTypeOK
<1>17. CASE UNCHANGED swVars
  BY <1>3, <1>17 DEF swVars, WTypeOK
<1>18. QED
  BY <1>5, <1>6, <1>7, <1>8, <1>9, <1>11, <1>13, <1>14, <1>15, <1>16, <1>17 DEF OpenNext, WriterStep

(* The type invariant behind any producer.                                 *)
LEMMA WTypeAlways == OpenSpec => []WTypeOK
<1>1. Init => WTypeOK
  <2> SUFFICES ASSUME Init PROVE WTypeOK
    OBVIOUS
  <2>1. WPositions = {}
    BY DEF Init, WPositions
  <2>2. QED
    BY <2>1, StorageWriterAssumption DEF Init, WInit, WTypeOK, NoPositions
<1>2. WTypeOK /\ [OpenNext]_swVars => WTypeOK'
  BY WTypeStep
<1>3. QED
  BY <1>1, <1>2, PTL DEF OpenSpec

(* Every value that the variables take has its type.                       *)
THEOREM WTypeCorrect == Spec => []WTypeOK
  BY SpecIsOpen, WTypeAlways, PTL

-----------------------------------------------------------------------------
(* A message with no table left to do is durable, and all before it.       *)
LEMMA WrittenDurable ==
    ASSUME WTypeOK, WriteInv, NEW w \in Writers, wpc[w] = "write", todo[w] = {}
    PROVE  DurableUpTo(cur[w][1], cur[w][2])
<1>1. /\ cur[w][1] \in NormPartitions
      /\ cur[w][2] \in 1..Len(normalized[cur[w][1]])
      /\ cur[w][2] \in Nat \ {0}
  BY CurType, PositionParts
<1>2. DurableUpTo(cur[w][1], cur[w][2] - 1)
  BY DEF WriteInv
<1>3. Durable(normalized[cur[w][1]][cur[w][2]])
  BY DEF WriteInv, CurMessage, Durable
<1>4. ASSUME NEW i \in 1..cur[w][2]
      PROVE  i <= Len(normalized[cur[w][1]]) /\ Durable(normalized[cur[w][1]][i])
  <2>1. CASE i = cur[w][2]
    BY <1>1, <1>3, <2>1
  <2>2. CASE i # cur[w][2]
    BY <1>1, <1>2, <2>2 DEF DurableUpTo
  <2>3. QED
    BY <2>1, <2>2
<1>5. QED
  BY <1>4 DEF DurableUpTo

(* What another writer, or a step that is neither a receive nor a          *)
(* successful insert, leaves of the message in a writer's hands.           *)
LEMMA WritingKept ==
    ASSUME WTypeOK, [OpenNext]_swVars, NEW w \in Writers, wpc'[w] = "write",
           \A n \in NormPartitions : ~WReceive(w, n), \A t \in Tables : ~Insert(w, t)
    PROVE  wpc[w] = "write" /\ cur'[w] = cur[w] /\ todo[w] \subseteq todo'[w]
<1> DEFINE Kept == wpc[w] = "write" /\ cur'[w] = cur[w] /\ todo[w] \subseteq todo'[w]
<1>1. CASE UNCHANGED <<wpc, cur, todo>>
  BY <1>1
<1>2. ASSUME NEW v \in Writers, v # w, WriterStep(v) PROVE Kept
  <2>1. wpc'[w] = wpc[w]
    BY <1>2 DEF WTypeOK, WriterStep, WStartFetching, WAssign, WRebalance, WReceive, Insert,
           InsertFails, WCommit, WCommitArrives, WCommitLost, ConsumerStops, WCrash,
           WRestart, consumerVars
  <2>2. cur'[w] = cur[w] /\ todo'[w] = todo[w]
    BY <1>2 DEF WTypeOK, WriterStep, WStartFetching, WAssign, WRebalance, WReceive, Insert,
           InsertFails, WCommit, WCommitArrives, WCommitLost, Leave, ConsumerStops, WCrash,
           WRestart, consumerVars
  <2>3. QED
    BY <2>1, <2>2
<1>3. ASSUME NEW t \in Tables, InsertFails(w, t) PROVE Kept
  BY <1>3 DEF InsertFails, WTypeOK
<1>4. ASSUME WCommit(w) \/ ConsumerStops(w) \/ WCrash(w) \/ WRestart(w) PROVE FALSE
  BY <1>4 DEF WCommit, ConsumerStops, WCrash, WRestart, WTypeOK
<1>5. ASSUME WriterStep(w) PROVE Kept
  BY <1>1, <1>3, <1>4, <1>5 DEF WriterStep, WStartFetching, WAssign, WRebalance,
         WCommitArrives, WCommitLost, consumerVars
<1>6. CASE UNCHANGED swVars \/ \E n \in NormPartitions, m \in Contents : MessageArrives(n, m)
  BY <1>1, <1>6 DEF swVars, MessageArrives, consumerVars
<1>7. QED
  BY <1>2, <1>5, <1>6 DEF OpenNext

(* What remains of an owner's position when it neither receives, nor       *)
(* commits, nor is assigned the partition anew.                            *)
LEMMA PassedKept ==
    ASSUME WTypeOK, [OpenNext]_swVars, NEW w \in Writers, NEW n \in NormPartitions, wowner'[n] = w,
           ~WAssign(w, n), ~WRebalance(w, n), \A x \in NormPartitions : ~WReceive(w, x),
           ~WCommit(w)
    PROVE  /\ wowner[n] = w /\ wpos'[w][n] = wpos[w][n] /\ cur'[w] = cur[w]
           /\ wpc'[w] = wpc[w] \/ WRestart(w)
<1> DEFINE Kept == /\ wowner[n] = w /\ wpos'[w][n] = wpos[w][n] /\ cur'[w] = cur[w]
                   /\ wpc'[w] = wpc[w] \/ WRestart(w)
<1>1. CASE UNCHANGED <<wowner, wpos, wpc, cur>>
  BY <1>1
<1>2. ASSUME NEW v \in Writers, NEW x \in NormPartitions, WAssign(v, x) \/ WRebalance(v, x)
      PROVE  Kept
  <2>1. /\ wowner' = [wowner EXCEPT ![x] = v] /\ wpos' = [wpos EXCEPT ![v][x] = wcommitted[x]]
        /\ UNCHANGED <<wpc, cur>>
    BY <1>2 DEF WAssign, WRebalance, WStartFetching
  <2>2. x # n
    BY <1>2, <2>1 DEF WTypeOK
  <2>3. QED
    BY <2>1, <2>2 DEF WTypeOK
<1>3. ASSUME NEW v \in Writers, NEW x \in NormPartitions, WReceive(v, x) PROVE Kept
  <2>1. v # w
    BY <1>3
  <2>2. QED
    BY <1>3, <2>1 DEF WReceive, WTypeOK
<1>4. ASSUME NEW v \in Writers, WCommit(v) PROVE Kept
  <2>1. v # w
    BY <1>4
  <2>2. QED
    BY <1>4, <2>1 DEF WCommit, WTypeOK
<1>5. ASSUME NEW v \in Writers, ConsumerStops(v) \/ WCrash(v) PROVE Kept
  <2>1. v # w /\ wowner[n] = w
    BY <1>5, StorageWriterAssumption DEF ConsumerStops, WCrash, Leave, WTypeOK
  <2>2. QED
    BY <1>5, <2>1 DEF ConsumerStops, WCrash, Leave, WTypeOK
<1>6. ASSUME NEW v \in Writers, WRestart(v) PROVE Kept
  BY <1>6 DEF WRestart, WTypeOK
<1>7. ASSUME NEW v \in Writers, WriterStep(v) PROVE Kept
  BY <1>1, <1>2, <1>3, <1>4, <1>5, <1>6, <1>7 DEF WriterStep, Insert, InsertFails,
         WCommitArrives, WCommitLost, consumerVars
<1>8. CASE UNCHANGED swVars \/ \E x \in NormPartitions, m \in Contents : MessageArrives(x, m)
  BY <1>1, <1>8 DEF swVars, MessageArrives, consumerVars
<1>9. QED
  BY <1>7, <1>8 DEF OpenNext

(* The pending requests of a writer: unchanged, one fewer, or one more for *)
(* the message that it has just finished.                                  *)
LEMMA WRequestKept ==
    ASSUME WTypeOK, [OpenNext]_swVars, NEW w \in Writers
    PROVE  \/ winflight'[w] = winflight[w]
           \/ winflight[w] # <<>> /\ winflight'[w] = Tail(winflight[w])
           \/ wpc[w] = "write" /\ todo[w] = {} /\ winflight'[w] = Append(winflight[w], cur[w])
<1>1. CASE winflight' = winflight
  BY <1>1
<1>2. ASSUME NEW v \in Writers, WCommit(v) \/ WCommitArrives(v) \/ WCommitLost(v)
      PROVE  \/ winflight'[w] = winflight[w]
             \/ winflight[w] # <<>> /\ winflight'[w] = Tail(winflight[w])
             \/ wpc[w] = "write" /\ todo[w] = {} /\ winflight'[w] = Append(winflight[w], cur[w])
  BY <1>2 DEF WCommit, WCommitArrives, WCommitLost, WTypeOK
<1>3. QED
  BY <1>1, <1>2 DEF OpenNext, WriterStep, swVars, MessageArrives, WStartFetching, WAssign, WRebalance,
         WReceive, Insert, InsertFails, Leave, ConsumerStops, WCrash, WRestart

(* A committed offset only changes to that of a pending request.           *)
LEMMA WCommittedKept ==
    ASSUME WTypeOK, [OpenNext]_swVars, NEW n \in NormPartitions
    PROVE  \/ wcommitted'[n] = wcommitted[n]
           \/ \E w \in Writers : /\ winflight[w] # <<>>
                                  /\ winflight[w][1] = <<n, wcommitted'[n]>>
<1>1. ASSUME NEW w \in Writers, WCommitArrives(w)
      PROVE  \/ wcommitted'[n] = wcommitted[n]
             \/ winflight[w] # <<>> /\ winflight[w][1] = <<n, wcommitted'[n]>>
  <2>1. winflight[w] # <<>> /\ Head(winflight[w]) = winflight[w][1] /\ winflight[w][1] \in WPositions
    BY <1>1 DEF WCommitArrives, WTypeOK
  <2>2. wcommitted' = [wcommitted EXCEPT ![winflight[w][1][1]] = winflight[w][1][2]]
    BY <1>1, <2>1 DEF WCommitArrives
  <2>3. winflight[w][1] = <<winflight[w][1][1], winflight[w][1][2]>>
    BY <2>1, PositionParts
  <2>4. CASE winflight[w][1][1] = n
    <3>1. wcommitted'[n] = winflight[w][1][2]
      BY <2>2, <2>4 DEF WTypeOK
    <3>2. QED
      BY <2>1, <2>3, <2>4, <3>1
  <2>5. CASE winflight[w][1][1] # n
    BY <2>2, <2>5 DEF WTypeOK
  <2>6. QED
    BY <2>4, <2>5
<1>2. CASE wcommitted' = wcommitted
  BY <1>2
<1>3. QED
  BY <1>1, <1>2 DEF OpenNext, WriterStep, swVars, MessageArrives, WStartFetching, WAssign, WRebalance,
         WReceive, Insert, InsertFails, WCommit, WCommitLost, Leave, ConsumerStops, WCrash, WRestart

(* StorageInv is inductive: one step per conjunct.                         *)
LEMMA StorageInductive ==
    ASSUME WTypeOK, StorageInv, [OpenNext]_swVars
    PROVE  StorageInv'
<1> USE DEF StorageInv
<1>1. WTypeOK'
  BY WTypeStep
<1>2. \A n \in NormPartitions, o \in Nat : DurableUpTo(n, o) => DurableUpTo(n, o)'
  BY DurableStable
<1>3. \A u \in Tables : \A b : Stored(u, b) => Stored(u, b)'
  BY BlocksGrow
<1>4. \A n \in NormPartitions : DurableUpTo(n, 0)'
  BY DEF DurableUpTo
<1>5. WriteInv'
  <2> SUFFICES ASSUME NEW w \in Writers, wpc'[w] = "write"
               PROVE  /\ DurableUpTo(cur[w][1], cur[w][2] - 1)'
                      /\ (\A t \in TablesOf(CurMessage(w)) \ todo[w] :
                              Stored(t, Block(CurMessage(w), t)))'
    BY DEF WriteInv
  <2>1. ASSUME NEW n \in NormPartitions, WReceive(w, n)
        PROVE  /\ DurableUpTo(cur[w][1], cur[w][2] - 1)'
               /\ (\A t \in TablesOf(CurMessage(w)) \ todo[w] :
                       Stored(t, Block(CurMessage(w), t)))'
    <3>1. /\ cur'[w] = <<n, wpos[w][n] + 1>> /\ wpos[w][n] \in Nat
          /\ todo'[w] = TablesOf(normalized[n][wpos[w][n] + 1])
          /\ normalized' = normalized /\ wowner[n] = w /\ wpc[w] = "recv"
      BY <2>1 DEF WReceive, WTypeOK
    <3>2. cur[w] = <<>>
      BY <3>1, CurType
    <3>3. PICK o \in Nat : o = wpos[w][n]
      BY <3>1
    <3>4. DurableUpTo(n, o)
      BY <3>1, <3>2, <3>3 DEF PassedInv
    <3>5. DurableUpTo(n, o)'
      BY <1>2, <3>4
    <3>6. cur'[w][1] = n /\ cur'[w][2] - 1 = o
      BY <3>1, <3>3
    <3>7. DurableUpTo(cur[w][1], cur[w][2] - 1)'
      BY <3>5, <3>6
    <3>8. CurMessage(w)' = normalized[n][wpos[w][n] + 1]
      BY <3>1 DEF CurMessage
    <3>9. TablesOf(CurMessage(w))' = todo'[w]
      BY <3>1, <3>8
    <3>10. QED
      BY <3>7, <3>9
  <2>2. ASSUME wpc[w] = "write", cur'[w] = cur[w]
        PROVE  /\ DurableUpTo(cur[w][1], cur[w][2] - 1)'
               /\ CurMessage(w)' = CurMessage(w)
               /\ CurMessage(w) \in Contents
               /\ \A t \in TablesOf(CurMessage(w)) \ todo[w] : Stored(t, Block(CurMessage(w), t))
    <3>1. /\ cur[w][1] \in NormPartitions
          /\ cur[w][2] \in 1..Len(normalized[cur[w][1]]) /\ cur[w][2] - 1 \in Nat
      BY <2>2, CurType, PositionParts
    <3>2. PICK n \in NormPartitions, o \in Nat : n = cur[w][1] /\ o = cur[w][2] - 1
      BY <3>1
    <3>3. DurableUpTo(n, o)'
      BY <1>2, <2>2, <3>2 DEF WriteInv
    <3>4. DurableUpTo(cur[w][1], cur[w][2] - 1)'
      BY <2>2, <3>2, <3>3
    <3>5. CurMessage(w)' = CurMessage(w) /\ CurMessage(w) \in Contents
      BY <2>2, <3>1, MessageStable DEF CurMessage
    <3>6. QED
      BY <2>2, <3>4, <3>5 DEF WriteInv
  <2>3. ASSUME NEW t \in Tables, Insert(w, t)
        PROVE  /\ DurableUpTo(cur[w][1], cur[w][2] - 1)'
               /\ (\A u \in TablesOf(CurMessage(w)) \ todo[w] :
                       Stored(u, Block(CurMessage(w), u)))'
    <3>1. /\ wpc[w] = "write" /\ cur'[w] = cur[w] /\ Apply(w, t)
          /\ todo'[w] = todo[w] \ {t}
      BY <2>3 DEF Insert, WTypeOK
    <3>2. PICK m : m = CurMessage(w)
      OBVIOUS
    <3>3. Stored(t, Block(m, t))'
      BY <3>1, <3>2, ApplyStores
    <3>4. CurMessage(w)' = m
      BY <2>2, <3>1, <3>2
    <3>5. ASSUME NEW u \in TablesOf(m) \ todo'[w] PROVE Stored(u, Block(m, u))'
      <4>1. u \in Tables
        BY DEF TablesOf
      <4>2. CASE u = t
        BY <3>3, <4>2
      <4>3. CASE u # t
        <5>1. Stored(u, Block(m, u))
          BY <2>2, <3>1, <3>2, <3>5, <4>3
        <5>2. QED
          BY <1>3, <4>1, <5>1
      <4>4. QED
        BY <4>2, <4>3
    <3>6. QED
      BY <2>2, <3>1, <3>4, <3>5
  <2>4. CASE (\A n \in NormPartitions : ~WReceive(w, n)) /\ \A t \in Tables : ~Insert(w, t)
    <3>1. wpc[w] = "write" /\ cur'[w] = cur[w] /\ todo[w] \subseteq todo'[w]
      BY <2>4, WritingKept
    <3>2. PICK m : m = CurMessage(w)
      OBVIOUS
    <3>3. CurMessage(w)' = m
      BY <2>2, <3>1, <3>2
    <3>4. ASSUME NEW u \in TablesOf(m) \ todo'[w] PROVE Stored(u, Block(m, u))'
      <4>1. u \in Tables
        BY DEF TablesOf
      <4>2. Stored(u, Block(m, u))
        BY <2>2, <3>1, <3>2, <3>4
      <4>3. QED
        BY <1>3, <4>1, <4>2
    <3>5. QED
      BY <2>2, <3>1, <3>3, <3>4
  <2>5. QED
    BY <2>1, <2>3, <2>4
<1>6. PassedInv'
  <2> SUFFICES ASSUME NEW w \in Writers, NEW n \in NormPartitions, wowner'[n] = w
               PROVE  /\ wpc'[w] \in {"recv", "write"}
                      /\ \/ DurableUpTo(n, wpos[w][n])'
                         \/ cur'[w] = <<n, wpos'[w][n]>>
    BY DEF PassedInv
  <2> DEFINE Goal == /\ wpc'[w] \in {"recv", "write"}
                     /\ \/ DurableUpTo(n, wpos[w][n])'
                        \/ cur'[w] = <<n, wpos'[w][n]>>
  <2>1. wpos[w][n] \in Nat /\ wcommitted[n] \in Nat
    BY DEF WTypeOK
  <2>2. ASSUME NEW o \in Nat, DurableUpTo(n, o), wpos'[w][n] = o PROVE DurableUpTo(n, wpos[w][n])'
    <3>1. DurableUpTo(n, o)'
      BY <1>2, <2>2
    <3>2. QED
      BY <2>2, <3>1
  <2>3. CASE WAssign(w, n) \/ WRebalance(w, n)
    <3>1. wpos'[w][n] = wcommitted[n] /\ wpc'[w] \in {"recv", "write"}
      BY <2>3 DEF WAssign, WRebalance, WStartFetching, WTypeOK
    <3>2. QED
      BY <2>1, <2>2, <3>1 DEF CommittedImpliesStored
  <2>4. ASSUME NEW x \in NormPartitions, WReceive(w, x) PROVE Goal
    <3>1. /\ wpc'[w] = "write" /\ wowner' = wowner /\ cur'[w] = <<x, wpos'[w][x]>>
          /\ x # n => wpos'[w][n] = wpos[w][n]
          /\ wpc[w] = "recv"
      BY <2>4 DEF WReceive, WTypeOK
    <3>2. CASE x = n
      BY <3>1, <3>2
    <3>3. CASE x # n
      <4>1. cur[w] = <<>>
        BY <3>1, CurType
      <4>2. DurableUpTo(n, wpos[w][n])
        BY <3>1, <4>1 DEF PassedInv
      <4>3. QED
        BY <2>1, <2>2, <3>1, <3>3, <4>2
    <3>4. QED
      BY <3>2, <3>3
  <2>5. CASE WCommit(w)
    <3>1. /\ wpc[w] = "write" /\ todo[w] = {} /\ wpc'[w] = "recv"
          /\ wpos' = wpos /\ wowner' = wowner
      BY <2>5 DEF WCommit, WTypeOK
    <3>2. DurableUpTo(cur[w][1], cur[w][2])
      BY <3>1, WrittenDurable
    <3>3. DurableUpTo(n, wpos[w][n])
      <4>1. CASE cur[w] = <<n, wpos[w][n]>>
        BY <3>2, <4>1
      <4>2. CASE cur[w] # <<n, wpos[w][n]>>
        BY <3>1, <4>2 DEF PassedInv
      <4>3. QED
        BY <4>1, <4>2
    <3>4. QED
      BY <2>1, <2>2, <3>1, <3>3
  <2>6. CASE /\ ~WAssign(w, n) /\ ~WRebalance(w, n) /\ ~WCommit(w)
             /\ \A x \in NormPartitions : ~WReceive(w, x)
    <3>1. /\ wowner[n] = w /\ wpos'[w][n] = wpos[w][n] /\ cur'[w] = cur[w]
          /\ wpc'[w] = wpc[w] \/ WRestart(w)
      BY <2>6, PassedKept
    <3>2. wpc[w] \in {"recv", "write"}
      BY <3>1 DEF PassedInv
    <3>3. wpc'[w] \in {"recv", "write"}
      BY <3>1, <3>2 DEF WRestart
    <3>4. QED
      BY <2>1, <2>2, <3>1, <3>3 DEF PassedInv
  <2>7. QED
    BY <2>3, <2>4, <2>5, <2>6
<1>7. WRequestInv'
  <2> SUFFICES ASSUME NEW w \in Writers, NEW i \in DOMAIN winflight'[w]
               PROVE  DurableUpTo(winflight[w][i][1], winflight[w][i][2])'
    BY DEF WRequestInv
  <2>1. winflight[w] \in Seq(WPositions)
    BY DEF WTypeOK
  <2>2. ASSUME NEW x \in WPositions, DurableUpTo(x[1], x[2]), winflight'[w][i] = x
        PROVE  DurableUpTo(winflight[w][i][1], winflight[w][i][2])'
    <3>1. x[1] \in NormPartitions /\ x[2] \in Nat
      BY PositionParts
    <3>2. DurableUpTo(x[1], x[2])'
      BY <1>2, <2>2, <3>1
    <3>3. QED
      BY <2>2, <3>2
  <2>3. CASE winflight'[w] = winflight[w]
    <3>1. i \in DOMAIN winflight[w] /\ winflight[w][i] \in WPositions
      BY <2>1, <2>3
    <3>2. QED
      BY <2>2, <2>3, <3>1 DEF WRequestInv
  <2>4. CASE winflight[w] # <<>> /\ winflight'[w] = Tail(winflight[w])
    <3>1. /\ i + 1 \in DOMAIN winflight[w] /\ winflight'[w][i] = winflight[w][i + 1]
          /\ winflight[w][i + 1] \in WPositions
      BY <2>1, <2>4
    <3>2. QED
      BY <2>2, <3>1 DEF WRequestInv
  <2>5. CASE wpc[w] = "write" /\ todo[w] = {} /\ winflight'[w] = Append(winflight[w], cur[w])
    <3>1. CASE i \in DOMAIN winflight[w]
      <4>1. winflight'[w][i] = winflight[w][i] /\ winflight[w][i] \in WPositions
        BY <2>1, <2>5, <3>1
      <4>2. QED
        BY <2>2, <3>1, <4>1 DEF WRequestInv
    <3>2. CASE i \notin DOMAIN winflight[w]
      <4>1. winflight'[w][i] = cur[w]
        BY <2>1, <2>5, <3>2
      <4>2. cur[w] \in WPositions /\ DurableUpTo(cur[w][1], cur[w][2])
        BY <2>5, CurType, WrittenDurable
      <4>3. QED
        BY <2>2, <4>1, <4>2
    <3>3. QED
      BY <3>1, <3>2
  <2>6. QED
    BY <2>3, <2>4, <2>5, WRequestKept
<1>8. CommittedImpliesStored'
  <2> SUFFICES ASSUME NEW n \in NormPartitions PROVE DurableUpTo(n, wcommitted[n])'
    BY DEF CommittedImpliesStored
  <2>1. PICK o \in Nat : o = wcommitted'[n]
    BY <1>1 DEF WTypeOK
  <2>2. DurableUpTo(n, o)
    <3>1. CASE wcommitted'[n] = wcommitted[n]
      BY <2>1, <3>1 DEF CommittedImpliesStored
    <3>2. ASSUME NEW w \in Writers, winflight[w] # <<>>, winflight[w][1] = <<n, wcommitted'[n]>>
          PROVE  DurableUpTo(n, o)
      <4>1. 1 \in DOMAIN winflight[w]
        BY <3>2 DEF WTypeOK
      <4>2. QED
        BY <2>1, <3>2, <4>1 DEF WRequestInv
    <3>3. QED
      BY <3>1, <3>2, WCommittedKept
  <2>3. DurableUpTo(n, o)'
    BY <1>2, <2>2
  <2>4. QED
    BY <2>1, <2>2, <2>3
<1>9. QED
  BY <1>5, <1>6, <1>7, <1>8

(* The invariants that the theorems rest on hold throughout.               *)
LEMMA StorageInvariant == OpenSpec => [](WTypeOK /\ StorageInv)
<1>1. Init => StorageInv
  <2> SUFFICES ASSUME Init PROVE StorageInv
    OBVIOUS
  <2>1. WriteInv /\ WRequestInv
    BY DEF Init, WInit, WriteInv, WRequestInv
  <2>2. PassedInv
    BY StorageWriterAssumption DEF Init, WInit, PassedInv
  <2>3. CommittedImpliesStored
    BY DEF Init, WInit, CommittedImpliesStored, NoPositions, DurableUpTo
  <2>4. QED
    BY <2>1, <2>2, <2>3 DEF StorageInv
<1>2. WTypeOK /\ StorageInv /\ [OpenNext]_swVars => StorageInv'
  BY StorageInductive
<1>3. QED
  BY <1>1, <1>2, WTypeAlways, PTL DEF OpenSpec

(* No committed loss, for any number of writers, partitions, messages and  *)
(* faults: a message below a committed offset of telemetry.normalized.v1   *)
(* has all its rows in ClickHouse.                                         *)
THEOREM StorageSafe == Spec => []CommittedImpliesStored
<1>1. StorageInv => CommittedImpliesStored
  BY DEF StorageInv
<1>2. QED
  BY <1>1, SpecIsOpen, StorageInvariant, PTL

-----------------------------------------------------------------------------
(* A message is published, or a commit arrives, or rows may be inserted:   *)
(* never two of them at once.                                              *)
LEMMA WOneEffect ==
    ASSUME [OpenNext]_swVars
    PROVE  \/ /\ \E n \in NormPartitions, m \in Contents :
                    normalized' = [normalized EXCEPT ![n] = Append(@, m)]
              /\ UNCHANGED <<blocks, wcommitted>>
           \/ UNCHANGED <<normalized, blocks>>
           \/ UNCHANGED <<normalized, wcommitted>>
  BY DEF OpenNext, WriterStep, swVars, MessageArrives, WStartFetching, WAssign, WRebalance, WReceive,
         Insert, InsertFails, WCommit, WCommitArrives, WCommitLost, Leave, ConsumerStops,
         WCrash, WRestart

(* With the same blocks in ClickHouse the same messages are durable.       *)
LEMMA DurableSame ==
    ASSUME UNCHANGED blocks, NEW m
    PROVE  Durable(m)' <=> Durable(m)
  BY DEF Durable, Stored, TablesOf

(* Storage-writer implements AtLeastOnce with durable rows as the effect.  *)
THEOREM StorageRefines == Spec => WDeliverySpec
<1>1. Init => WDelivery!Init
  BY DEF Init, WInit, WDelivery!Init, DurableMessages, WPositions, NoPositions
<1>2. ASSUME WTypeOK, StorageInv, [OpenNext]_swVars
      PROVE  [WDelivery!Next]_(WDelivery!vars)
  <2>1. WTypeOK' /\ StorageInv'
    BY <1>2, WTypeStep, StorageInductive
  <2>2. ASSUME NEW n \in NormPartitions, NEW m \in Contents,
               normalized' = [normalized EXCEPT ![n] = Append(@, m)], UNCHANGED <<blocks, wcommitted>>
        PROVE  WDelivery!Produce(n, m)
    <3> DEFINE new == <<n, Len(normalized[n]) + 1>>
    <3>1. \A q \in NormPartitions : /\ normalized[q] \in Seq(Contents)
                                    /\ q # n => normalized'[q] = normalized[q]
      BY <1>2, <2>2 DEF WTypeOK
    <3>2. normalized'[n] = Append(normalized[n], m) /\ Len(normalized'[n]) = Len(normalized[n]) + 1
      BY <1>2, <2>2 DEF WTypeOK
    <3>3. WPositions' = WPositions \union {new}
      BY <3>1, <3>2 DEF WPositions
    <3>4. \A x \in WPositions : normalized'[x[1]][x[2]] = normalized[x[1]][x[2]]
      BY <3>1, <3>2 DEF WPositions
    <3>5. \A x \in WPositions : x \in DurableMessages' <=> x \in DurableMessages
      BY <2>2, <3>3, <3>4, DurableSame DEF DurableMessages
    <3>6. DurableMessages \subseteq WPositions /\ DurableMessages' \subseteq WPositions'
      BY DEF DurableMessages
    <3>7. DurableMessages' \in {DurableMessages, DurableMessages \union {new}}
      BY <3>3, <3>5, <3>6
    <3>8. QED
      BY <2>2, <3>7 DEF WDelivery!Produce
  <2>3. CASE UNCHANGED <<normalized, blocks>>
    <3>1. DurableMessages' = DurableMessages
      BY <2>3, DurableSame DEF DurableMessages, WPositions
    <3>2. wcommitted' \in [NormPartitions -> Nat]
      BY <2>1 DEF WTypeOK
    <3>3. ASSUME NEW n \in NormPartitions, NEW o \in 1..wcommitted'[n]
          PROVE  WDelivery!Settled(n, o)
      <4>1. (o <= Len(normalized[n]) /\ Durable(normalized[n][o]))'
        BY <2>1, <3>3 DEF StorageInv, CommittedImpliesStored, DurableUpTo
      <4>2. o <= Len(normalized[n]) /\ Durable(normalized[n][o])
        BY <2>3, <4>1, DurableSame
      <4>3. o \in 1..Len(normalized[n])
        BY <1>2, <3>2, <3>3, <4>2 DEF WTypeOK
      <4>4. <<n, o>> \in WPositions
        BY <4>3 DEF WPositions
      <4>5. QED
        BY <4>2, <4>4 DEF WDelivery!Settled, DurableMessages
    <3>4. QED
      BY <2>3, <3>1, <3>2, <3>3 DEF WDelivery!Next, WDelivery!Commit
  <2>4. CASE UNCHANGED <<normalized, wcommitted>>
    <3>1. WPositions' = WPositions
      BY <2>4 DEF WPositions
    <3>2. DurableMessages \subseteq DurableMessages'
      BY <1>2, <2>4, <3>1, DurableStable DEF DurableMessages
    <3>3. DurableMessages' \subseteq WDelivery!Records
      BY <2>4 DEF DurableMessages, WPositions, WDelivery!Records
    <3>4. QED
      BY <2>4, <3>2, <3>3 DEF WDelivery!Next, WDelivery!Perform
  <2>5. QED
    BY <1>2, <2>2, <2>3, <2>4, WOneEffect DEF WDelivery!Next
<1>3. QED
  BY <1>1, <1>2, SpecIsOpen, StorageInvariant, PTL DEF OpenSpec, WDeliverySpec, WDelivery!Spec
-----------------------------------------------------------------------------
(* What Append does to a sequence.                                         *)
LEMMA AppendedEnd ==
    ASSUME NEW E, NEW s \in Seq(E), NEW e \in E
    PROVE  /\ Append(s, e) \in Seq(E) /\ Len(Append(s, e)) = Len(s) + 1
           /\ Append(s, e)[Len(s) + 1] = e
           /\ \A k \in DOMAIN s : k \in DOMAIN Append(s, e) /\ Append(s, e)[k] = s[k]
  OBVIOUS

(* The loop that copies the rows of a table, up to any place.              *)
Copies(batch, t, n, f) ==
    f = [i \in 0..n |-> IF i = 0 THEN <<>>
                        ELSE IF HasRow(batch[i], t) THEN Append(f[i - 1], batch[i])
                        ELSE f[i - 1]]

(* The loop has a value after any number of rows, by induction on the number. *)
LEMMA CopiesExist ==
    ASSUME NEW batch, NEW t, NEW n \in Nat
    PROVE  \E f : Copies(batch, t, n, f)
<1> DEFINE S == {k \in Nat : \E f : Copies(batch, t, k, f)}
<1>1. 0 \in S
  <2> DEFINE f == [i \in 0..0 |-> <<>>]
  <2>1. Copies(batch, t, 0, f)
    BY DEF Copies
  <2>2. QED
    BY <2>1
<1>2. ASSUME NEW k \in S PROVE k + 1 \in S
  <2>1. PICK f : Copies(batch, t, k, f)
    OBVIOUS
  <2> DEFINE last == IF HasRow(batch[k + 1], t) THEN Append(f[k], batch[k + 1]) ELSE f[k]
             g == [i \in 0..(k + 1) |-> IF i = k + 1 THEN last ELSE f[i]]
  <2>2. \A i \in 0..k : g[i] = f[i]
    OBVIOUS
  <2>3. ASSUME NEW i \in 0..k
        PROVE  g[i] = IF i = 0 THEN <<>>
                      ELSE IF HasRow(batch[i], t) THEN Append(g[i - 1], batch[i])
                      ELSE g[i - 1]
    <3>1. i # 0 => i - 1 \in 0..k
      OBVIOUS
    <3>2. f[i] = IF i = 0 THEN <<>>
                 ELSE IF HasRow(batch[i], t) THEN Append(f[i - 1], batch[i])
                 ELSE f[i - 1]
      BY <2>1 DEF Copies
    <3> HIDE DEF g
    <3>3. QED
      BY <2>2, <3>1, <3>2
  <2>4. g[k + 1] = IF HasRow(batch[k + 1], t) THEN Append(g[k], batch[k + 1]) ELSE g[k]
    BY <2>2
  <2>5. DOMAIN g = 0..(k + 1) /\ g = [i \in 0..(k + 1) |-> g[i]]
    OBVIOUS
  <2> HIDE DEF g
  <2>6. Copies(batch, t, k + 1, g)
    <3> SUFFICES ASSUME NEW i \in 0..(k + 1)
                 PROVE  g[i] = IF i = 0 THEN <<>>
                               ELSE IF HasRow(batch[i], t) THEN Append(g[i - 1], batch[i])
                               ELSE g[i - 1]
      BY <2>5 DEF Copies
    <3>1. i \in 0..k \/ i = k + 1
      OBVIOUS
    <3>2. QED
      BY <2>3, <2>4, <3>1
  <2>7. QED
    BY <2>6
<1> HIDE DEF S
<1>3. S = Nat
  <2>1. S \in SUBSET Nat
    BY DEF S
  <2>2. QED
    BY <1>1, <1>2, <2>1, NatSets
<1>4. QED
  BY <1>3 DEF S

(* What the recursion computes: its last value is the rows of the table.   *)
LEMMA RowsForCopies ==
    ASSUME NEW batch, NEW t, Len(batch) \in Nat
    PROVE  \E f : Copies(batch, t, Len(batch), f) /\ RowsFor(batch, t) = f[Len(batch)]
<1> DEFINE f == CHOOSE f : Copies(batch, t, Len(batch), f)
<1>1. Copies(batch, t, Len(batch), f)
  BY CopiesExist
<1>2. RowsFor(batch, t) = f[Len(batch)]
  BY DEF RowsFor, Copies
<1>3. QED
  BY <1>1, <1>2

(* The rows of a table are a sequence of the envelopes that have a row     *)
(* there, and every such envelope of the batch is among them.              *)
LEMMA RowsForMembers ==
    ASSUME NEW E, NEW batch \in Seq(E), NEW t
    PROVE  /\ RowsFor(batch, t) \in Seq(E)
           /\ \A i \in DOMAIN batch : HasRow(batch[i], t) =>
                 \E k \in DOMAIN RowsFor(batch, t) : RowsFor(batch, t)[k] = batch[i]
           /\ \A k \in DOMAIN RowsFor(batch, t) :
                 \E i \in DOMAIN batch :
                    RowsFor(batch, t)[k] = batch[i] /\ HasRow(batch[i], t)
<1>1. PICK f : Copies(batch, t, Len(batch), f) /\ RowsFor(batch, t) = f[Len(batch)]
  BY RowsForCopies
<1> DEFINE Good(n) ==
       /\ f[n] \in Seq(E)
       /\ \A i \in 1..n : HasRow(batch[i], t) => \E k \in DOMAIN f[n] : f[n][k] = batch[i]
       /\ \A k \in DOMAIN f[n] : \E i \in 1..n : f[n][k] = batch[i] /\ HasRow(batch[i], t)
<1> DEFINE S == {n \in Nat : n <= Len(batch) => Good(n)}
<1>2. \A n \in 0..Len(batch) :
         f[n] = IF n = 0 THEN <<>>
                ELSE IF HasRow(batch[n], t) THEN Append(f[n - 1], batch[n])
                ELSE f[n - 1]
  BY <1>1 DEF Copies
<1>3. 0 \in S
  <2>1. 0 \in 0..Len(batch)
    OBVIOUS
  <2>2. f[0] = <<>>
    BY <1>2, <2>1
  <2>3. f[0] \in Seq(E) /\ DOMAIN f[0] = {}
    BY <2>2
  <2>4. Good(0)
    BY <2>3
  <2>5. QED
    BY <2>4
<1>4. ASSUME NEW n \in S PROVE n + 1 \in S
  <2> SUFFICES ASSUME n + 1 <= Len(batch) PROVE Good(n + 1)
    OBVIOUS
  <2>1. Good(n) /\ n + 1 \in 1..Len(batch) /\ batch[n + 1] \in E
    OBVIOUS
  <2>2. f[n + 1] = IF HasRow(batch[n + 1], t) THEN Append(f[n], batch[n + 1]) ELSE f[n]
    BY <1>2, <2>1
  <2>3. CASE ~HasRow(batch[n + 1], t)
    <3>1. f[n + 1] = f[n]
      BY <2>2, <2>3
    <3>2. \A i \in 1..(n + 1) : i \in 1..n \/ i = n + 1
      OBVIOUS
    <3>3. QED
      BY <2>1, <2>3, <3>1, <3>2
  <2>4. CASE HasRow(batch[n + 1], t)
    <3>1. /\ f[n + 1] = Append(f[n], batch[n + 1])
          /\ f[n + 1] \in Seq(E) /\ Len(f[n + 1]) = Len(f[n]) + 1
          /\ f[n + 1][Len(f[n]) + 1] = batch[n + 1]
          /\ \A k \in DOMAIN f[n] : k \in DOMAIN f[n + 1] /\ f[n + 1][k] = f[n][k]
      <4>1. f[n + 1] = Append(f[n], batch[n + 1])
        BY <2>2, <2>4
      <4>2. f[n] \in Seq(E) /\ batch[n + 1] \in E
        BY <2>1
      <4>3. QED
        BY <4>1, <4>2, AppendedEnd
    <3>2. ASSUME NEW i \in 1..(n + 1), HasRow(batch[i], t)
          PROVE  \E k \in DOMAIN f[n + 1] : f[n + 1][k] = batch[i]
      <4>1. CASE i = n + 1
        <5>1. Len(f[n]) + 1 \in DOMAIN f[n + 1]
          BY <2>1, <3>1
        <5>2. QED
          BY <3>1, <4>1, <5>1
      <4>2. CASE i \in 1..n
        BY <2>1, <3>1, <3>2, <4>2
      <4>3. QED
        BY <4>1, <4>2
    <3>3. ASSUME NEW k \in DOMAIN f[n + 1]
          PROVE  \E i \in 1..(n + 1) : f[n + 1][k] = batch[i] /\ HasRow(batch[i], t)
      <4>1. CASE k = Len(f[n]) + 1
        BY <2>1, <2>4, <3>1, <4>1
      <4>2. CASE k \in DOMAIN f[n]
        <5>1. PICK i \in 1..n : f[n][k] = batch[i] /\ HasRow(batch[i], t)
          BY <2>1, <4>2
        <5>2. f[n + 1][k] = batch[i] /\ i \in 1..(n + 1)
          BY <3>1, <4>2, <5>1
        <5>3. QED
          BY <5>1, <5>2
      <4>3. k = Len(f[n]) + 1 \/ k \in DOMAIN f[n]
        BY <2>1, <3>1, <3>3
      <4>4. QED
        BY <4>1, <4>2, <4>3
    <3>4. QED
      BY <3>1, <3>2, <3>3
  <2>5. QED
    BY <2>3, <2>4
<1>5. S = Nat
  <2> HIDE DEF S
  <2>1. S \in SUBSET Nat
    BY DEF S
  <2>2. QED
    BY <1>3, <1>4, <2>1, NatSets
<1>6. Good(Len(batch))
  <2>1. Len(batch) \in S
    BY <1>5
  <2>2. QED
    BY <2>1
<1>7. DOMAIN batch = 1..Len(batch)
  OBVIOUS
<1> HIDE DEF S
<1>8. PICK rows : rows = RowsFor(batch, t)
  OBVIOUS
<1>9. /\ rows \in Seq(E)
      /\ \A i \in 1..Len(batch) : HasRow(batch[i], t) => \E k \in DOMAIN rows : rows[k] = batch[i]
      /\ \A k \in DOMAIN rows : \E i \in 1..Len(batch) : rows[k] = batch[i] /\ HasRow(batch[i], t)
  BY <1>1, <1>6, <1>8
<1>10. QED
  BY <1>7, <1>8, <1>9
(* No envelope with a row is left out.                                     *)
LEMMA RowsForAll ==
    ASSUME NEW E, NEW batch \in Seq(E), NEW t, NEW i \in DOMAIN batch, HasRow(batch[i], t)
    PROVE  \E k \in DOMAIN RowsFor(batch, t) : RowsFor(batch, t)[k] = batch[i]
<1>1. /\ RowsFor(batch, t) \in Seq(E)
      /\ \A x \in DOMAIN batch : HasRow(batch[x], t) =>
            \E k \in DOMAIN RowsFor(batch, t) : RowsFor(batch, t)[k] = batch[x]
      /\ \A k \in DOMAIN RowsFor(batch, t) :
            \E x \in DOMAIN batch : RowsFor(batch, t)[k] = batch[x] /\ HasRow(batch[x], t)
  BY RowsForMembers
<1>2. QED
  BY <1>1

-----------------------------------------------------------------------------
(* A table changes by the insert of a writer that has the table to do.     *)
LEMMA TablesGrow ==
    ASSUME [OpenNext]_swVars
    PROVE  \/ blocks' = blocks
           \/ \E w \in Writers, t \in Tables : wpc[w] = "write" /\ Due(w, t) /\ Apply(w, t)
  BY DEF OpenNext, WriterStep, swVars, MessageArrives, WStartFetching, WAssign, WRebalance, WReceive,
         Insert, InsertFails, WCommit, WCommitArrives, WCommitLost, Leave, ConsumerStops,
         WCrash, WRestart

(* What an insert does to a table: nothing, or one block more whose token  *)
(* none of the last Window blocks has.                                     *)
LEMMA ApplyAppends ==
    ASSUME WTypeOK, NEW w \in Writers, NEW t \in Tables, Apply(w, t)
    PROVE  \/ blocks' = blocks
           \/ \E tok : /\ tok = Token(CurMessage(w), t, seed[w])
                       /\ blocks' = [blocks EXCEPT ![t] = Append(blocks[t], tok)]
                       /\ \A i \in DOMAIN blocks[t] :
                             i + Window > Len(blocks[t]) => blocks[t][i] # tok
  BY DEF Apply, InWindow

(* EventInv is inductive, with what WriteInv says of the message in hand.  *)
LEMMA EventStep ==
    ASSUME WTypeOK, WriteInv, EventInv, [OpenNext]_swVars
    PROVE  EventInv'
<1>1. ASSUME NEW i \in DOMAIN blocks["span_events"],
             blocks'["span_events"][i] = blocks["span_events"][i]
      PROVE  \E m \in Contents :
                /\ blocks'["span_events"][i][1] = Block(m, "span_events")
                /\ "spans" \in TablesOf(m) => Stored("spans", Block(m, "spans"))'
  <2>1. PICK m \in Contents :
           /\ blocks["span_events"][i][1] = Block(m, "span_events")
           /\ "spans" \in TablesOf(m) => Stored("spans", Block(m, "spans"))
    BY DEF EventInv
  <2>2. "spans" \in TablesOf(m) => Stored("spans", Block(m, "spans"))'
    BY <2>1, BlocksGrow DEF Tables
  <2>3. QED
    BY <1>1, <2>1, <2>2
<1>2. CASE blocks'["span_events"] = blocks["span_events"]
  BY <1>1, <1>2 DEF EventInv, TablesOf
<1>3. ASSUME NEW w \in Writers, NEW t \in Tables, wpc[w] = "write", Due(w, t), Apply(w, t),
             blocks'["span_events"] # blocks["span_events"]
      PROVE  EventInv'
  <2>1. PICK tok : /\ tok = Token(CurMessage(w), t, seed[w])
                   /\ blocks' = [blocks EXCEPT ![t] = Append(blocks[t], tok)]
    BY <1>3, ApplyAppends
  <2>2. t = "span_events" /\ blocks'["span_events"] = Append(blocks["span_events"], tok)
    BY <1>3, <2>1 DEF WTypeOK
  <2>3. PICK m \in Contents : m = CurMessage(w)
    BY <1>3, CurType
  <2>4. tok[1] = Block(m, "span_events")
    BY <2>1, <2>2, <2>3 DEF Token
  <2>5. "spans" \notin todo[w]
    BY <1>3, <2>2 DEF Due, Stage
  <2>6. "spans" \in TablesOf(m) => Stored("spans", Block(m, "spans"))
    BY <1>3, <2>3, <2>5 DEF WriteInv
  <2>7. "spans" \in TablesOf(m) => Stored("spans", Block(m, "spans"))'
    BY <2>6, BlocksGrow DEF Tables
  <2>8. blocks["span_events"] \in Seq(TokensOf["span_events"])
    BY DEF WTypeOK, Tables
  <2>9. ASSUME NEW i \in DOMAIN blocks'["span_events"]
        PROVE  \E mm \in Contents :
                  /\ blocks'["span_events"][i][1] = Block(mm, "span_events")
                  /\ "spans" \in TablesOf(mm) => Stored("spans", Block(mm, "spans"))'
    <3>1. CASE i \in DOMAIN blocks["span_events"]
      <4>1. blocks'["span_events"][i] = blocks["span_events"][i]
        BY <2>2, <2>8, <3>1
      <4>2. QED
        BY <1>1, <3>1, <4>1
    <3>2. CASE i \notin DOMAIN blocks["span_events"]
      <4>1. blocks'["span_events"][i] = tok
        BY <2>2, <2>8, <2>9, <3>2
      <4>2. QED
        BY <2>4, <2>7, <4>1
    <3>3. QED
      BY <3>1, <3>2
  <2>10. QED
    BY <2>9 DEF EventInv, TablesOf
<1>4. QED
  BY <1>2, <1>3, TablesGrow

(* Every row of an event is a row of a span of the same message.           *)
LEMMA EventRows ==
    ASSUME WTypeOK, EventInv
    PROVE  EventsFollowSpans
<1> SUFFICES ASSUME NEW i \in DOMAIN blocks["span_events"],
                    NEW k \in DOMAIN blocks["span_events"][i][1].rows
             PROVE  \E j \in DOMAIN blocks["spans"] : \E l \in DOMAIN blocks["spans"][j][1].rows :
                       blocks["spans"][j][1].rows[l] = blocks["span_events"][i][1].rows[k]
  BY DEF EventsFollowSpans
<1>1. PICK m \in Contents : /\ blocks["span_events"][i][1] = Block(m, "span_events")
                            /\ "spans" \in TablesOf(m) => Stored("spans", Block(m, "spans"))
  BY DEF EventInv
<1>2. PICK E : m.envs \in Seq(E)
  BY StorageWriterAssumption
<1>3. /\ Block(m, "span_events").rows = RowsFor(m.envs, "span_events")
      /\ Block(m, "spans").rows = RowsFor(m.envs, "spans")
  BY DEF Block
<1>4. PICK x \in DOMAIN m.envs :
         RowsFor(m.envs, "span_events")[k] = m.envs[x] /\ HasRow(m.envs[x], "span_events")
  BY <1>1, <1>2, <1>3, RowsForMembers
<1>5. HasRow(m.envs[x], "spans")
  BY <1>4 DEF HasRow
<1>6. "spans" \in TablesOf(m)
  BY <1>5 DEF TablesOf, HasBlock, Tables
<1>7. PICK j \in DOMAIN blocks["spans"] : blocks["spans"][j][1] = Block(m, "spans")
  BY <1>1, <1>6 DEF Stored
<1>8. PICK l \in DOMAIN RowsFor(m.envs, "spans") : RowsFor(m.envs, "spans")[l] = m.envs[x]
  BY <1>2, <1>4, <1>5, RowsForAll
<1>9. k \in DOMAIN Block(m, "span_events").rows
  BY <1>1
<1>10. blocks["span_events"][i][1].rows[k] = m.envs[x]
  BY <1>1, <1>3, <1>4
<1>11. l \in DOMAIN blocks["spans"][j][1].rows /\ blocks["spans"][j][1].rows[l] = m.envs[x]
  BY <1>3, <1>7, <1>8
<1>12. QED
  BY <1>10, <1>11

(* An event row never appears before the row of its span, whatever insert  *)
(* failed, was retried or was cut short, for any number of writers.        *)
THEOREM EventsAfterSpans == Spec => []EventsFollowSpans
<1>1. Init => EventInv
  BY DEF Init, WInit, EventInv, Tables
<1>2. WTypeOK /\ StorageInv /\ EventInv /\ [OpenNext]_swVars => EventInv'
  BY EventStep DEF StorageInv
<1>3. WTypeOK /\ EventInv => EventsFollowSpans
  BY EventRows
<1>4. QED
  BY <1>1, <1>2, <1>3, SpecIsOpen, StorageInvariant, PTL DEF OpenSpec

-----------------------------------------------------------------------------
(* Two blocks of a table with one token lie more than a window apart.      *)
TokenOnce ==
    \A t \in Tables : \A i, j \in DOMAIN blocks[t] :
        i < j /\ j <= i + Window => blocks[t][i] # blocks[t][j]

(* ClickHouse keeps it so: a block is taken only if none in the window has *)
(* its token.                                                              *)
LEMMA TokenStep ==
    ASSUME WTypeOK, TokenOnce, [OpenNext]_swVars
    PROVE  TokenOnce'
<1> SUFFICES ASSUME NEW t \in Tables, NEW i \in DOMAIN blocks'[t], NEW j \in DOMAIN blocks'[t],
                    i < j, j <= i + Window
             PROVE  blocks'[t][i] # blocks'[t][j]
  BY DEF TokenOnce
<1>1. CASE blocks'[t] = blocks[t]
  BY <1>1 DEF TokenOnce
<1>2. ASSUME NEW w \in Writers, NEW u \in Tables, Apply(w, u), blocks'[t] # blocks[t]
      PROVE  blocks'[t][i] # blocks'[t][j]
  <2>1. PICK tok : /\ tok = Token(CurMessage(w), u, seed[w])
                   /\ blocks' = [blocks EXCEPT ![u] = Append(blocks[u], tok)]
                   /\ \A k \in DOMAIN blocks[u] :
                         k + Window > Len(blocks[u]) => blocks[u][k] # tok
    BY <1>2, ApplyAppends
  <2>2. u = t /\ blocks'[t] = Append(blocks[t], tok)
    <3>1. DOMAIN blocks = Tables
      BY DEF WTypeOK
    <3>2. QED
      BY <1>2, <2>1, <3>1
  <2>3. blocks[t] \in Seq(TokensOf[t]) /\ Window \in Nat
    BY StorageWriterAssumption DEF WTypeOK
  <2>4. i \in DOMAIN blocks[t] /\ blocks'[t][i] = blocks[t][i]
    <3>1. i \in 1..(Len(blocks[t]) + 1) /\ j \in 1..(Len(blocks[t]) + 1)
      <4>1. PICK T : blocks[t] \in Seq(T) /\ tok \in T
        <5>1. blocks[t] \in Seq(TokensOf[t] \union {tok})
          BY <2>3
        <5>2. QED
          BY <5>1
      <4>2. Len(Append(blocks[t], tok)) = Len(blocks[t]) + 1 /\ Append(blocks[t], tok) \in Seq(T)
        BY <4>1
      <4>3. QED
        BY <2>2, <4>2
    <3>2. i \in 1..Len(blocks[t])
      BY <2>3, <3>1
    <3>3. QED
      BY <2>2, <2>3, <3>2
  <2>5. CASE j \in DOMAIN blocks[t]
    <3>1. blocks'[t][j] = blocks[t][j]
      BY <2>2, <2>3, <2>5
    <3>2. QED
      BY <2>4, <2>5, <3>1 DEF TokenOnce
  <2>6. CASE j \notin DOMAIN blocks[t]
    <3>1. j = Len(blocks[t]) + 1 /\ blocks'[t][j] = tok
      BY <2>2, <2>3, <2>6
    <3>2. i + Window > Len(blocks[t])
      BY <2>3, <2>4, <3>1
    <3>3. QED
      BY <2>1, <2>2, <2>4, <3>1, <3>2
  <2>7. QED
    BY <2>5, <2>6
<1>3. QED
  BY <1>1, <1>2, TablesGrow

(* A metric point's token is its block's, however often it is read again.  *)
LEMMA PointTokens ==
    ASSUME WTypeOK, NEW i \in DOMAIN blocks["metric_points"]
    PROVE  blocks["metric_points"][i] = <<blocks["metric_points"][i][1], 0>>
<1>1. blocks["metric_points"][i] \in TokensOf["metric_points"]
  BY DEF WTypeOK, Tables
<1>2. PICK m \in Contents, s \in Seeds \union {0} :
         blocks["metric_points"][i] = Token(m, "metric_points", s)
  BY <1>1 DEF TokensOf, Tables
<1>3. QED
  BY <1>2 DEF Token, OrderSensitive

(* A message that is delivered or inserted again leaves no second copy of  *)
(* its metric points within the deduplication window, whatever failed.     *)
THEOREM PointsOnce == Spec => []PointsStoredOnce
<1>1. Init => TokenOnce
  BY DEF Init, WInit, TokenOnce
<1>2. WTypeOK /\ TokenOnce /\ [OpenNext]_swVars => TokenOnce'
  BY TokenStep
<1>3. ASSUME WTypeOK, TokenOnce PROVE PointsStoredOnce
  BY <1>3, PointTokens DEF TokenOnce, PointsStoredOnce, StoredOnce, Tables
<1>4. QED
  BY <1>1, <1>2, <1>3, SpecIsOpen, WTypeAlways, PTL DEF OpenSpec
==============================================================================
