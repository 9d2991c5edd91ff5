---------------------------- MODULE StorageWriter ----------------------------
(***************************************************************************)
(* services/storage-writer: the consumer group "storage-writer" reads      *)
(* telemetry.normalized.v1, one message at a time, hands its rows to the   *)
(* flush loops of WriteBuffer, waits until ClickHouse has them, and only   *)
(* then commits the offset.                                                *)
(*                                                                         *)
(* NormalizedConsumer::run awaits the acknowledgement of every part before *)
(* it goes on, so a flush loop never holds rows of two messages: the block *)
(* a loop inserts is exactly one message's rows for that table.            *)
(***************************************************************************)
EXTENDS Telemetry, FiniteSets

CONSTANTS
    Writers,         \* replicas of storage-writer
    NormPartitions,  \* partitions of telemetry.normalized.v1
    NoWriter,        \* owner of a partition that is not assigned
    Contents,        \* the messages that the producers publish
    WithEvents,      \* span envelopes whose spans carry events
    MultiAttr,       \* envelopes with a row of two or more attributes
    Seeds,           \* iteration orders of a deserialised attribute map
    Window,          \* non_replicated_deduplication_window
    MaxMessages,     \* bound: messages per partition
    MaxWriterFaults  \* bound: crashes, failed inserts, receive errors, ...

ASSUME StorageWriterAssumption ==
    /\ NoWriter \notin Writers
    /\ \A m \in Contents : m.envs \in Seq({m.envs[i] : i \in DOMAIN m.envs})
    /\ Seeds \subseteq Nat /\ Seeds # {}
    /\ Window \in Nat
    /\ MaxMessages \in Nat
    /\ MaxWriterFaults \in Nat

VARIABLES
    normalized,    \* [NormPartitions -> Seq(message)], the input topic
    wowner,        \* group assignment of each partition
    wcommitted,    \* offset committed by the group, per partition
    wpc,           \* "down", "stopped", or where a writer is in run
    wpos,          \* fetch position of a writer in each partition
    cur,           \* <<partition, offset>> of the message being written, or <<>>
    seed,          \* order in which its attribute maps are iterated
    todo,          \* tables into which its rows have yet to be inserted
    winflight,     \* asynchronous commit requests not yet at the broker
    blocks,        \* [Tables -> Seq(token)], blocks visible in ClickHouse
    wfaults        \* faults so far

consumerVars == <<wpc, wpos, cur, seed, todo>>
swVars == <<normalized, wowner, wcommitted, wpc, wpos, cur, seed, todo,
            winflight, blocks, wfaults>>

Tables  == {"spans", "span_events", "logs", "metric_series", "metric_points"}

(* Mutant: the events are inserted before their spans.                     *)
StageEventsFirst(t) == CASE t = "span_events" -> 1 [] t = "spans" -> 2 [] t = "logs" -> 3 [] OTHER -> 4

(***************************************************************************)
(* insert_spans inserts spans and then their events, run sends spans, then *)
(* logs, then metrics, and flush_metrics inserts series and points at the  *)
(* same time.                                                              *)
(***************************************************************************)
Stage(t) == CASE t = "spans" -> 1 [] t = "span_events" -> 2 [] t = "logs" -> 3 [] OTHER -> 4

(* Whether an envelope of a message has rows for a table.                  *)
HasRow(e, t) ==
    CASE t = "spans"       -> e.kind = "spans"
      [] t = "span_events" -> e.kind = "spans" /\ e \in WithEvents
      [] t = "logs"        -> e.kind = "logs"
      [] OTHER             -> e.kind = "metrics"

(***************************************************************************)
(* merge_batch: rows of each payload kind, in the order of the batch; the  *)
(* rows of a table are copied from them.  A recursive function, whose      *)
(* result can be reasoned about.                                           *)
(***************************************************************************)
RowsFor(batch, t) ==
    LET copied[i \in 0..Len(batch)] ==
            IF i = 0 THEN <<>>
            ELSE IF HasRow(batch[i], t) THEN Append(copied[i - 1], batch[i])
            ELSE copied[i - 1]
    IN  copied[Len(batch)]

(***************************************************************************)
(* The block of a message for a table.  A series row has no time and no    *)
(* value: the blocks of two span-metrics flushes differ in metric_points   *)
(* only.                                                                   *)
(***************************************************************************)
Block(m, t) ==
    [rows  |-> RowsFor(m.envs, t),
     calls |-> CASE t = "metric_points" -> m.calls
                 [] t = "metric_series" /\ m.calls > 0 -> 1
                 [] OTHER -> 0,
     stamp |-> IF t = "metric_points" THEN m.stamp ELSE 0]

HasBlock(m, t) ==
    \/ \E i \in DOMAIN m.envs : HasRow(m.envs[i], t)
    \/ m.calls > 0 /\ t \in {"metric_series", "metric_points"}

(* A message that cannot be parsed has no rows, and is committed as such.  *)
TablesOf(m) == {t \in Tables : HasBlock(m, t)}

(***************************************************************************)
(* batch_deduplication_token hashes the rows as they serialise.  The       *)
(* attributes of spans, events, logs and series are HashMaps written in    *)
(* iteration order, which differs from one deserialisation of a message to *)
(* the next as soon as a map has two keys; points carry no attributes.     *)
(***************************************************************************)
OrderSensitive(b, t) ==
    /\ t # "metric_points"
    /\ b.calls > 0 \/ \E i \in DOMAIN b.rows : b.rows[i] \in MultiAttr

(* Mutant: the token depends on the delivery for every table.              *)
TokenPerDelivery(m, t, s) == <<Block(m, t), s>>

Token(m, t, s) ==
    LET b == Block(m, t) IN <<b, IF OrderSensitive(b, t) THEN s ELSE 0>>

(* ClickHouse drops a block whose token is among the last Window tokens.   *)
InWindow(t, tok) ==
    \E i \in DOMAIN blocks[t] : i + Window > Len(blocks[t]) /\ blocks[t][i] = tok

Stored(t, b) == \E i \in DOMAIN blocks[t] : blocks[t][i][1] = b

-----------------------------------------------------------------------------
NoPositions == [n \in NormPartitions |-> 0]

WInit ==
    /\ wowner = [n \in NormPartitions |-> NoWriter]
    /\ wcommitted = NoPositions
    /\ wpc = [w \in Writers |-> "recv"]
    /\ wpos = [w \in Writers |-> NoPositions]
    /\ cur = [w \in Writers |-> <<>>]
    /\ seed = [w \in Writers |-> 0]
    /\ todo = [w \in Writers |-> {}]
    /\ winflight = [w \in Writers |-> <<>>]
    /\ blocks = [t \in Tables |-> <<>>]
    /\ wfaults = 0

WFault == wfaults < MaxWriterFaults /\ wfaults' = wfaults + 1

(* Mutant: a new member starts at the end of the partition.                *)
WStartFetchingLatest(w, n) ==
    /\ wpc[w] \in {"recv", "write"}
    /\ wowner' = [wowner EXCEPT ![n] = w]
    /\ wpos' = [wpos EXCEPT ![w][n] = Len(normalized[n])]
    /\ UNCHANGED <<normalized, wcommitted, wpc, cur, seed, todo, winflight, blocks>>

(***************************************************************************)
(* The broker assigns partitions to members that are in the group.  A      *)
(* writer whose partition is taken away finishes the message it is writing *)
(* and commits it all the same.                                            *)
(***************************************************************************)
WStartFetching(w, n) ==
    /\ wpc[w] \in {"recv", "write"}
    /\ wowner' = [wowner EXCEPT ![n] = w]
    /\ wpos' = [wpos EXCEPT ![w][n] = wcommitted[n]]
    /\ UNCHANGED <<normalized, wcommitted, wpc, cur, seed, todo, winflight, blocks>>

WAssign(w, n) ==
    /\ wowner[n] = NoWriter
    /\ WStartFetching(w, n)
    /\ UNCHANGED wfaults

WRebalance(w, n) ==
    /\ wowner[n] # NoWriter
    /\ WStartFetching(w, n)
    /\ WFault

-----------------------------------------------------------------------------
(* Mutant: the offset is committed on receipt, as with auto-commit.        *)
WReceiveCommits(w, n) ==
    /\ wpc[w] = "recv" /\ wowner[n] = w /\ wpos[w][n] < Len(normalized[n])
    /\ LET o == wpos[w][n] + 1
       IN  /\ wpos' = [wpos EXCEPT ![w][n] = o]
           /\ cur' = [cur EXCEPT ![w] = <<n, o>>]
           /\ todo' = [todo EXCEPT ![w] = TablesOf(normalized[n][o])]
           /\ winflight' = [winflight EXCEPT ![w] = Append(@, <<n, o>>)]
    /\ \E s \in Seeds : seed' = [seed EXCEPT ![w] = s]
    /\ wpc' = [wpc EXCEPT ![w] = "write"]
    /\ UNCHANGED <<normalized, wowner, wcommitted, blocks, wfaults>>

(***************************************************************************)
(* NormalizedConsumer::run receives and deserialises one message.          *)
(***************************************************************************)
WReceive(w, n) ==
    /\ wpc[w] = "recv"
    /\ wowner[n] = w
    /\ wpos[w][n] < Len(normalized[n])
    /\ LET o == wpos[w][n] + 1
       IN  /\ wpos' = [wpos EXCEPT ![w][n] = o]
           /\ cur' = [cur EXCEPT ![w] = <<n, o>>]
           /\ todo' = [todo EXCEPT ![w] = TablesOf(normalized[n][o])]
    /\ \E s \in Seeds : seed' = [seed EXCEPT ![w] = s]
    /\ wpc' = [wpc EXCEPT ![w] = "write"]
    /\ UNCHANGED <<normalized, wowner, wcommitted, winflight, blocks, wfaults>>

CurMessage(w) == normalized[cur[w][1]][cur[w][2]]

Due(w, t) == t \in todo[w] /\ \A u \in todo[w] : Stage(t) <= Stage(u)

(* ClickHouse takes the block unless it has its token in the window.       *)
Apply(w, t) ==
    LET tok == Token(CurMessage(w), t, seed[w])
    IN  blocks' = IF InWindow(t, tok) THEN blocks
                  ELSE [blocks EXCEPT ![t] = Append(@, tok)]

(* A flush loop's insert succeeds.                                         *)
Insert(w, t) ==
    /\ wpc[w] = "write"
    /\ Due(w, t)
    /\ todo' = [todo EXCEPT ![w] = @ \ {t}]
    /\ Apply(w, t)
    /\ UNCHANGED <<normalized, wowner, wcommitted, wpc, wpos, cur, seed, winflight, wfaults>>

(* Mutant: rows whose insert failed are dropped.                           *)
InsertGivesUp(w, t) ==
    /\ wpc[w] = "write" /\ Due(w, t)
    /\ Apply(w, t) \/ UNCHANGED blocks
    /\ todo' = [todo EXCEPT ![w] = @ \ {t}]
    /\ WFault
    /\ UNCHANGED <<normalized, wowner, wcommitted, wpc, wpos, cur, seed, winflight>>

(***************************************************************************)
(* The insert reports an error, ClickHouse may have applied it or not.     *)
(* retry_until_success starts again on a clone of the rows; for the events *)
(* of spans that is insert_spans as a whole.                               *)
(***************************************************************************)
InsertFails(w, t) ==
    /\ wpc[w] = "write"
    /\ Due(w, t)
    /\ Apply(w, t) \/ UNCHANGED blocks
    /\ todo' = [todo EXCEPT ![w] = IF t = "span_events" THEN @ \union {"spans"} ELSE @]
    /\ WFault
    /\ UNCHANGED <<normalized, wowner, wcommitted, wpc, wpos, cur, seed, winflight>>

(* Mutant: the commit does not wait for the acknowledgements.              *)
WCommitsUnacked(w) ==
    /\ wpc[w] = "write"
    /\ winflight' = [winflight EXCEPT ![w] = Append(@, cur[w])]
    /\ cur' = [cur EXCEPT ![w] = <<>>]
    /\ todo' = [todo EXCEPT ![w] = {}]
    /\ wpc' = [wpc EXCEPT ![w] = "recv"]
    /\ UNCHANGED <<normalized, wowner, wcommitted, wpos, seed, blocks, wfaults>>

(* Mutant: the message stays in hand after its commit.                     *)
WCommitsKeepingMessage(w) ==
    /\ wpc[w] = "write"
    /\ todo[w] = {}
    /\ winflight' = [winflight EXCEPT ![w] = Append(@, cur[w])]
    /\ wpc' = [wpc EXCEPT ![w] = "recv"]
    /\ UNCHANGED <<normalized, wowner, wcommitted, wpos, cur, seed, todo, blocks, wfaults>>

(* Mutant: what arrived while the message was written is passed over.      *)
WCommitSkipsBacklog(w) ==
    /\ wpc[w] = "write"
    /\ todo[w] = {}
    /\ winflight' = [winflight EXCEPT ![w] = Append(@, cur[w])]
    /\ wpos' = [wpos EXCEPT ![w] = [n \in NormPartitions |-> Len(normalized[n])]]
    /\ cur' = [cur EXCEPT ![w] = <<>>]
    /\ wpc' = [wpc EXCEPT ![w] = "recv"]
    /\ UNCHANGED <<normalized, wowner, wcommitted, seed, todo, blocks, wfaults>>

(* Every part is acknowledged: commit asynchronously and receive again.    *)
WCommit(w) ==
    /\ wpc[w] = "write"
    /\ todo[w] = {}
    /\ winflight' = [winflight EXCEPT ![w] = Append(@, cur[w])]
    /\ cur' = [cur EXCEPT ![w] = <<>>]
    /\ wpc' = [wpc EXCEPT ![w] = "recv"]
    /\ UNCHANGED <<normalized, wowner, wcommitted, wpos, seed, todo, blocks, wfaults>>

WCommitArrives(w) ==
    /\ winflight[w] # <<>>
    /\ wcommitted' = [wcommitted EXCEPT ![Head(winflight[w])[1]] = Head(winflight[w])[2]]
    /\ winflight' = [winflight EXCEPT ![w] = Tail(@)]
    /\ UNCHANGED <<normalized, wowner, consumerVars, blocks, wfaults>>

WCommitLost(w) ==
    /\ winflight[w] # <<>>
    /\ winflight' = [winflight EXCEPT ![w] = Tail(@)]
    /\ WFault
    /\ UNCHANGED <<normalized, wowner, wcommitted, consumerVars, blocks>>

-----------------------------------------------------------------------------
Leave(w) ==
    /\ wowner' = [n \in NormPartitions |-> IF wowner[n] = w THEN NoWriter ELSE wowner[n]]
    /\ cur' = [cur EXCEPT ![w] = <<>>]
    /\ todo' = [todo EXCEPT ![w] = {}]
    /\ WFault
    /\ UNCHANGED <<normalized, wcommitted, wpos, seed, winflight, blocks>>

(***************************************************************************)
(* recv returns an error, of any kind, or a commit cannot be enqueued: run *)
(* returns, main's task logs that the consumer stopped, and the process    *)
(* stays up and ready without it.                                          *)
(***************************************************************************)
ConsumerStops(w) ==
    /\ wpc[w] = "recv" \/ (wpc[w] = "write" /\ todo[w] = {})
    /\ wpc' = [wpc EXCEPT ![w] = "stopped"]
    /\ Leave(w)

WCrash(w) ==
    /\ wpc[w] # "down"
    /\ wpc' = [wpc EXCEPT ![w] = "down"]
    /\ Leave(w)

WRestart(w) ==
    /\ wpc[w] = "down"
    /\ wpc' = [wpc EXCEPT ![w] = "recv"]
    /\ UNCHANGED <<normalized, wowner, wcommitted, wpos, cur, seed, todo, winflight,
                   blocks, wfaults>>

-----------------------------------------------------------------------------
WriterStep(w) ==
    \/ \E n \in NormPartitions : WAssign(w, n) \/ WRebalance(w, n) \/ WReceive(w, n)
    \/ \E t \in Tables : Insert(w, t) \/ InsertFails(w, t)
    \/ WCommit(w)
    \/ WCommitArrives(w)
    \/ WCommitLost(w)
    \/ ConsumerStops(w)
    \/ WCrash(w)
    \/ WRestart(w)

(* A message is added to the topic by whoever publishes there.             *)
MessageArrives(n, m) ==
    /\ normalized' = [normalized EXCEPT ![n] = Append(@, m)]
    /\ UNCHANGED <<wowner, wcommitted, consumerVars, winflight, blocks, wfaults>>

(* Stream-processor's side, when this component is studied alone.          *)
PublishMessage(n, m) ==
    /\ Len(normalized[n]) < MaxMessages
    /\ MessageArrives(n, m)

Init == normalized = [n \in NormPartitions |-> <<>>] /\ WInit

Next ==
    \/ \E n \in NormPartitions, m \in Contents : PublishMessage(n, m)
    \/ \E w \in Writers : WriterStep(w)

Spec == Init /\ [][Next]_swVars

(* The writers behind producers that publish without bound.                *)
OpenNext ==
    \/ \E n \in NormPartitions, m \in Contents : MessageArrives(n, m)
    \/ \E w \in Writers : WriterStep(w)

OpenSpec == Init /\ [][OpenNext]_swVars

(***************************************************************************)
(* Consumer and flush loops run, ClickHouse answers, pods that died are    *)
(* restarted, free partitions are assigned.  Nothing restarts a process    *)
(* whose consumer stopped: it is alive and reports ready.                  *)
(***************************************************************************)
WriterFairness ==
    /\ \A w \in Writers :
          /\ WF_swVars(\E n \in NormPartitions : WReceive(w, n))
          /\ \A t \in Tables : WF_swVars(Insert(w, t))
          /\ WF_swVars(WCommit(w))
          /\ WF_swVars(WCommitArrives(w))
          /\ WF_swVars(WRestart(w))
    /\ \A n \in NormPartitions : WF_swVars(\E w \in Writers : WAssign(w, n))

FairSpec == Spec /\ WriterFairness

-----------------------------------------------------------------------------
(***************************************************************************)
(* Properties.                                                             *)
(***************************************************************************)
Durable(m) == \A t \in TablesOf(m) : Stored(t, Block(m, t))

WPositions == UNION {{n} \X (1..Len(normalized[n])) : n \in NormPartitions}

(* The first o messages of a partition are durable.                        *)
DurableUpTo(n, o) ==
    \A i \in 1..o : i <= Len(normalized[n]) /\ Durable(normalized[n][i])

DurableMessages == {x \in WPositions : Durable(normalized[x[1]][x[2]])}

(* What the flush loops may insert into a table.                           *)
TokensOf == [t \in Tables |-> {Token(m, t, s) : m \in Contents, s \in Seeds \union {0}}]

(* The consumers' state, the group's offsets and the tables hold values of *)
(* their types; exactly the writers that are writing hold a message, and   *)
(* it is one of the topic, as is every message with a pending commit.      *)
WTypeOK ==
    /\ normalized \in [NormPartitions -> Seq(Contents)]
    /\ wowner \in [NormPartitions -> Writers \union {NoWriter}]
    /\ wcommitted \in [NormPartitions -> Nat]
    /\ wpc \in [Writers -> {"down", "stopped", "recv", "write"}]
    /\ wpos \in [Writers -> [NormPartitions -> Nat]]
    /\ cur \in [Writers -> WPositions \union {<<>>}]
    /\ \A w \in Writers : wpc[w] = "write" <=> cur[w] \in WPositions
    /\ seed \in [Writers -> Seeds \union {0}]
    /\ todo \in [Writers -> SUBSET Tables]
    /\ winflight \in [Writers -> Seq(WPositions)]
    /\ DOMAIN blocks = Tables /\ \A t \in Tables : blocks[t] \in Seq(TokensOf[t])
    /\ wfaults \in Nat

(* No committed loss: every message below a committed offset has all its   *)
(* rows in ClickHouse, whatever inserts failed, whichever writer died      *)
(* half way through the tables, and whoever committed late.                *)
CommittedImpliesStored ==
    \A n \in NormPartitions : DurableUpTo(n, wcommitted[n])

(* The message that a writer is writing: what came before it is durable,   *)
(* also when its partition was taken away meanwhile, and of the message    *)
(* itself every table that is not in todo has its block.                   *)
WriteInv ==
    \A w \in Writers : wpc[w] = "write" =>
        /\ DurableUpTo(cur[w][1], cur[w][2] - 1)
        /\ \A t \in TablesOf(CurMessage(w)) \ todo[w] : Stored(t, Block(CurMessage(w), t))

(* What the owner of a partition has passed: durable, or in its hands.     *)
PassedInv ==
    \A w \in Writers, n \in NormPartitions : wowner[n] = w =>
        /\ wpc[w] \in {"recv", "write"}
        /\ \/ DurableUpTo(n, wpos[w][n])
           \/ cur[w] = <<n, wpos[w][n]>>

WRequestInv ==
    \A w \in Writers : \A i \in DOMAIN winflight[w] :
        DurableUpTo(winflight[w][i][1], winflight[w][i][2])

(* The inductive strengthening of CommittedImpliesStored: a message is     *)
(* followed from the fetch position over the message in the writer's hands *)
(* and the commit request to the committed offset; none runs ahead of the  *)
(* rows although the partition may move while the message is written.      *)
StorageInv ==
    /\ WriteInv
    /\ PassedInv
    /\ WRequestInv
    /\ CommittedImpliesStored

(* Two blocks of a table with the same rows lie more than a window apart.  *)
StoredOnce(t) ==
    \A i, j \in DOMAIN blocks[t] :
        i < j /\ j <= i + Window => blocks[t][i][1] # blocks[t][j][1]

(* A message that is delivered again after a crash, a rebalance or a lost  *)
(* commit, or whose insert is retried after ClickHouse had applied it,     *)
(* leaves no second copy of its rows within the deduplication window.      *)
RedeliveryDeduplicated == \A t \in Tables : StoredOnce(t)

(* The same for metric_points alone, whose rows have no attribute map and  *)
(* so the same token whenever they are deserialised.                       *)
PointsStoredOnce == StoredOnce("metric_points")

(* An event row never appears before the row of its span: insert_spans     *)
(* writes spans first, and a retry starts with the spans again.            *)
EventsFollowSpans ==
    \A i \in DOMAIN blocks["span_events"] :
        \A k \in DOMAIN blocks["span_events"][i][1].rows :
            \E j \in DOMAIN blocks["spans"] : \E l \in DOMAIN blocks["spans"][j][1].rows :
                blocks["spans"][j][1].rows[l] = blocks["span_events"][i][1].rows[k]

(* Why: a block of events is that of a message whose spans, if it has any, *)
(* are in the table already.                                               *)
EventInv ==
    \A i \in DOMAIN blocks["span_events"] : \E m \in Contents :
        /\ blocks["span_events"][i][1] = Block(m, "span_events")
        /\ "spans" \in TablesOf(m) => Stored("spans", Block(m, "spans"))

(* The writer implements AtLeastOnce with durable rows as effect.          *)
WDelivery == INSTANCE AtLeastOnce WITH
                 Partitions <- NormPartitions, Entries <- Contents, Skippable <- {},
                 log <- normalized, done <- DurableMessages, committed <- wcommitted

WDeliverySpec == WDelivery!Spec

(* Every published message is eventually durable, faults having stopped:   *)
(* the backlog drains when ClickHouse and Redpanda are back, unless every  *)
(* writer's consumer task has ended on an error, which main only logs.     *)
EventuallyStoredOrStopped ==
    \A n \in NormPartitions : \A o \in 1..MaxMessages :
        o <= Len(normalized[n]) ~>
            \/ o <= Len(normalized[n]) /\ Durable(normalized[n][o])
            \/ \A w \in Writers : wpc[w] = "stopped"
==============================================================================
