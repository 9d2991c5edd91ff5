----------------------------- MODULE Notifications -----------------------------
(***************************************************************************)
(* services/alert-evaluator: the notification channels and the worker that *)
(* posts the queued rows of notification_audit_log to them.  A row is named *)
(* by what its unique index holds: firing, channel and trigger_state; the  *)
(* firing and the state are one notice here.                               *)
(*                                                                         *)
(* The worker fetches a batch, then for each of its records posts to the   *)
(* channel and updates the row.  The POST and the UPDATE are two steps: an *)
(* error or a crash between them leaves the row pending.  Two workers run  *)
(* while a rolling update replaces the pod.                                *)
(***************************************************************************)
EXTENDS Naturals, FiniteSets

CONSTANTS
    Hooks,       \* channel ids
    Announcements,     \* a firing and the state it is announced in
    Workers,     \* notification workers
    RetryLimit,  \* 10 in handle_notification_failure
    BatchLimit,  \* LIMIT 50
    MaxOutages   \* bound: crashes, failed updates, failed fetches

ASSUME NotificationAssumption ==
    /\ RetryLimit \in Nat /\ BatchLimit \in Nat \ {0} /\ MaxOutages \in Nat
    /\ IsFiniteSet(Workers) /\ Workers # {}

VARIABLES
    hooks,     \* notification_channels: [subset of Hooks -> whether config has a url]
    queue,     \* notification_audit_log: [<<notice, hook>> -> row]
    cycle,     \* [Workers -> the records still to be handled and the one in hand]
    attempts,  \* [<<notice, hook>> -> POSTs made]
    accepted,  \* rows of which a receiver has accepted a POST
    outages

ntVars == <<hooks, queue, cycle, attempts, accepted, outages>>

NewRow  == [state |-> "pending", retries |-> 0, due |-> TRUE]
Batch(records) == [records |-> records, hand |-> <<>>, ok |-> FALSE]
Idle    == Batch(<<>>)
Busy(w) == cycle[w].hand # <<>>

NtInit ==
    /\ hooks = <<>> /\ queue = <<>> /\ attempts = <<>> /\ accepted = {}
    /\ cycle = [w \in Workers |-> Idle] /\ outages = 0

(* A table with one row more. *)
WithRow(table, key, row) ==
    [k \in DOMAIN table \union {key} |-> IF k = key THEN row ELSE table[k]]

Outage == outages < MaxOutages /\ outages' = outages + 1

-----------------------------------------------------------------------------
(* The config is any JSON, with a url or without one.                      *)
create_notification_channel(c, url) ==
    /\ c \notin DOMAIN hooks
    /\ hooks' = WithRow(hooks, c, url)
    /\ UNCHANGED <<queue, cycle, attempts, accepted, outages>>

(* The foreign key of the audit log refuses the DELETE once a row names    *)
(* the channel, whatever the row's state.                                  *)
delete_notification_channel(c) ==
    /\ c \in DOMAIN hooks
    /\ \A k \in DOMAIN queue : k[2] # c
    /\ hooks' = [d \in DOMAIN hooks \ {c} |-> hooks[d]]
    /\ UNCHANGED <<queue, cycle, attempts, accepted, outages>>

(* The evaluator's INSERT ... ON CONFLICT DO NOTHING: refused for a        *)
(* channel that does not exist, idle when the row is there.                *)
enqueue_notifications(n, c) ==
    /\ c \in DOMAIN hooks
    /\ <<n, c>> \notin DOMAIN queue
    /\ queue' = WithRow(queue, <<n, c>>, NewRow)
    /\ attempts' = WithRow(attempts, <<n, c>>, 0)
    /\ UNCHANGED <<hooks, cycle, accepted, outages>>

-----------------------------------------------------------------------------
(* The back-off of 2^retry_count * 10 seconds since last_attempt_at ends.  *)
BackoffEnds(k) ==
    /\ queue[k].state = "pending" /\ ~queue[k].due
    /\ queue' = [queue EXCEPT ![k].due = TRUE]
    /\ UNCHANGED <<hooks, cycle, attempts, accepted, outages>>

(* Mutant: a row that has been tried once is not picked up again.          *)
Due_MutOnce == {k \in DOMAIN queue :
          queue[k].state = "pending" /\ queue[k].retries = 0 /\ k[2] \in DOMAIN hooks}

(* The joined channel must exist; the records carry retry_count as read.   *)
Due == {k \in DOMAIN queue :
          queue[k].state = "pending" /\ queue[k].due /\ k[2] \in DOMAIN hooks}

(* process_pending_notifications reads a batch, in no particular order.    *)
FetchBatch(w) ==
    /\ cycle[w] = Idle /\ Due # {}
    /\ \E batch \in SUBSET Due :
         /\ Cardinality(batch) = IF Cardinality(Due) < BatchLimit THEN Cardinality(Due)
                                                                  ELSE BatchLimit
         /\ cycle' = [cycle EXCEPT ![w] = Batch([k \in batch |-> queue[k].retries])]
    /\ UNCHANGED <<hooks, queue, attempts, accepted, outages>>

(* What is left of a batch when a record has been handled.                 *)
Rest(w, k) == [j \in DOMAIN cycle[w].records \ {k} |-> cycle[w].records[j]]

(* A channel without a url: the row fails without an attempt.              *)
MissingUrl(w, k) ==
    /\ k \in DOMAIN cycle[w].records /\ ~Busy(w) /\ ~hooks[k[2]]
    /\ queue' = [queue EXCEPT ![k].state = "failed"]
    /\ cycle' = [cycle EXCEPT ![w] = Batch(Rest(w, k))]
    /\ UNCHANGED <<hooks, attempts, accepted, outages>>

(* The receiver accepts with a success status, refuses or is not reached.  *)
Post(w, k) ==
    /\ k \in DOMAIN cycle[w].records /\ ~Busy(w) /\ hooks[k[2]]
    /\ \E ok \in BOOLEAN :
         /\ cycle' = [cycle EXCEPT ![w] = [records |-> @.records, hand |-> k, ok |-> ok]]
         /\ accepted' = IF ok THEN accepted \union {k} ELSE accepted
    /\ attempts' = [attempts EXCEPT ![k] = @ + 1]
    /\ UNCHANGED <<hooks, queue, outages>>

(* The limit is compared with retry_count as the batch read it.            *)
handle_notification_failure(row, retries) ==
    IF retries >= RetryLimit THEN [row EXCEPT !.state = "failed", !.due = FALSE]
    ELSE [row EXCEPT !.retries = @ + 1, !.due = FALSE]

(* Mutant: any answer counts as delivered.                                 *)
RecordOutcome_MutAnyAnswer(w) ==
    /\ Busy(w)
    /\ LET k == cycle[w].hand IN
         /\ queue' = [queue EXCEPT ![k] = [@ EXCEPT !.state = "sent", !.due = FALSE]]
         /\ cycle' = [cycle EXCEPT ![w] = Batch(Rest(w, k))]
    /\ UNCHANGED <<hooks, attempts, accepted, outages>>

(* Mutant: a refused POST is not counted.                                  *)
RecordOutcome_MutUncounted(w) ==
    /\ Busy(w)
    /\ LET k == cycle[w].hand IN
         /\ queue' = [queue EXCEPT ![k] =
               IF cycle[w].ok THEN [@ EXCEPT !.state = "sent", !.due = FALSE]
               ELSE [@ EXCEPT !.due = FALSE]]
         /\ cycle' = [cycle EXCEPT ![w] = Batch(Rest(w, k))]
    /\ UNCHANGED <<hooks, attempts, accepted, outages>>

(* The UPDATE after the POST looks at nothing but the audit_id.            *)
RecordOutcome(w) ==
    /\ Busy(w)
    /\ LET k == cycle[w].hand IN
         /\ queue' = [queue EXCEPT ![k] =
               IF cycle[w].ok THEN [@ EXCEPT !.state = "sent", !.due = FALSE]
               ELSE handle_notification_failure(@, cycle[w].records[k])]
         /\ cycle' = [cycle EXCEPT ![w] = Batch(Rest(w, k))]
    /\ UNCHANGED <<hooks, attempts, accepted, outages>>

(* An UPDATE that fails ends the cycle, the rest of the batch unhandled;   *)
(* a crash and the restart do the same.                                    *)
CycleLost(w) ==
    /\ cycle[w] # Idle
    /\ Outage
    /\ cycle' = [cycle EXCEPT ![w] = Idle]
    /\ UNCHANGED <<hooks, queue, attempts, accepted>>

-----------------------------------------------------------------------------
WorkerStep(w) ==
    \/ FetchBatch(w)
    \/ \E k \in DOMAIN queue : MissingUrl(w, k) \/ Post(w, k)
    \/ RecordOutcome(w)

ClockStep == \E k \in DOMAIN queue : BackoffEnds(k)

NtNext ==
    \/ \E c \in Hooks : (\E url \in BOOLEAN : create_notification_channel(c, url))
                        \/ delete_notification_channel(c)
    \/ \E n \in Announcements, c \in Hooks : enqueue_notifications(n, c)
    \/ ClockStep
    \/ \E w \in Workers : WorkerStep(w) \/ CycleLost(w)

NtSpec == NtInit /\ [][NtNext]_ntVars

-----------------------------------------------------------------------------
Keys == Announcements \X Hooks

(* A row is sent only after a receiver accepted it, and a row is given up  *)
(* only after RetryLimit + 1 attempts or because its channel has no url:   *)
(* whatever two workers overwrite of each other, and whatever is lost      *)
(* between a POST and its UPDATE.                                          *)
OutcomesAreEarned ==
    \A k \in DOMAIN queue :
        /\ queue[k].state = "sent" => k \in accepted
        /\ queue[k].state = "failed" => ~hooks[k[2]] \/ attempts[k] > RetryLimit

(* The POSTs of a notification are bounded: by RetryLimit + 1 for the one  *)
(* worker, and one more for every lost update and for every retry that a   *)
(* second worker makes of a record both have read.                         *)
PostsAreBounded ==
    \A k \in DOMAIN queue :
        attempts[k] <= (RetryLimit + 1) * Cardinality(Workers) + outages

(* Every queued notification is sent or given up in the end.               *)
NotificationsSettle ==
    \A k \in Keys :
        (k \in DOMAIN queue) ~> (k \in DOMAIN queue /\ queue[k].state # "pending")

(* What the queue says of a delivery is accounted for by POSTs that were   *)
(* made, and their number is bounded.                                      *)
DeliveriesAreAccounted == OutcomesAreEarned /\ PostsAreBounded

-----------------------------------------------------------------------------
(* Why the accounts are right.  A row has a channel and a worker works on  *)
(* rows of the queue, one of its batch in hand.                            *)
NtTypeOK ==
    /\ hooks \in [DOMAIN hooks -> BOOLEAN] /\ DOMAIN hooks \subseteq Hooks
    /\ queue \in [DOMAIN queue -> [state : {"pending", "sent", "failed"},
                                   retries : Nat, due : BOOLEAN]]
    /\ \A k \in DOMAIN queue : k \in Keys /\ k[2] \in DOMAIN hooks
    /\ attempts \in [DOMAIN queue -> Nat]
    /\ DOMAIN cycle = Workers
    /\ \A w \in Workers :
          /\ cycle[w] = [records |-> cycle[w].records, hand |-> cycle[w].hand, ok |-> cycle[w].ok]
          /\ cycle[w].records \in [DOMAIN cycle[w].records -> Nat]
          /\ DOMAIN cycle[w].records \subseteq DOMAIN queue
          /\ Busy(w) => cycle[w].hand \in DOMAIN cycle[w].records
    /\ outages \in Nat

(* A batch may be out of date, in one direction only.                      *)
ReadsInv ==
    \A w \in Workers :
        /\ \A k \in DOMAIN cycle[w].records : cycle[w].records[k] <= queue[k].retries
        /\ Busy(w) /\ cycle[w].ok => cycle[w].hand \in accepted

Readers(k)  == {w \in Workers : k \in DOMAIN cycle[w].records}
Retriers(k) == {w \in Readers(k) : cycle[w].records[k] < RetryLimit}
Posters(k)  == {w \in Workers : cycle[w].hand = k}

PostLimit == (RetryLimit + 1) * Cardinality(Workers)

(* The POSTs of a row are the failures counted, those in hand, those whose *)
(* outcome was lost and at the end one per worker that had read the row.   *)
RowCounted(k) ==
    /\ attempts[k] >= queue[k].retries + Cardinality(Posters(k))
    /\ \/ RetryLimit = 0 /\ queue[k].retries = 0
       \/ /\ RetryLimit > 0
          /\ queue[k].retries + Cardinality(Retriers(k)) < RetryLimit + Cardinality(Workers)
    /\ queue[k].state = "pending" =>
          attempts[k] <= queue[k].retries + Cardinality(Posters(k)) + outages
    /\ queue[k].state # "pending" =>
          attempts[k] + Cardinality(Readers(k)) <= PostLimit + outages + Cardinality(Posters(k))

CountInv == \A k \in DOMAIN queue : RowCounted(k)

QueueInv == NtTypeOK /\ ReadsInv /\ CountInv /\ OutcomesAreEarned
=============================================================================
