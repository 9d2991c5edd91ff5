----------------------------- MODULE AtLeastOnce -----------------------------
(***************************************************************************)
(* What a stage of the telemetry pipeline promises: it reads a partitioned *)
(* log, has a lasting effect for every record (a publish, a set of rows)   *)
(* and moves the committed offset of a partition only over records whose   *)
(* effect has happened, or that need none.  The offset may move back (a    *)
(* late commit of another member); an effect is never undone.              *)
(***************************************************************************)
EXTENDS Naturals, Sequences

CONSTANTS
    Partitions,  \* partitions of the log
    Entries,     \* what a record of the log may be
    Skippable    \* records that need no effect

VARIABLES
    log,        \* [Partitions -> Seq(Entries)]
    done,       \* records whose effect has happened, as <<partition, offset>>
    committed   \* [Partitions -> Nat]

vars == <<log, done, committed>>

Records == UNION {{p} \X (1..Len(log[p])) : p \in Partitions}

Init ==
    /\ log = [p \in Partitions |-> <<>>]
    /\ done = {}
    /\ committed = [p \in Partitions |-> 0]

(* A new record may repeat an earlier one, and then needs nothing more.    *)
Produce(p, e) ==
    /\ log' = [log EXCEPT ![p] = Append(@, e)]
    /\ done' \in {done, done \union {<<p, Len(log[p]) + 1>>}}
    /\ UNCHANGED committed

Perform ==
    /\ done \subseteq done'
    /\ done' \subseteq Records
    /\ UNCHANGED <<log, committed>>

Settled(p, o) == o <= Len(log[p]) /\ (log[p][o] \in Skippable \/ <<p, o>> \in done)

Commit ==
    /\ committed' \in [Partitions -> Nat]
    /\ \A p \in Partitions : \A o \in 1..committed'[p] : Settled(p, o)
    /\ UNCHANGED <<log, done>>

Next ==
    \/ \E p \in Partitions, e \in Entries : Produce(p, e)
    \/ Perform
    \/ Commit

Spec == Init /\ [][Next]_vars
==============================================================================
