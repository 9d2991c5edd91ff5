-------------------------- MODULE MCStreamProcessor --------------------------
(***************************************************************************)
(* Instances of StreamProcessor for TLC.                                   *)
(***************************************************************************)
EXTENDS StreamProcessor

CONSTANTS r1, r2, p1, p2, n1

MCReplicas       == {r1, r2}
MCRawPartitions  == {p1, p2}
MCNormPartitions == {n1}

(* The calls of span records and the offsets of a second partition         *)
(* multiply the states.  Log records alone have MaxFaults; behaviours with *)
(* one record of another kind have one fault at most, those with several   *)
(* have none; those in which the second partition is used have one log     *)
(* record per partition and one fault at most.                             *)
KindsIn(p) == {raw[p][o] : o \in DOMAIN raw[p]}
InUse(p)   == raw[p] # <<>> \/ owner[p] # NoReplica

Others(p)  == Cardinality({o \in DOMAIN raw[p] : raw[p][o] # "logs"})

WithinBounds ==
    /\ \A p \in RawPartitions : faults + Others(p) <= MaxFaults
    /\ InUse(p2) => /\ faults <= 1
                   /\ \A p \in RawPartitions : Len(raw[p]) <= 1 /\ KindsIn(p) \subseteq {"logs"}

BoundedNext == Next /\ WithinBounds'

(* Fairness, with the second partition assigned only where it is used.     *)
BoundedFairness ==
    /\ \A r \in Replicas :
          /\ WF_spVars(\E p \in RawPartitions : Receive(r, p))
          /\ WF_spVars(Tick(r))
          /\ WF_spVars(RecordSpans(r))
          /\ WF_spVars(Publish(r))
          /\ WF_spVars(Commit(r))
          /\ WF_spVars(CommitArrives(r))
          /\ WF_spVars(Restart(r))
    /\ \A p \in RawPartitions : WF_spVars(\E r \in Replicas : Assign(r, p) /\ WithinBounds')

BoundedSpec == Init /\ [][BoundedNext]_spVars /\ BoundedFairness
==============================================================================
