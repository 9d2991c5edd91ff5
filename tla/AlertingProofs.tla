---------------------------- MODULE AlertingProofs ----------------------------
(***************************************************************************)
(* Theorems about AlertEvaluator, for every set of rules, channels and     *)
(* services, every phase and severity and every bound; and about           *)
(* Notifications, for every set of channels, announcements and workers,    *)
(* every retry and batch limit and any number of outages.                  *)
(*                                                                         *)
(* The invariant of the evaluator is the conjunction of the properties     *)
(* that are proved, which is inductive as it stands.  The one of the       *)
(* queue counts, for each of its rows, the workers that have read it       *)
(* (Readers), those of them that would retry it (Retriers) and those that  *)
(* have posted it and not yet recorded the outcome (Posters).              *)
(***************************************************************************)
EXTENDS AlertEvaluator, Notifications, FiniteSetTheorems, TLAPS

(***************************************************************************)
(* The evaluator.                                                          *)
(***************************************************************************)
Firing   == [rule : Rules, state : FiringStates, by : Nat]
Incident == [rule : Rules, status : Statuses]
Open     == {"pending", "active"}

(* Rows are numbered from one, and each is a record of its type.           *)
LEMMA FiringType ==
    ASSUME AlertTypeOK, NEW i \in DOMAIN firings
    PROVE  /\ i \in 1..Len(firings) /\ Len(firings) \in Nat
           /\ firings[i] \in Firing
           /\ RuleOf(i) \in Rules /\ firings[i].state \in FiringStates
           /\ firings[i].by \in 0..Len(firings)
<1>1. firings \in Seq(Firing)
  BY DEF AlertTypeOK, Firing
<1>2. firings[i] \in Firing /\ i \in 1..Len(firings) /\ Len(firings) \in Nat
  BY <1>1
<1>3. QED
  BY <1>2 DEF AlertTypeOK, Firing, RuleOf

(* Incidents are numbered from one, and each is a record of its type.      *)
LEMMA IncidentType ==
    ASSUME AlertTypeOK, NEW k \in DOMAIN incidents
    PROVE  /\ k \in 1..Len(incidents) /\ Len(incidents) \in Nat
           /\ incidents[k] \in Incident
<1>1. incidents \in Seq(Incident)
  BY DEF AlertTypeOK, Incident
<1>2. QED
  BY <1>1

(* The firing whose notifications or incident are being written exists.    *)
LEMMA JobType ==
    ASSUME AlertTypeOK
    PROVE  /\ job.fid \in 0..Len(firings) /\ job.trigger \in {"active", "resolved"}
           /\ job.chans \subseteq Channels /\ job.lift \in BOOLEAN
           /\ step \in {"notify", "select", "incident"} =>
                job.fid \in DOMAIN firings /\ RuleOf(job.fid) \in Rules
<1>1. DOMAIN firings = 1..Len(firings) /\ Len(firings) \in Nat
  BY DEF AlertTypeOK
<1>2. /\ job.fid \in 0..Len(firings) /\ job.trigger \in {"active", "resolved"}
      /\ job.chans \subseteq Channels /\ job.lift \in BOOLEAN
  BY DEF AlertTypeOK
<1>3. step \in {"notify", "select", "incident"} => job.fid \in DOMAIN firings
  BY <1>1, <1>2 DEF AlertTypeOK
<1>4. QED
  BY <1>2, <1>3, FiringType

(* An UPDATE of the state of one firing touches nothing else.              *)
LEMMA SetState ==
    ASSUME NEW f \in Seq(Firing), NEW i \in DOMAIN f, NEW s \in FiringStates,
           NEW g, g = [f EXCEPT ![i].state = s]
    PROVE  /\ g \in Seq(Firing)
           /\ DOMAIN g = DOMAIN f /\ Len(g) = Len(f)
           /\ \A j \in DOMAIN f : g[j].rule = f[j].rule /\ g[j].by = f[j].by
           /\ \A j \in DOMAIN f \ {i} : g[j] = f[j]
           /\ g[i].state = s
<1>1. f[i] \in Firing /\ DOMAIN f = 1..Len(f) /\ Len(f) \in Nat
  OBVIOUS
<1> DEFINE row == [f[i] EXCEPT !.state = s]
<1>2. row \in Firing /\ row.rule = f[i].rule /\ row.by = f[i].by /\ row.state = s
  BY <1>1 DEF Firing
<1>3. g = [f EXCEPT ![i] = row]
  OBVIOUS
<1> HIDE DEF row
<1>4. QED
  BY <1>1, <1>2, <1>3

(* Lifting a firing also clears the inhibitor it names.                    *)
LEMMA SetLifted ==
    ASSUME NEW f \in Seq(Firing), NEW i \in DOMAIN f,
           NEW g, g = [f EXCEPT ![i] = [rule |-> f[i].rule, state |-> "active", by |-> 0]]
    PROVE  /\ g \in Seq(Firing)
           /\ DOMAIN g = DOMAIN f /\ Len(g) = Len(f)
           /\ \A j \in DOMAIN f : g[j].rule = f[j].rule
           /\ \A j \in DOMAIN f \ {i} : g[j] = f[j]
           /\ g[i].state = "active" /\ g[i].by = 0
<1>1. f[i] \in Firing /\ DOMAIN f = 1..Len(f) /\ Len(f) \in Nat
  OBVIOUS
<1> DEFINE row == [rule |-> f[i].rule, state |-> "active", by |-> 0]
<1>2. row \in Firing /\ row.rule = f[i].rule /\ row.state = "active" /\ row.by = 0
  BY <1>1 DEF Firing, FiringStates
<1>3. g = [f EXCEPT ![i] = row]
  OBVIOUS
<1> HIDE DEF row
<1>4. QED
  BY <1>1, <1>2, <1>3

(* An INSERT adds one row at the end.                                      *)
LEMMA AddFiring ==
    ASSUME NEW f \in Seq(Firing), NEW row \in Firing, NEW g, g = Append(f, row)
    PROVE  /\ g \in Seq(Firing)
           /\ Len(g) = Len(f) + 1 /\ DOMAIN g = DOMAIN f \union {Len(f) + 1}
           /\ \A j \in DOMAIN f : g[j] = f[j]
           /\ g[Len(f) + 1] = row
           /\ Len(f) + 1 \notin DOMAIN f
  OBVIOUS

-----------------------------------------------------------------------------
(* What every statement on alert_firings preserves: rows stay, with their  *)
(* rule; resolved stays resolved, nothing becomes pending again, a rule    *)
(* keeps one open firing and a suppressed one its critical inhibitor.      *)
FiringsEvolve ==
    /\ firings' \in Seq(Firing)
    /\ \A i \in DOMAIN firings' : firings'[i].by \in 0..Len(firings')
    /\ DOMAIN firings \subseteq DOMAIN firings'
    /\ \A i \in DOMAIN firings :
          /\ firings'[i].rule = firings[i].rule
          /\ firings[i].state = "resolved" => firings'[i].state = "resolved"
          /\ firings[i].state # "pending" => firings'[i].state # "pending"
    /\ OneOpenFiring' /\ InhibitorIsCritical'

FiringsInv == OneOpenFiring /\ InhibitorIsCritical

(* Promoting or resolving the open firing of a rule.                       *)
LEMMA OpenFiringMoves ==
    ASSUME AlertTypeOK, FiringsInv, NEW i \in DOMAIN firings, NEW s \in {"active", "resolved"},
           firings[i].state \in Open, firings' = [firings EXCEPT ![i].state = s]
    PROVE  FiringsEvolve
<1>1. firings \in Seq(Firing) /\ s \in FiringStates
  BY DEF AlertTypeOK, Firing, FiringStates
<1>2. /\ firings' \in Seq(Firing)
      /\ DOMAIN firings' = DOMAIN firings /\ Len(firings') = Len(firings)
      /\ \A j \in DOMAIN firings :
             firings'[j].rule = firings[j].rule /\ firings'[j].by = firings[j].by
      /\ \A j \in DOMAIN firings \ {i} : firings'[j] = firings[j]
      /\ firings'[i].state = s
  BY <1>1, SetState
<1>3. \A j \in DOMAIN firings : firings'[j].by \in 0..Len(firings)
  BY <1>2, FiringType
<1>4. \A j \in DOMAIN firings' : firings'[j].state \in Open => firings[j].state \in Open
  BY <1>2
<1>5. OneOpenFiring'
  BY <1>2, <1>4 DEF FiringsInv, OneOpenFiring, Open, RuleOf
<1>6. InhibitorIsCritical'
  <2> SUFFICES ASSUME NEW j \in DOMAIN firings', firings'[j].state = "suppressed"
               PROVE  /\ firings'[j].by \in DOMAIN firings' \ {j}
                      /\ Severity[firings'[firings'[j].by].rule] = "critical"
                      /\ firings'[firings'[j].by].state \in {"active", "resolved"}
    BY DEF InhibitorIsCritical, RuleOf
  <2>1. j # i /\ j \in DOMAIN firings /\ firings[j].state = "suppressed"
    BY <1>2
  <2>2. /\ firings[j].by \in DOMAIN firings \ {j}
        /\ Severity[firings[firings[j].by].rule] = "critical"
        /\ firings[firings[j].by].state \in {"active", "resolved"}
    BY <2>1 DEF FiringsInv, InhibitorIsCritical, RuleOf
  <2>3. QED
    BY <1>2, <2>1, <2>2
<1>7. QED
  BY <1>2, <1>3, <1>5, <1>6 DEF FiringsEvolve, Open

(* Opening a firing for a rule that has no open one.                       *)
LEMMA FiringOpens ==
    ASSUME AlertTypeOK, FiringsInv, NEW r \in Rules, NEW s \in Open, OpenFirings(r) = {},
           firings' = Append(firings, [rule |-> r, by |-> 0, state |-> s])
    PROVE  FiringsEvolve
<1>1. firings \in Seq(Firing) /\ s \in FiringStates
  BY DEF AlertTypeOK, Firing, FiringStates, Open
<1>2. /\ firings' \in Seq(Firing)
      /\ Len(firings') = Len(firings) + 1
      /\ DOMAIN firings' = DOMAIN firings \union {Len(firings) + 1}
      /\ \A j \in DOMAIN firings : firings'[j] = firings[j]
      /\ firings'[Len(firings) + 1].rule = r
      /\ firings'[Len(firings) + 1].state = s
      /\ firings'[Len(firings) + 1].by = 0
      /\ Len(firings) + 1 \notin DOMAIN firings
  <2> DEFINE row == [rule |-> r, by |-> 0, state |-> s]
  <2>1. row \in Firing /\ row.rule = r /\ row.state = s /\ row.by = 0
    BY <1>1 DEF Firing
  <2>2. firings' = Append(firings, row)
    OBVIOUS
  <2> HIDE DEF row
  <2>3. /\ firings' \in Seq(Firing)
        /\ Len(firings') = Len(firings) + 1
        /\ DOMAIN firings' = DOMAIN firings \union {Len(firings) + 1}
        /\ \A j \in DOMAIN firings : firings'[j] = firings[j]
        /\ firings'[Len(firings) + 1] = row
        /\ Len(firings) + 1 \notin DOMAIN firings
    BY <1>1, <2>1, <2>2, AddFiring
  <2>4. QED
    BY <2>1, <2>3
<1>3. \A j \in DOMAIN firings' : firings'[j].by \in 0..Len(firings')
  BY <1>1, <1>2, FiringType
<1>4. \A j \in DOMAIN firings : firings[j].state \in Open => RuleOf(j) # r
  BY DEF OpenFirings, Open
<1>5. OneOpenFiring'
  <2> SUFFICES ASSUME NEW j \in DOMAIN firings', NEW k \in DOMAIN firings', j # k,
                      firings'[j].state \in Open, firings'[k].state \in Open
               PROVE  firings'[j].rule # firings'[k].rule
    BY DEF OneOpenFiring, Open, RuleOf
  <2>1. CASE j \in DOMAIN firings /\ k \in DOMAIN firings
    BY <1>2, <2>1 DEF FiringsInv, OneOpenFiring, Open, RuleOf
  <2>2. CASE j = Len(firings) + 1 \/ k = Len(firings) + 1
    BY <1>2, <1>4, <2>2 DEF RuleOf
  <2>3. QED
    BY <1>2, <2>1, <2>2
<1>6. InhibitorIsCritical'
  <2> SUFFICES ASSUME NEW j \in DOMAIN firings', firings'[j].state = "suppressed"
               PROVE  /\ firings'[j].by \in DOMAIN firings' \ {j}
                      /\ Severity[firings'[firings'[j].by].rule] = "critical"
                      /\ firings'[firings'[j].by].state \in {"active", "resolved"}
    BY DEF InhibitorIsCritical, RuleOf
  <2>1. j \in DOMAIN firings /\ firings[j].state = "suppressed"
    BY <1>2 DEF Open
  <2>2. /\ firings[j].by \in DOMAIN firings \ {j}
        /\ Severity[firings[firings[j].by].rule] = "critical"
        /\ firings[firings[j].by].state \in {"active", "resolved"}
    BY <2>1 DEF FiringsInv, InhibitorIsCritical, RuleOf
  <2>3. QED
    BY <1>2, <2>1, <2>2
<1>7. QED
  BY <1>2, <1>3, <1>5, <1>6 DEF FiringsEvolve, Open

(* Phase 1 of the suppression pass: what it suppresses was open, and what  *)
(* it names is critical and active, hence not suppressed by it.            *)
LEMMA SuppressionHolds ==
    ASSUME AlertTypeOK, FiringsInv, Suppress
    PROVE  FiringsEvolve
<1>1. PICK by \in [Suppressible -> DOMAIN firings] :
         /\ \A i \in Suppressible : by[i] \in Inhibitors(i)
         /\ firings' = [i \in DOMAIN firings |->
                IF i \in Suppressible
                THEN [firings[i] EXCEPT !.state = "suppressed", !.by = by[i]]
                ELSE firings[i]]
  BY DEF Suppress
<1>2. firings \in Seq(Firing) /\ DOMAIN firings = 1..Len(firings) /\ Len(firings) \in Nat
  BY DEF AlertTypeOK, Firing
<1>3. Suppressible \subseteq DOMAIN firings
  BY DEF Suppressible
<1>4. ASSUME NEW j \in Suppressible
      PROVE  /\ firings'[j] \in Firing
             /\ firings'[j].rule = firings[j].rule
             /\ firings'[j].state = "suppressed"
             /\ firings'[j].by = by[j]
             /\ firings[j].state \in Open
  <2>1. firings[j] \in Firing /\ by[j] \in Nat
    <3>1. by[j] \in DOMAIN firings
      OBVIOUS
    <3>2. QED
      BY <1>2, <1>3, <3>1
  <2>2. firings'[j] = [firings[j] EXCEPT !.state = "suppressed", !.by = by[j]]
    BY <1>1, <1>3
  <2>3. firings[j].state \in Open
    BY DEF Suppressible, Open
  <2>4. QED
    BY <2>1, <2>2, <2>3 DEF Firing, FiringStates
<1>5. \A j \in DOMAIN firings \ Suppressible : firings'[j] = firings[j]
  BY <1>1
<1>6. DOMAIN firings' = DOMAIN firings
  BY <1>1
<1>7. firings' \in Seq(Firing) /\ Len(firings') = Len(firings)
  <2>1. firings' \in [1..Len(firings) -> Firing]
    <3>1. \A j \in DOMAIN firings : firings'[j] \in Firing
      BY <1>2, <1>4, <1>5
    <3>2. firings' = [j \in DOMAIN firings |-> firings'[j]]
      BY <1>1, <1>6
    <3>3. QED
      BY <1>2, <3>1, <3>2
  <2>2. QED
    BY <1>2, <2>1
<1>8. \A j \in DOMAIN firings : firings'[j].rule = firings[j].rule
  BY <1>4, <1>5
<1>9. \A j \in DOMAIN firings : firings'[j].by \in 0..Len(firings)
  <2>1. \A j \in Suppressible : by[j] \in 0..Len(firings)
    <3>1. \A j \in Suppressible : by[j] \in DOMAIN firings
      OBVIOUS
    <3>2. QED
      BY <1>2, <3>1
  <2>2. QED
    BY <1>4, <1>5, <2>1, FiringType
<1>10. \A j \in DOMAIN firings' : firings'[j].state \in Open => firings[j].state \in Open
  BY <1>4, <1>5, <1>6 DEF Open
<1>11. OneOpenFiring'
  BY <1>6, <1>8, <1>10 DEF FiringsInv, OneOpenFiring, Open, RuleOf
<1>12. InhibitorIsCritical'
  <2> SUFFICES ASSUME NEW j \in DOMAIN firings', firings'[j].state = "suppressed"
               PROVE  /\ firings'[j].by \in DOMAIN firings' \ {j}
                      /\ Severity[firings'[firings'[j].by].rule] = "critical"
                      /\ firings'[firings'[j].by].state \in {"active", "resolved"}
    BY DEF InhibitorIsCritical, RuleOf
  <2>1. CASE j \in Suppressible
    <3>1. /\ by[j] \in DOMAIN firings \ {j}
          /\ firings[by[j]].state = "active" /\ Severity[firings[by[j]].rule] = "critical"
      BY <1>1, <2>1 DEF Inhibitors, RuleOf
    <3>2. by[j] \notin Suppressible
      BY <3>1 DEF Suppressible, RuleOf
    <3>3. QED
      BY <1>4, <1>5, <1>6, <2>1, <3>1, <3>2
  <2>2. CASE j \notin Suppressible
    <3>1. firings'[j] = firings[j] /\ j \in DOMAIN firings
      BY <1>5, <1>6, <2>2
    <3>2. /\ firings[j].by \in DOMAIN firings \ {j}
          /\ Severity[firings[firings[j].by].rule] = "critical"
          /\ firings[firings[j].by].state \in {"active", "resolved"}
      BY <3>1 DEF FiringsInv, InhibitorIsCritical, RuleOf
    <3>3. firings[j].by \notin Suppressible
      BY <3>2 DEF Suppressible, RuleOf
    <3>4. QED
      BY <1>5, <1>6, <3>1, <3>2, <3>3
  <2>3. QED
    BY <2>1, <2>2
<1>13. QED
  BY <1>4, <1>5, <1>6, <1>7, <1>8, <1>9, <1>11, <1>12 DEF FiringsEvolve, Open

(* Lifting a suppressed firing, which the unique index allows when the     *)
(* rule has no open one.                                                   *)
LEMMA LiftHolds ==
    ASSUME AlertTypeOK, FiringsInv, NEW i \in DOMAIN firings,
           firings[i].state = "suppressed", OpenFirings(RuleOf(i)) = {},
           firings' = [firings EXCEPT ![i] = [rule |-> RuleOf(i), state |-> "active", by |-> 0]]
    PROVE  FiringsEvolve
<1>1. firings \in Seq(Firing)
  BY DEF AlertTypeOK, Firing
<1>2. /\ firings' \in Seq(Firing)
      /\ DOMAIN firings' = DOMAIN firings /\ Len(firings') = Len(firings)
      /\ \A j \in DOMAIN firings : firings'[j].rule = firings[j].rule
      /\ \A j \in DOMAIN firings \ {i} : firings'[j] = firings[j]
      /\ firings'[i].state = "active" /\ firings'[i].by = 0
  BY <1>1, SetLifted DEF RuleOf
<1>3. \A j \in DOMAIN firings : firings'[j].by \in 0..Len(firings)
  BY <1>1, <1>2, FiringType
<1>4. \A j \in DOMAIN firings : firings[j].state \in Open => RuleOf(j) # RuleOf(i)
  BY DEF OpenFirings, Open
<1>5. OneOpenFiring'
  BY <1>2, <1>4 DEF FiringsInv, OneOpenFiring, Open, RuleOf
<1>6. InhibitorIsCritical'
  <2> SUFFICES ASSUME NEW j \in DOMAIN firings', firings'[j].state = "suppressed"
               PROVE  /\ firings'[j].by \in DOMAIN firings' \ {j}
                      /\ Severity[firings'[firings'[j].by].rule] = "critical"
                      /\ firings'[firings'[j].by].state \in {"active", "resolved"}
    BY DEF InhibitorIsCritical, RuleOf
  <2>1. j # i /\ j \in DOMAIN firings /\ firings[j].state = "suppressed"
    BY <1>2
  <2>2. /\ firings[j].by \in DOMAIN firings \ {j}
        /\ Severity[firings[firings[j].by].rule] = "critical"
        /\ firings[firings[j].by].state \in {"active", "resolved"}
    BY <2>1 DEF FiringsInv, InhibitorIsCritical, RuleOf
  <2>3. QED
    BY <1>2, <2>1, <2>2
<1>7. QED
  BY <1>2, <1>3, <1>5, <1>6 DEF FiringsEvolve

(* Every step of the worker, an administrator or a responder preserves     *)
(* what FiringsEvolve says.                                                *)
LEMMA FiringsStep ==
    ASSUME AlertTypeOK, FiringsInv, WorkerAgrees, [Next]_aeVars
    PROVE  FiringsEvolve
<1>1. CASE UNCHANGED firings
  <2>1. firings \in Seq(Firing) /\ OneOpenFiring' /\ InhibitorIsCritical'
    BY <1>1 DEF AlertTypeOK, Firing, FiringsInv, OneOpenFiring, InhibitorIsCritical, RuleOf
  <2>2. QED
    BY <1>1, <2>1, FiringType DEF FiringsEvolve
<1>2. ASSUME NEW r \in Rules, RecordFiring(r) PROVE FiringsEvolve
  <2>1. PICK i \in DOMAIN firings \union {Len(firings) + 1} :
           \/ i \in OpenFirings(r) /\ UNCHANGED firings
           \/ /\ i \in OpenFirings(r) /\ firings[i].state = "pending"
              /\ firings' = [firings EXCEPT ![i].state = "active"]
           \/ /\ OpenFirings(r) = {}
              /\ firings' = Append(firings,
                     [rule |-> r, by |-> 0,
                      state |-> IF r \in Delayed THEN "pending" ELSE "active"])
    BY <1>2 DEF RecordFiring
  <2>2. CASE i \in OpenFirings(r) /\ firings' = [firings EXCEPT ![i].state = "active"]
    <3>1. i \in DOMAIN firings /\ firings[i].state \in Open
      BY <2>2 DEF OpenFirings, Open
    <3>2. QED
      BY <2>2, <3>1, OpenFiringMoves
  <2>3. CASE /\ OpenFirings(r) = {}
             /\ firings' = Append(firings,
                   [rule |-> r, by |-> 0,
                    state |-> IF r \in Delayed THEN "pending" ELSE "active"])
    <3> DEFINE s == IF r \in Delayed THEN "pending" ELSE "active"
    <3>1. s \in Open /\ firings' = Append(firings, [rule |-> r, by |-> 0, state |-> s])
      BY <2>3 DEF Open
    <3> HIDE DEF s
    <3>2. QED
      BY <2>3, <3>1, FiringOpens
  <2>4. QED
    BY <1>1, <2>1, <2>2, <2>3
<1>3. ASSUME NEW r \in Rules, ResolveOpenFiring(r) PROVE FiringsEvolve
  <2>1. CASE UNCHANGED firings
    BY <1>1, <2>1
  <2>2. ASSUME NEW i \in OpenFirings(r),
               firings' = [firings EXCEPT ![i].state = "resolved"]
        PROVE  FiringsEvolve
    <3>1. i \in DOMAIN firings /\ firings[i].state \in Open
      BY DEF OpenFirings, Open
    <3>2. QED
      BY <2>2, <3>1, OpenFiringMoves
  <2>3. QED
    BY <1>3, <2>1, <2>2 DEF ResolveOpenFiring
<1>4. CASE Suppress
  BY <1>4, SuppressionHolds
<1>5. ASSUME NEW i \in DOMAIN firings, Lift(i) PROVE FiringsEvolve
  <2>1. CASE UNCHANGED firings
    BY <1>1, <2>1
  <2>2. CASE /\ OpenFirings(RuleOf(i)) = {} /\ i \in lifted
             /\ firings' = [firings EXCEPT
                               ![i] = [rule |-> RuleOf(i), state |-> "active", by |-> 0]]
    <3>1. firings[i].state = "suppressed"
      BY <2>2 DEF WorkerAgrees
    <3>2. QED
      BY <2>2, <3>1, LiftHolds
  <2>3. QED
    BY <1>5, <2>1, <2>2 DEF Lift
<1>6. \/ UNCHANGED firings \/ Suppress
      \/ \E r \in Rules : RecordFiring(r) \/ ResolveOpenFiring(r)
      \/ \E i \in DOMAIN firings : Lift(i)
  BY DEF Next, EvalStep, FaultStep, RequestStep, aeVars, tableVars, LoadRules, Judge,
         EnqueueNotification, EnqueueRejected, SelectIncident, WriteIncident, SelectLiftable,
         FinishCycle, SkipRule, RuleFails, CycleFails,
         SilenceRule, UpdateRule, DeleteChannel, AcknowledgeRead, AcknowledgeWrite,
         UpdateIncidentStatus
<1>7. QED
  BY <1>1, <1>2, <1>3, <1>4, <1>5, <1>6

-----------------------------------------------------------------------------
(* Incidents stay, each with its rule, and an acknowledgement in progress  *)
(* is of one of them.                                                      *)
LEMMA IncidentsStep ==
    ASSUME AlertTypeOK, WorkerAgrees, [Next]_aeVars
    PROVE  /\ incidents' \in Seq(Incident)
           /\ DOMAIN incidents \subseteq DOMAIN incidents' /\ Len(incidents') \in Nat
           /\ \A k \in DOMAIN incidents : incidents'[k].rule = incidents[k].rule
           /\ acks' \subseteq DOMAIN incidents'
<1> DEFINE Goal == /\ incidents' \in Seq(Incident)
                   /\ DOMAIN incidents \subseteq DOMAIN incidents' /\ Len(incidents') \in Nat
                   /\ \A k \in DOMAIN incidents : incidents'[k].rule = incidents[k].rule
<1>1. /\ incidents \in Seq(Incident) /\ acks \subseteq DOMAIN incidents
      /\ DOMAIN incidents = 1..Len(incidents) /\ Len(incidents) \in Nat
  BY DEF AlertTypeOK, Incident
<1>2. ASSUME UNCHANGED incidents PROVE Goal
  BY <1>1, <1>2
<1>3. ASSUME NEW k \in DOMAIN incidents, NEW s \in Statuses,
             incidents' = [incidents EXCEPT ![k].status = s]
      PROVE  Goal
  <2> DEFINE row == [incidents[k] EXCEPT !.status = s]
  <2>1. row \in Incident /\ row.rule = incidents[k].rule
    <3>1. incidents[k] \in Incident
      BY <1>1
    <3>2. QED
      BY <3>1 DEF Incident
  <2>2. incidents' = [incidents EXCEPT ![k] = row]
    BY <1>3
  <2> HIDE DEF row
  <2>3. QED
    BY <1>1, <2>1, <2>2
<1>4. ASSUME NEW row \in Incident, incidents' = Append(incidents, row)
      PROVE  Goal
  <2>1. /\ incidents' \in Seq(Incident) /\ Len(incidents') = Len(incidents) + 1
        /\ \A k \in DOMAIN incidents : incidents'[k] = incidents[k]
    BY <1>1, <1>4
  <2>2. DOMAIN incidents \subseteq DOMAIN incidents' /\ Len(incidents') \in Nat
    BY <1>1, <2>1
  <2>3. QED
    BY <2>1, <2>2
<1>5. \/ UNCHANGED incidents
      \/ \E k \in DOMAIN incidents, s \in Statuses : incidents' = [incidents EXCEPT ![k].status = s]
      \/ \E row \in Incident : incidents' = Append(incidents, row)
  <2>1. CASE WriteIncident
    <3>1. found # 0 => found \in DOMAIN incidents
      <4>1. found \in 0..Len(incidents)
        BY DEF AlertTypeOK
      <4>2. QED
        BY <1>1, <4>1
    <3>2. step = "incident" => RuleOf(job.fid) \in Rules
      BY JobType
    <3>3. step = "incident" => [rule |-> RuleOf(job.fid), status |-> "triggered"] \in Incident
      BY <3>2 DEF Incident, Statuses
    <3>4. QED
      BY <2>1, <3>1, <3>3 DEF WriteIncident, Statuses
  <2>2. ASSUME NEW k \in acks, AcknowledgeWrite(k)
        PROVE  \E s \in Statuses : incidents' = [incidents EXCEPT ![k].status = s]
    BY <2>2 DEF AcknowledgeWrite, Statuses
  <2>3. ASSUME NEW k \in DOMAIN incidents, NEW s \in Statuses, UpdateIncidentStatus(k, s)
        PROVE  incidents' = [incidents EXCEPT ![k].status = s]
    BY <2>3 DEF UpdateIncidentStatus
  <2>4. \/ UNCHANGED incidents \/ WriteIncident \/ \E k \in acks : AcknowledgeWrite(k)
        \/ \E k \in DOMAIN incidents, s \in Statuses : UpdateIncidentStatus(k, s)
    BY DEF Next, EvalStep, FaultStep, RequestStep, aeVars, tableVars, LoadRules, RecordFiring,
           ResolveOpenFiring, EnqueueNotification, EnqueueRejected, Judge, SelectIncident,
           Suppress, SelectLiftable, Lift,
           FinishCycle, SkipRule, RuleFails, CycleFails, SilenceRule, UpdateRule, DeleteChannel,
           AcknowledgeRead
  <2>5. QED
    BY <1>1, <2>1, <2>2, <2>3, <2>4
<1>6. Goal
  BY <1>2, <1>3, <1>4, <1>5
<1>7. acks' = acks \/ \E k \in DOMAIN incidents : acks' = acks \union {k} \/ acks' = acks \ {k}
  BY <1>1 DEF Next, EvalStep, FaultStep, RequestStep, aeVars, apiVars, LoadRules, RecordFiring,
         ResolveOpenFiring, EnqueueNotification, EnqueueRejected, Judge, SelectIncident,
         WriteIncident, Suppress,
         SelectLiftable, Lift, FinishCycle, SkipRule, RuleFails, CycleFails, SilenceRule,
         UpdateRule, DeleteChannel,
         AcknowledgeRead, AcknowledgeWrite, UpdateIncidentStatus
<1>8. QED
  BY <1>1, <1>6, <1>7

-----------------------------------------------------------------------------
(* A notification is queued in the state it reports, and what it reports   *)
(* stays true of its firing.                                               *)
LEMMA NoticesStep ==
    ASSUME AlertTypeOK, WorkerAgrees, NoticesMatchFirings, FiringsEvolve, [Next]_aeVars
    PROVE  audit' \subseteq Notices' /\ NoticesMatchFirings'
<1>1. \/ UNCHANGED audit
      \/ /\ step = "notify" /\ UNCHANGED firings
         /\ \E c \in job.chans : audit' = audit \union {<<job.fid, c, job.trigger>>}
  BY DEF Next, EvalStep, FaultStep, RequestStep, aeVars, tableVars, LoadRules, RecordFiring,
         ResolveOpenFiring, EnqueueNotification, EnqueueRejected, Judge, SelectIncident,
         WriteIncident, Suppress,
         SelectLiftable, Lift, FinishCycle, SkipRule, RuleFails, CycleFails, SilenceRule,
         UpdateRule, DeleteChannel,
         AcknowledgeRead, AcknowledgeWrite, UpdateIncidentStatus
<1>2. DOMAIN firings = 1..Len(firings) /\ DOMAIN firings' = 1..Len(firings')
  BY DEF AlertTypeOK, FiringsEvolve
<1>3. ASSUME NEW n \in audit
      PROVE  n \in Notices' /\ (IF n[3] = "resolved" THEN firings'[n[1]].state = "resolved"
                                                     ELSE firings'[n[1]].state # "pending")
  <2>1. /\ n[1] \in 1..Len(firings) /\ n[2] \in Channels /\ n[3] \in {"active", "resolved"}
        /\ n = <<n[1], n[2], n[3]>>
    BY DEF AlertTypeOK, Notices
  <2>2. n[1] \in 1..Len(firings')
    BY <1>2, <2>1 DEF FiringsEvolve
  <2>3. n \in Notices'
    BY <2>1, <2>2 DEF Notices
  <2>4. QED
    BY <1>2, <2>1, <2>3 DEF NoticesMatchFirings, FiringsEvolve
<1>4. ASSUME NEW c \in job.chans, step = "notify", UNCHANGED firings,
             NEW n, n = <<job.fid, c, job.trigger>>
      PROVE  n \in Notices' /\ (IF n[3] = "resolved" THEN firings'[n[1]].state = "resolved"
                                                     ELSE firings'[n[1]].state # "pending")
  <2>1. job.fid \in DOMAIN firings /\ c \in Channels /\ job.trigger \in {"active", "resolved"}
    BY <1>4, JobType
  <2>2. firings[job.fid].state = job.trigger
    BY <1>4 DEF WorkerAgrees
  <2>3. n[1] = job.fid /\ n[3] = job.trigger
    BY <1>4
  <2>4. n \in Notices'
    BY <1>2, <1>4, <2>1 DEF Notices
  <2>5. QED
    BY <1>4, <2>1, <2>2, <2>3, <2>4
<1>5. QED
  BY <1>1, <1>3, <1>4 DEF NoticesMatchFirings

(* The rules, the place in the cycle and the counters keep their types.    *)
LEMMA PlainStep ==
    ASSUME AlertTypeOK, [Next]_aeVars
    PROVE  /\ silenced' \subseteq Rules /\ missing' \subseteq Channels
           /\ service' \in [Rules -> Services \union {NoService}]
           /\ step' \in {"idle", "eval", "notify", "select", "incident", "liftable", "lift"}
           /\ phase' \in 0..5 /\ todo' \subseteq Rules
           /\ faults' \in Nat /\ requests' \in Nat
<1>1. /\ silenced \subseteq Rules /\ missing \subseteq Channels
      /\ service \in [Rules -> Services \union {NoService}]
      /\ step \in {"idle", "eval", "notify", "select", "incident", "liftable", "lift"}
      /\ phase \in 0..5 /\ todo \subseteq Rules
      /\ faults \in Nat /\ requests \in Nat
  BY DEF AlertTypeOK
<1>2. CASE EvalStep
  <2>1. /\ silenced' = silenced /\ service' = service /\ missing' = missing
        /\ requests' = requests /\ faults' = faults
    BY <1>1, <1>2 DEF EvalStep, apiVars, LoadRules, SkipRule, Judge, RecordFiring,
           ResolveOpenFiring, EnqueueNotification, EnqueueRejected, SelectIncident,
           WriteIncident, Suppress, SelectLiftable, Lift, EndCycle, FinishCycle
  <2>2. step' \in {"idle", "eval", "notify", "select", "incident", "liftable", "lift"}
    <3>1. ASSUME NEW r \in Rules, RecordFiring(r) PROVE step' = "notify" \/ step' = step
      BY <1>1, <3>1 DEF RecordFiring, StartJob
    <3>2. ASSUME NEW r \in Rules, ResolveOpenFiring(r) PROVE step' = "notify" \/ step' = step
      BY <1>1, <3>2 DEF ResolveOpenFiring, StartJob
    <3>3. CASE \/ LoadRules \/ EnqueueNotification \/ EnqueueRejected \/ SelectIncident
               \/ WriteIncident \/ Suppress \/ (\E r \in Rules : SkipRule(r))
               \/ SelectLiftable \/ FinishCycle \/ \E i \in DOMAIN firings : Lift(i)
      BY <1>1, <3>3 DEF LoadRules, SkipRule, EnqueueNotification, EnqueueRejected, StartJob,
             SelectIncident, WriteIncident, Suppress, SelectLiftable, Lift, FinishCycle, EndCycle
    <3>4. QED
      BY <1>1, <1>2, <3>1, <3>2, <3>3 DEF EvalStep, Judge
  <2>3. phase' \in 0..5 /\ todo' \subseteq Rules
    <3>1. CASE LoadRules
      BY <1>1, <3>1 DEF LoadRules
    <3>2. CASE \E r \in Rules : SkipRule(r) \/ RecordFiring(r) \/ ResolveOpenFiring(r)
      BY <1>1, <3>2 DEF SkipRule, RecordFiring, ResolveOpenFiring
    <3>3. ASSUME \/ EnqueueNotification \/ EnqueueRejected \/ SelectIncident
                 \/ WriteIncident \/ SelectLiftable
                 \/ Suppress \/ FinishCycle \/ \E i \in DOMAIN firings : Lift(i)
          PROVE  (phase' = phase /\ todo' = todo) \/ (phase' = 0 /\ todo' = {})
      BY <3>3 DEF EnqueueNotification, EnqueueRejected, Judge, SelectIncident, WriteIncident,
         SelectLiftable, Suppress,
             FinishCycle, Lift, EndCycle
    <3>4. QED
      BY <1>1, <1>2, <3>1, <3>2, <3>3 DEF EvalStep, Judge
  <2>4. QED
    BY <1>1, <2>1, <2>2, <2>3
<1>3. CASE FaultStep
  BY <1>1, <1>3 DEF FaultStep, apiVars, SkipRule, RuleFails, CycleFails, EndCycle, EvalFault
<1>4. CASE RequestStep
  BY <1>1, <1>4 DEF RequestStep, workVars, SilenceRule, UpdateRule, DeleteChannel,
     AcknowledgeRead, AcknowledgeWrite,
         UpdateIncidentStatus, Request
<1>5. CASE UNCHANGED aeVars
  BY <1>1, <1>5 DEF aeVars
<1>6. QED
  BY <1>2, <1>3, <1>4, <1>5 DEF Next

(* What phase 2 of the suppression pass has yet to lift stays suppressed   *)
(* until it is lifted.                                                     *)
LEMMA LiftedStep ==
    ASSUME AlertTypeOK, FiringsInv, WorkerAgrees, FiringsEvolve, [Next]_aeVars
    PROVE  /\ lifted' \subseteq DOMAIN firings'
           /\ \A i \in lifted' : firings'[i].state = "suppressed"
<1>1. /\ lifted \subseteq DOMAIN firings /\ DOMAIN firings \subseteq DOMAIN firings'
      /\ \A i \in lifted : firings[i].state = "suppressed"
      /\ firings \in Seq(Firing)
  BY DEF AlertTypeOK, WorkerAgrees, FiringsEvolve, Firing
<1>2. CASE UNCHANGED firings /\ lifted' \subseteq lifted
  BY <1>1, <1>2
<1>3. CASE lifted' = {}
  BY <1>3
<1>4. CASE SelectLiftable
  BY <1>4 DEF SelectLiftable, tableVars
<1>5. ASSUME NEW r \in Rules, RecordFiring(r) \/ ResolveOpenFiring(r)
      PROVE  lifted' = lifted /\ \A i \in lifted : firings'[i] = firings[i]
  <2>1. \A i \in OpenFirings(r) : i \notin lifted
    BY <1>1 DEF OpenFirings
  <2>2. Len(firings) + 1 \notin DOMAIN firings
    BY <1>1
  <2>3. lifted' = lifted
    BY <1>5 DEF RecordFiring, ResolveOpenFiring
  <2>4. \/ UNCHANGED firings
        \/ \E i \in OpenFirings(r), s \in {"active", "resolved"} :
              firings' = [firings EXCEPT ![i].state = s]
        \/ \E row : firings' = Append(firings, row)
    BY <1>5, <2>2 DEF RecordFiring, ResolveOpenFiring, OpenFirings
  <2>5. QED
    BY <1>1, <2>1, <2>2, <2>3, <2>4
<1>6. ASSUME Suppress
      PROVE  lifted' = lifted /\ \A i \in lifted : firings'[i] = firings[i]
  <2>1. lifted \cap Suppressible = {}
    BY <1>1 DEF Suppressible
  <2>2. QED
    BY <1>1, <1>6, <2>1 DEF Suppress
<1>7. ASSUME NEW i \in DOMAIN firings, Lift(i)
      PROVE  lifted' \subseteq lifted /\ \A j \in lifted' : firings'[j] = firings[j]
  BY <1>1, <1>7 DEF Lift, EndCycle
<1>8. \/ UNCHANGED firings /\ lifted' \subseteq lifted
      \/ lifted' = {} \/ SelectLiftable \/ Suppress
      \/ \E r \in Rules : RecordFiring(r) \/ ResolveOpenFiring(r)
      \/ \E i \in DOMAIN firings : Lift(i)
  BY DEF Next, EvalStep, FaultStep, RequestStep, aeVars, tableVars, workVars, LoadRules,
         EnqueueNotification, EnqueueRejected, Judge, SelectIncident, WriteIncident, FinishCycle,
         EndCycle, SkipRule,
         RuleFails, CycleFails, SilenceRule, UpdateRule, DeleteChannel, AcknowledgeRead,
         AcknowledgeWrite,
         UpdateIncidentStatus
<1>9. QED
  BY <1>1, <1>2, <1>3, <1>4, <1>5, <1>6, <1>7, <1>8

(* What the worker remembers of the firing it reports and of the incident  *)
(* that it found.                                                          *)
JobAgrees ==
    /\ job \in [fid : 0..Len(firings), trigger : {"active", "resolved"},
                chans : SUBSET Channels, lift : BOOLEAN]
    /\ found \in 0..Len(incidents)
    /\ step \in {"notify", "select", "incident"} =>
          /\ job.fid # 0
          /\ firings[job.fid].state = job.trigger
          /\ job.trigger = "resolved" => OpenFirings(RuleOf(job.fid)) = {}
    /\ step = "incident" /\ found # 0 => incidents[found].rule = RuleOf(job.fid)

(* A worker that has just noted a firing has noted what it wrote.          *)
LEMMA JobStarts ==
    ASSUME AlertTypeOK, FiringsEvolve, NEW i \in DOMAIN firings', NEW r \in Rules,
           NEW trigger \in {"active", "resolved"}, NEW lift \in BOOLEAN,
           StartJob(i, r, trigger, lift), found' = found, incidents' = incidents,
           firings'[i].state = trigger,
           trigger = "resolved" =>
              \A j \in DOMAIN firings' :
                 firings'[j].rule = firings'[i].rule => firings'[j].state \notin Open
    PROVE  JobAgrees'
<1>1. i \in 0..Len(firings') /\ i # 0 /\ ChannelsOf[r] \in SUBSET Channels
  <2>1. DOMAIN firings' = 1..Len(firings') /\ Len(firings') \in Nat
    BY DEF FiringsEvolve
  <2>2. QED
    BY <2>1 DEF Channels
<1>2. /\ job' = [fid |-> i, trigger |-> trigger, chans |-> ChannelsOf[r], lift |-> lift]
      /\ step' = "notify"
  BY DEF StartJob
<1>3. /\ job' \in [fid : 0..Len(firings'), trigger : {"active", "resolved"},
                   chans : SUBSET Channels, lift : BOOLEAN]
      /\ job'.fid = i /\ job'.trigger = trigger
  BY <1>1, <1>2
<1>4. found' \in 0..Len(incidents')
  BY DEF AlertTypeOK
<1>5. job'.trigger = "resolved" => OpenFirings(RuleOf(job.fid))' = {}
  BY <1>3 DEF OpenFirings, RuleOf, Open
<1>6. QED
  BY <1>1, <1>2, <1>3, <1>4, <1>5 DEF JobAgrees

(* A worker that goes back to the rules or to sleep need remember nothing. *)
LEMMA JobEnds ==
    ASSUME AlertTypeOK, FiringsEvolve, DOMAIN incidents \subseteq DOMAIN incidents',
           incidents' \in Seq(Incident), job' \in {job, NoJob}, found' \in {found, 0},
           step' \notin {"notify", "select", "incident"}
    PROVE  JobAgrees'
<1>1. /\ DOMAIN firings = 1..Len(firings) /\ DOMAIN firings' = 1..Len(firings')
      /\ Len(firings) \in Nat /\ Len(firings') \in Nat
      /\ DOMAIN incidents = 1..Len(incidents) /\ Len(incidents) \in Nat
  BY DEF AlertTypeOK, FiringsEvolve
<1>2. 0..Len(firings) \subseteq 0..Len(firings')
  BY <1>1 DEF FiringsEvolve
<1>3. found' \in 0..Len(incidents')
  <2>1. found \in 0..Len(incidents)
    BY DEF AlertTypeOK
  <2>2. DOMAIN incidents' = 1..Len(incidents') /\ Len(incidents') \in Nat
    OBVIOUS
  <2>3. QED
    BY <1>1, <2>1, <2>2
<1>4. /\ job \in [fid : 0..Len(firings), trigger : {"active", "resolved"},
                  chans : SUBSET Channels, lift : BOOLEAN]
      /\ NoJob \in [fid : 0..Len(firings'), trigger : {"active", "resolved"},
                    chans : SUBSET Channels, lift : BOOLEAN]
  BY <1>1 DEF AlertTypeOK, NoJob
<1>5. job' \in [fid : 0..Len(firings'), trigger : {"active", "resolved"},
               chans : SUBSET Channels, lift : BOOLEAN]
  BY <1>2, <1>4
<1>6. QED
  BY <1>3, <1>5 DEF JobAgrees

(* Every step keeps what the worker remembers true of the tables.          *)
LEMMA JobStep ==
    ASSUME AlertTypeOK, FiringsInv, WorkerAgrees, FiringsEvolve, [Next]_aeVars
    PROVE  JobAgrees'
<1>1. /\ firings' \in Seq(Firing) /\ DOMAIN firings' = 1..Len(firings') /\ Len(firings') \in Nat
      /\ firings \in Seq(Firing) /\ DOMAIN firings = 1..Len(firings) /\ Len(firings) \in Nat
  BY DEF FiringsEvolve, AlertTypeOK, Firing
<1>2. /\ incidents' \in Seq(Incident) /\ DOMAIN incidents \subseteq DOMAIN incidents'
      /\ \A k \in DOMAIN incidents : incidents'[k].rule = incidents[k].rule
  BY IncidentsStep
<1>3. JobAgrees
  BY DEF AlertTypeOK, WorkerAgrees, JobAgrees
<1>4. CASE UNCHANGED <<firings, step, job, found>>
  <2>1. found \in 0..Len(incidents')
    <3>1. DOMAIN incidents = 1..Len(incidents) /\ Len(incidents) \in Nat
      BY DEF AlertTypeOK
    <3>2. DOMAIN incidents' = 1..Len(incidents') /\ Len(incidents') \in Nat
      BY <1>2
    <3>3. QED
      BY <1>2, <1>3, <3>1, <3>2 DEF JobAgrees
  <2>2. step = "incident" /\ found # 0 => incidents'[found].rule = RuleOf(job.fid)
    <3>1. found # 0 => found \in DOMAIN incidents
      BY <1>3 DEF JobAgrees, AlertTypeOK
    <3>2. QED
      BY <1>2, <1>3, <3>1 DEF JobAgrees
  <2>3. QED
    BY <1>3, <1>4, <2>1, <2>2 DEF JobAgrees, OpenFirings, RuleOf
<1>5. ASSUME job' \in {job, NoJob}, found' \in {found, 0},
             step' \notin {"notify", "select", "incident"}
      PROVE  JobAgrees'
  BY <1>2, <1>5, JobEnds
<1>6. ASSUME NEW r \in Rules, RecordFiring(r) PROVE JobAgrees'
  <2>1. PICK i \in DOMAIN firings \union {Len(firings) + 1} :
          /\ i \in DOMAIN firings'
          /\ IF firings'[i].state = "active"
             THEN StartJob(i, r, "active", FALSE)
             ELSE UNCHANGED <<job, step>>
    <3>1. PICK i \in DOMAIN firings \union {Len(firings) + 1} :
             /\ \/ /\ i \in OpenFirings(r)
                   /\ \/ UNCHANGED firings
                      \/ firings' = [firings EXCEPT ![i].state = "active"]
                \/ /\ i = Len(firings) + 1
                   /\ \E row : firings' = Append(firings, row)
             /\ IF firings'[i].state = "active"
                THEN StartJob(i, r, "active", FALSE)
                ELSE UNCHANGED <<job, step>>
      BY <1>6 DEF RecordFiring
    <3>2. i \in DOMAIN firings'
      <4>1. i \in OpenFirings(r) => i \in DOMAIN firings
        BY DEF OpenFirings
      <4>2. CASE \E row : i = Len(firings) + 1 /\ firings' = Append(firings, row)
        BY <1>1, <4>2
      <4>3. QED
        BY <3>1, <4>1, <4>2
    <3>3. QED
      BY <3>1, <3>2
  <2>2. incidents' = incidents /\ found' = found /\ step = "eval"
    BY <1>6 DEF RecordFiring
  <2>3. CASE firings'[i].state = "active"
    BY <1>6, <2>1, <2>2, <2>3, JobStarts
  <2>4. CASE UNCHANGED <<job, step>>
    BY <1>5, <2>2, <2>4
  <2>5. QED
    BY <2>1, <2>3, <2>4
<1>7. ASSUME NEW r \in Rules, ResolveOpenFiring(r) PROVE JobAgrees'
  <2>1. incidents' = incidents /\ found' = found /\ step = "eval"
    BY <1>7 DEF ResolveOpenFiring
  <2>2. CASE UNCHANGED <<job, step>>
    BY <1>5, <2>1, <2>2
  <2>3. ASSUME NEW i \in OpenFirings(r),
               firings' = [firings EXCEPT ![i].state = "resolved"],
               StartJob(i, r, "resolved", FALSE)
        PROVE  JobAgrees'
    <3>1. i \in DOMAIN firings /\ RuleOf(i) = r /\ firings[i].state \in Open
      BY DEF OpenFirings, Open
    <3>2. /\ DOMAIN firings' = DOMAIN firings
          /\ \A j \in DOMAIN firings : firings'[j].rule = firings[j].rule
          /\ \A j \in DOMAIN firings \ {i} : firings'[j] = firings[j]
          /\ firings'[i].state = "resolved"
      BY <1>1, <2>3, <3>1, SetState DEF FiringStates
    <3>3. \A j \in DOMAIN firings' :
             firings'[j].rule = firings'[i].rule => firings'[j].state \notin Open
      <4> SUFFICES ASSUME NEW j \in DOMAIN firings', firings'[j].rule = firings'[i].rule,
                          firings'[j].state \in Open
                   PROVE  FALSE
        OBVIOUS
      <4>1. j # i /\ j \in DOMAIN firings /\ firings[j].state \in Open /\ RuleOf(j) = RuleOf(i)
        BY <3>1, <3>2 DEF Open, RuleOf
      <4>2. QED
        BY <3>1, <4>1 DEF FiringsInv, OneOpenFiring, Open
    <3>4. QED
      BY <2>1, <2>3, <3>1, <3>2, <3>3, JobStarts
  <2>4. QED
    BY <1>7, <2>2, <2>3 DEF ResolveOpenFiring
<1>8. CASE EnqueueNotification
  <2>1. /\ step = "notify" /\ firings' = firings /\ incidents' = incidents /\ found' = found
    BY <1>8 DEF EnqueueNotification, EnqueueRejected, Judge
  <2>2. ASSUME NEW c \in job.chans, job' = [job EXCEPT !.chans = @ \ {c}], step' = step
        PROVE  JobAgrees'
    <3>1. /\ job' \in [fid : 0..Len(firings), trigger : {"active", "resolved"},
                       chans : SUBSET Channels, lift : BOOLEAN]
          /\ job'.fid = job.fid /\ job'.trigger = job.trigger
      BY <1>3, <2>2 DEF JobAgrees
    <3>2. QED
      BY <1>3, <2>1, <2>2, <3>1 DEF JobAgrees, OpenFirings, RuleOf
  <2>3. CASE step' = "select" /\ job' = job
    BY <1>3, <2>1, <2>3 DEF JobAgrees, OpenFirings, RuleOf
  <2>4. CASE step' \in {"lift", "eval"} /\ job' = NoJob
    BY <1>5, <2>1, <2>4
  <2>5. QED
    BY <1>8, <2>2, <2>3, <2>4 DEF EnqueueNotification, EnqueueRejected, Judge
<1>9. CASE SelectIncident
  <2>1. /\ step = "select" /\ step' = "incident" /\ UNCHANGED <<firings, incidents, job>>
        /\ \/ found' \in OpenIncidents(RuleOf(job.fid))
           \/ found' = 0
    BY <1>9 DEF SelectIncident, tableVars
  <2>2. found' # 0 => found' \in DOMAIN incidents /\ incidents[found'].rule = RuleOf(job.fid)
    BY <2>1 DEF OpenIncidents
  <2>3. found' \in 0..Len(incidents)
    <3>1. DOMAIN incidents = 1..Len(incidents) /\ Len(incidents) \in Nat
      BY DEF AlertTypeOK
    <3>2. QED
      BY <2>2, <3>1
  <2>4. QED
    BY <1>3, <2>1, <2>2, <2>3 DEF JobAgrees, OpenFirings, RuleOf
<1>10. ASSUME NEW i \in DOMAIN firings, Lift(i) PROVE JobAgrees'
  <2>1. incidents' = incidents /\ step = "lift" /\ i \in lifted
    BY <1>10 DEF Lift
  <2>2. CASE EndCycle
    BY <1>5, <2>2 DEF EndCycle
  <2>3. ASSUME firings' = [firings EXCEPT
                              ![i] = [rule |-> RuleOf(i), state |-> "active", by |-> 0]],
               StartJob(i, RuleOf(i), "active", TRUE), found' = found
        PROVE  JobAgrees'
    <3>1. i \in DOMAIN firings' /\ firings'[i].state = "active"
      BY <1>1, <2>3
    <3>2. QED
      BY <2>1, <2>3, <3>1, FiringType, JobStarts
  <2>4. QED
    BY <1>10, <2>2, <2>3 DEF Lift
<1>11. CASE LoadRules \/ WriteIncident \/ Suppress \/ SelectLiftable \/ FinishCycle
  BY <1>5, <1>11 DEF LoadRules, WriteIncident, Suppress, SelectLiftable, FinishCycle, EndCycle
<1>16. CASE EnqueueRejected \/ \E r \in Rules : SkipRule(r)
  BY <1>5, <1>16 DEF EnqueueRejected, SkipRule, EndCycle, tableVars
<1>12. CASE FaultStep
  BY <1>4, <1>5, <1>12 DEF FaultStep, SkipRule, RuleFails, CycleFails, EndCycle, tableVars
<1>13. CASE RequestStep
  BY <1>4, <1>13 DEF RequestStep, tableVars, workVars, SilenceRule, UpdateRule, DeleteChannel,
     AcknowledgeRead,
         AcknowledgeWrite, UpdateIncidentStatus
<1>14. CASE UNCHANGED aeVars
  BY <1>4, <1>14 DEF aeVars
<1>15. QED
  BY <1>6, <1>7, <1>8, <1>9, <1>10, <1>11, <1>12, <1>13, <1>14, <1>16 DEF Next, EvalStep, Judge

-----------------------------------------------------------------------------
(* The inductive invariant: the firings, the notifications and what the    *)
(* worker remembers of them are sound together.                            *)
AlertInv == FiringsAreSound /\ NoticesMatchFirings

(* Every step keeps the invariant and moves each firing as its state allows. *)
LEMMA AlertInductive ==
    ASSUME AlertInv, [Next]_aeVars
    PROVE  AlertInv' /\ FiringsEvolve
<1>1. AlertTypeOK /\ FiringsInv /\ WorkerAgrees /\ NoticesMatchFirings
  BY DEF AlertInv, FiringsAreSound, FiringsInv
<1>2. FiringsEvolve
  BY <1>1, FiringsStep
<1>3. audit' \subseteq Notices' /\ NoticesMatchFirings'
  BY <1>1, <1>2, NoticesStep
<1>4. JobAgrees'
  BY <1>1, <1>2, JobStep
<1>5. lifted' \subseteq DOMAIN firings' /\ \A i \in lifted' : firings'[i].state = "suppressed"
  BY <1>1, <1>2, LiftedStep
<1>6. AlertTypeOK'
  <2>1. incidents' \in Seq(Incident) /\ acks' \subseteq DOMAIN incidents'
    BY <1>1, IncidentsStep
  <2>2. QED
    BY <1>1, <1>2, <1>3, <1>4, <1>5, <2>1, PlainStep
    DEF AlertTypeOK, FiringsEvolve, JobAgrees, Firing, Incident
<1>7. WorkerAgrees'
  BY <1>4, <1>5 DEF WorkerAgrees, JobAgrees
<1>8. QED
  BY <1>2, <1>3, <1>6, <1>7 DEF AlertInv, FiringsAreSound, FiringsEvolve

(* The invariant holds in an empty database, before the first evaluation.  *)
LEMMA AlertStarts == Init => AlertInv
<1> SUFFICES ASSUME Init PROVE AlertInv
  OBVIOUS
<1>1. AlertTypeOK
  BY AlertAssumption DEF Init, AlertTypeOK, NoJob, Notices, FiringStates, Statuses
<1>2. QED
  BY <1>1 DEF Init, AlertInv, FiringsAreSound, OneOpenFiring, InhibitorIsCritical, WorkerAgrees,
         NoticesMatchFirings

(* The invariant from which the four theorems below follow.                *)
LEMMA AlertInvariant == Spec => []AlertInv
<1>1. AlertInv /\ [Next]_aeVars => AlertInv'
  BY AlertInductive
<1>2. QED
  BY <1>1, AlertStarts, PTL DEF Spec

(* Firings stay sound for any set of rules, services and channels: one     *)
(* open firing per rule, suppressed firings that name a critical one which *)
(* can release them, and a worker whose notes are never out of date.       *)
THEOREM FiringsSound == Spec => []FiringsAreSound
<1>1. AlertInv => FiringsAreSound
  BY DEF AlertInv
<1>2. QED
  BY <1>1, AlertInvariant, PTL

(* What channels are told stays true of the firing.                        *)
THEOREM NoticesSound == Spec => []NoticesMatchFirings
<1>1. AlertInv => NoticesMatchFirings
  BY DEF AlertInv
<1>2. QED
  BY <1>1, AlertInvariant, PTL

(* No statement of the worker, the suppression pass included, reopens a    *)
(* firing that has resolved.                                               *)
THEOREM ResolvedStaysResolved == Spec => ResolvedIsFinal
<1>1. AlertInv /\ [Next]_aeVars =>
        [\A i \in DOMAIN firings :
            firings[i].state = "resolved" => firings'[i].state = "resolved"]_aeVars
  BY AlertInductive DEF FiringsEvolve
<1>2. QED
  BY <1>1, AlertInvariant, PTL DEF Spec, ResolvedIsFinal

(* The worker opens an incident for a rule with an active firing only, and *)
(* resolves one when the rule has no open firing, although it looked at    *)
(* the firing several statements before.                                   *)
THEOREM IncidentsFollow == Spec => IncidentsFollowFirings
<1> DEFINE Follows ==
      step = "incident" =>
          /\ Len(incidents') > Len(incidents) => IsActive(incidents'[Len(incidents')].rule)
          /\ \A k \in DOMAIN incidents :
                incidents'[k].status = "resolved" /\ incidents[k].status # "resolved"
                    /\ requests' = requests
                => OpenFirings(incidents[k].rule) = {}
<1>1. ASSUME AlertInv, Next PROVE Follows
  <2> SUFFICES ASSUME step = "incident" PROVE Follows
    OBVIOUS
  <2>1. /\ AlertTypeOK
        /\ firings[job.fid].state = job.trigger
        /\ job.trigger = "resolved" => OpenFirings(RuleOf(job.fid)) = {}
        /\ found # 0 => incidents[found].rule = RuleOf(job.fid)
        /\ job.fid \in DOMAIN firings /\ found \in 0..Len(incidents)
    BY <1>1, JobType DEF AlertInv, FiringsAreSound, AlertTypeOK, WorkerAgrees
  <2>2. incidents \in Seq(Incident) /\ DOMAIN incidents = 1..Len(incidents) /\ Len(incidents) \in Nat
    BY <2>1 DEF AlertTypeOK, Incident
  <2>3. CASE UNCHANGED incidents
    BY <2>2, <2>3
  <2>4. CASE job.trigger = "active" /\
             incidents' = Append(incidents, [rule |-> RuleOf(job.fid), status |-> "triggered"])
    <3>1. Len(incidents') = Len(incidents) + 1 /\ incidents'[Len(incidents')].rule = RuleOf(job.fid)
      BY <2>2, <2>4
    <3>2. \A k \in DOMAIN incidents : incidents'[k] = incidents[k]
      BY <2>2, <2>4
    <3>3. IsActive(RuleOf(job.fid))
      BY <2>1, <2>4 DEF IsActive
    <3>4. QED
      BY <3>1, <3>2, <3>3
  <2>5. CASE job.trigger = "resolved" /\ found # 0 /\
             incidents' = [incidents EXCEPT ![found].status = "resolved"]
    <3>1. \A k \in DOMAIN incidents \ {found} : incidents'[k] = incidents[k]
      BY <2>5
    <3>2. Len(incidents') = Len(incidents)
      BY <2>2, <2>5
    <3>3. OpenFirings(incidents[found].rule) = {}
      BY <2>1, <2>5
    <3>4. QED
      BY <2>2, <3>1, <3>2, <3>3
  <2>6. CASE RequestStep
    <3>1. CASE \E k \in acks : AcknowledgeWrite(k)
      <4>1. PICK k \in acks : incidents' = [incidents EXCEPT ![k].status = "acknowledged"]
        BY <3>1 DEF AcknowledgeWrite
      <4>2. k \in DOMAIN incidents
        BY <2>1 DEF AlertTypeOK
      <4>3. Len(incidents') = Len(incidents)
        BY <2>2, <4>1
      <4>4. /\ \A j \in DOMAIN incidents \ {k} : incidents'[j] = incidents[j]
            /\ incidents'[k].status = "acknowledged"
        <5>1. incidents[k] \in Incident
          BY <2>2, <4>2
        <5>2. QED
          BY <4>1, <4>2, <5>1 DEF Incident
      <4>5. QED
        BY <2>2, <4>3, <4>4
    <3>2. CASE requests' = requests + 1 /\ Len(incidents') = Len(incidents)
      <4>1. requests' # requests
        BY <2>1, <3>2 DEF AlertTypeOK
      <4>2. QED
        BY <2>2, <3>2, <4>1
    <3>3. ASSUME NEW k \in DOMAIN incidents, NEW s \in Statuses, UpdateIncidentStatus(k, s)
          PROVE  requests' = requests + 1 /\ Len(incidents') = Len(incidents)
      <4>1. incidents' = [incidents EXCEPT ![k].status = s] /\ requests' = requests + 1
        BY <3>3 DEF UpdateIncidentStatus, Request
      <4>2. QED
        BY <2>2, <4>1
    <3>4. UNCHANGED incidents \/ (\E k \in acks : AcknowledgeWrite(k))
            \/ \E k \in DOMAIN incidents, s \in Statuses : UpdateIncidentStatus(k, s)
      BY <2>6 DEF RequestStep, tableVars, SilenceRule, UpdateRule, DeleteChannel, AcknowledgeRead
    <3>5. QED
      BY <2>3, <3>1, <3>2, <3>3, <3>4
  <2>7. WriteIncident \/ UNCHANGED incidents \/ RequestStep
    BY <1>1 DEF Next, EvalStep, FaultStep, tableVars, LoadRules, RecordFiring, ResolveOpenFiring,
           EnqueueNotification, EnqueueRejected, Judge, SelectIncident, Suppress, SelectLiftable,
           Lift, FinishCycle,
           SkipRule, RuleFails, CycleFails
  <2>8. QED
    BY <2>3, <2>4, <2>5, <2>6, <2>7 DEF WriteIncident
<1>2. AlertInv /\ [Next]_aeVars => [Follows]_aeVars
  BY <1>1
<1>3. QED
  BY <1>2, AlertInvariant, PTL DEF Spec, IncidentsFollowFirings

(***************************************************************************)
(* The queue of notifications.                                             *)
(***************************************************************************)
(* Two sets of workers that differ in one worker at most.                  *)
LEMMA OneWorker ==
    ASSUME NEW S \in SUBSET Workers, NEW T \in SUBSET Workers, NEW w \in Workers,
           \A v \in Workers \ {w} : v \in S <=> v \in T
    PROVE  /\ Cardinality(S) \in Nat /\ Cardinality(T) \in Nat
           /\ w \in S /\ w \notin T => Cardinality(S) = Cardinality(T) + 1
           /\ w \notin S /\ w \in T => Cardinality(T) = Cardinality(S) + 1
           /\ (w \in S <=> w \in T) => Cardinality(S) = Cardinality(T)
<1>1. IsFiniteSet(S) /\ IsFiniteSet(T)
  BY NotificationAssumption, FS_Subset
<1>2. Cardinality(S) \in Nat /\ Cardinality(T) \in Nat
  BY <1>1, FS_CardinalityType
<1>3. ASSUME w \in S, w \notin T PROVE Cardinality(S) = Cardinality(T) + 1
  <2>1. S = T \union {w}
    BY <1>3
  <2>2. QED
    BY <1>1, <1>3, <2>1, FS_AddElement
<1>4. ASSUME w \notin S, w \in T PROVE Cardinality(T) = Cardinality(S) + 1
  <2>1. T = S \union {w}
    BY <1>4
  <2>2. QED
    BY <1>1, <1>4, <2>1, FS_AddElement
<1>5. ASSUME w \in S <=> w \in T PROVE Cardinality(S) = Cardinality(T)
  <2>1. S = T
    BY <1>5
  <2>2. QED
    BY <2>1
<1>6. QED
  BY <1>2, <1>3, <1>4, <1>5

(* A set of workers is no larger than one that contains it.                *)
LEMMA FewerWorkers ==
    ASSUME NEW S \in SUBSET Workers, NEW T \in SUBSET S
    PROVE  /\ Cardinality(S) \in Nat /\ Cardinality(T) \in Nat
           /\ Cardinality(T) <= Cardinality(S)
<1>1. IsFiniteSet(S) /\ IsFiniteSet(T)
  BY NotificationAssumption, FS_Subset
<1>2. QED
  BY <1>1, FS_CardinalityType, FS_Subset

(* Who posts a row has read it, and who retries it has read it.            *)
LEMMA Counts ==
    ASSUME NtTypeOK, NEW k, k # <<>>
    PROVE  /\ Cardinality(Workers) \in Nat \ {0}
           /\ Cardinality(Readers(k)) \in Nat /\ Cardinality(Retriers(k)) \in Nat
           /\ Cardinality(Posters(k)) \in Nat
           /\ Cardinality(Posters(k)) <= Cardinality(Readers(k))
           /\ Cardinality(Retriers(k)) <= Cardinality(Readers(k))
           /\ Cardinality(Readers(k)) <= Cardinality(Workers)
<1>1. Readers(k) \subseteq Workers /\ Retriers(k) \subseteq Readers(k)
  BY DEF Readers, Retriers
<1>2. Posters(k) \subseteq Readers(k)
  BY DEF Posters, Readers, NtTypeOK, Busy
<1>3. Cardinality(Workers) # 0
  BY NotificationAssumption, FS_EmptySet
<1>4. QED
  BY <1>1, <1>2, <1>3, FewerWorkers

(* No row is the empty hand.                                               *)
LEMMA RowsAreNotIdle ==
    ASSUME NtTypeOK, NEW k \in DOMAIN queue
    PROVE  k # <<>>
  BY DEF NtTypeOK, Keys

(* The numbers of PostLimit: a retry that every worker but one still has   *)
(* in its batch, and an outcome of every worker after the last retry.      *)
LEMMA LimitSuffices ==
    ASSUME NEW R \in Nat, NEW W \in Nat \ {0}, NEW r \in Nat,
           NEW readers \in Nat, NEW retriers \in Nat, readers <= W, retriers <= readers,
           (R = 0 /\ r = 0) \/ (R > 0 /\ r + retriers < R + W)
    PROVE  r + readers <= (R + 1) * W
<1>1. CASE R = 0 /\ r = 0
  BY <1>1
<1>2. CASE R > 0 /\ r + retriers < R + W
  <2>1. PICK x \in Nat, y \in Nat : R = x + 1 /\ W = y + 1
    <3>1. R - 1 \in Nat /\ W - 1 \in Nat /\ R = (R - 1) + 1 /\ W = (W - 1) + 1
      BY <1>2
    <3>2. QED
      BY <3>1
  <2>2. (R + 1) * W = x * y + x + 2 * y + 2 /\ x * y \in Nat
    BY <2>1
  <2>3. r + readers <= x + 2 * y + 2
    BY <1>2, <2>1
  <2>4. QED
    BY <2>1, <2>2, <2>3
<1>3. QED
  BY <1>1, <1>2

(* The limit, for a row.                                                   *)
LEMMA RowLimit ==
    ASSUME NtTypeOK, NEW k \in DOMAIN queue, RowCounted(k)
    PROVE  PostLimit \in Nat /\ queue[k].retries + Cardinality(Readers(k)) <= PostLimit
<1>1. k # <<>> /\ queue[k].retries \in Nat /\ RetryLimit \in Nat
  BY NotificationAssumption, RowsAreNotIdle DEF NtTypeOK
<1>2. PICK R \in Nat, W \in Nat \ {0} : R = RetryLimit /\ W = Cardinality(Workers)
  BY <1>1, Counts
<1>3. PICK r \in Nat, readers \in Nat, retriers \in Nat :
         /\ r = queue[k].retries
         /\ readers = Cardinality(Readers(k)) /\ retriers = Cardinality(Retriers(k))
  BY <1>1, Counts
<1>4. /\ readers <= W /\ retriers <= readers
      /\ (R = 0 /\ r = 0) \/ (R > 0 /\ r + retriers < R + W)
  BY <1>1, <1>2, <1>3, Counts DEF RowCounted
<1>5. r + readers <= (R + 1) * W
  BY <1>4, LimitSuffices
<1>6. (R + 1) * W \in Nat
  OBVIOUS
<1>7. QED
  BY <1>2, <1>3, <1>5, <1>6 DEF PostLimit

(* How the counts of a row move when one worker goes on.                   *)
LEMMA CountsMove ==
    ASSUME NEW w \in Workers, \A v \in Workers \ {w} : cycle'[v] = cycle[v], NEW k
    PROVE  /\ Cardinality(Posters(k)) \in Nat /\ Cardinality(Posters(k))' \in Nat
           /\ Cardinality(Readers(k)) \in Nat /\ Cardinality(Readers(k))' \in Nat
           /\ Cardinality(Retriers(k)) \in Nat /\ Cardinality(Retriers(k))' \in Nat
           /\ w \in Posters(k) /\ w \notin Posters(k)' =>
                 Cardinality(Posters(k)) = Cardinality(Posters(k))' + 1
           /\ w \notin Posters(k) /\ w \in Posters(k)' =>
                 Cardinality(Posters(k))' = Cardinality(Posters(k)) + 1
           /\ (w \in Posters(k) <=> w \in Posters(k)') =>
                 Cardinality(Posters(k))' = Cardinality(Posters(k))
           /\ w \in Readers(k) /\ w \notin Readers(k)' =>
                 Cardinality(Readers(k)) = Cardinality(Readers(k))' + 1
           /\ w \notin Readers(k) /\ w \in Readers(k)' =>
                 Cardinality(Readers(k))' = Cardinality(Readers(k)) + 1
           /\ (w \in Readers(k) <=> w \in Readers(k)') =>
                 Cardinality(Readers(k))' = Cardinality(Readers(k))
           /\ w \in Retriers(k) /\ w \notin Retriers(k)' =>
                 Cardinality(Retriers(k)) = Cardinality(Retriers(k))' + 1
           /\ w \notin Retriers(k) /\ w \in Retriers(k)' =>
                 Cardinality(Retriers(k))' = Cardinality(Retriers(k)) + 1
           /\ (w \in Retriers(k) <=> w \in Retriers(k)') =>
                 Cardinality(Retriers(k))' = Cardinality(Retriers(k))
<1>1. \A v \in Workers \ {w} : v \in Posters(k) <=> v \in Posters(k)'
  BY DEF Posters
<1>2. \A v \in Workers \ {w} : v \in Readers(k) <=> v \in Readers(k)'
  BY DEF Readers
<1>3. \A v \in Workers \ {w} : v \in Retriers(k) <=> v \in Retriers(k)'
  BY DEF Readers, Retriers
<1>4. /\ Posters(k) \subseteq Workers /\ Posters(k)' \subseteq Workers
      /\ Readers(k) \subseteq Workers /\ Readers(k)' \subseteq Workers
      /\ Retriers(k) \subseteq Workers /\ Retriers(k)' \subseteq Workers
  BY DEF Posters, Readers, Retriers
<1>5. PICK S1, T1, S2, T2, S3, T3 : /\ S1 = Posters(k) /\ T1 = Posters(k)'
                                    /\ S2 = Readers(k) /\ T2 = Readers(k)'
                                    /\ S3 = Retriers(k) /\ T3 = Retriers(k)'
  OBVIOUS
<1>6. /\ Cardinality(S1) \in Nat /\ Cardinality(T1) \in Nat
      /\ w \in S1 /\ w \notin T1 => Cardinality(S1) = Cardinality(T1) + 1
      /\ w \notin S1 /\ w \in T1 => Cardinality(T1) = Cardinality(S1) + 1
      /\ (w \in S1 <=> w \in T1) => Cardinality(S1) = Cardinality(T1)
  BY <1>1, <1>4, <1>5, OneWorker
<1>7. /\ Cardinality(S2) \in Nat /\ Cardinality(T2) \in Nat
      /\ w \in S2 /\ w \notin T2 => Cardinality(S2) = Cardinality(T2) + 1
      /\ w \notin S2 /\ w \in T2 => Cardinality(T2) = Cardinality(S2) + 1
      /\ (w \in S2 <=> w \in T2) => Cardinality(S2) = Cardinality(T2)
  BY <1>2, <1>4, <1>5, OneWorker
<1>8. /\ Cardinality(S3) \in Nat /\ Cardinality(T3) \in Nat
      /\ w \in S3 /\ w \notin T3 => Cardinality(S3) = Cardinality(T3) + 1
      /\ w \notin S3 /\ w \in T3 => Cardinality(T3) = Cardinality(S3) + 1
      /\ (w \in S3 <=> w \in T3) => Cardinality(S3) = Cardinality(T3)
  BY <1>3, <1>4, <1>5, OneWorker
<1>9. QED
  BY <1>5, <1>6, <1>7, <1>8
-----------------------------------------------------------------------------
(* The steps of NtNext, one case each.                                     *)
LEMMA StepCases ==
    ASSUME NtNext
    PROVE  \/ \E c \in Hooks, url \in BOOLEAN : create_notification_channel(c, url)
           \/ \E c \in Hooks : delete_notification_channel(c)
           \/ \E n \in Announcements, c \in Hooks : enqueue_notifications(n, c)
           \/ \E k \in DOMAIN queue : BackoffEnds(k)
           \/ \E w \in Workers : FetchBatch(w)
           \/ \E w \in Workers, k \in DOMAIN queue : MissingUrl(w, k)
           \/ \E w \in Workers, k \in DOMAIN queue : Post(w, k)
           \/ \E w \in Workers : RecordOutcome(w)
           \/ \E w \in Workers : CycleLost(w)
  BY DEF NtNext, ClockStep, WorkerStep

(* The types of one worker's cycle, and of the rows of the queue.          *)
RowType == [state : {"pending", "sent", "failed"}, retries : Nat, due : BOOLEAN]

CycleOK(w) ==
    /\ cycle[w] = [records |-> cycle[w].records, hand |-> cycle[w].hand, ok |-> cycle[w].ok]
    /\ cycle[w].records \in [DOMAIN cycle[w].records -> Nat]
    /\ DOMAIN cycle[w].records \subseteq DOMAIN queue
    /\ Busy(w) => cycle[w].hand \in DOMAIN cycle[w].records

(* A step that only changes the channels.                                  *)
LEMMA HooksType ==
    ASSUME NtTypeOK, UNCHANGED <<queue, cycle, attempts, accepted, outages>>,
           hooks' \in [DOMAIN hooks' -> BOOLEAN], DOMAIN hooks' \subseteq Hooks,
           \A k \in DOMAIN queue : k[2] \in DOMAIN hooks'
    PROVE  NtTypeOK'
  BY DEF NtTypeOK, Busy

(* A step that changes the cycle of one worker and rows that are there.    *)
LEMMA CycleType ==
    ASSUME NtTypeOK, NEW w \in Workers, UNCHANGED hooks,
           DOMAIN cycle' = Workers,
           \A v \in Workers \ {w} : cycle'[v] = cycle[v],
           DOMAIN queue' = DOMAIN queue, queue' \in [DOMAIN queue -> RowType],
           attempts' \in [DOMAIN queue -> Nat], outages' \in Nat,
           CycleOK(w)'
    PROVE  NtTypeOK'
<1>1. \A v \in Workers : CycleOK(v)'
  <2> TAKE v \in Workers
  <2>1. CASE v = w
    BY <2>1
  <2>2. CASE v # w
    BY <2>2 DEF NtTypeOK, CycleOK, Busy
  <2>3. QED
    BY <2>1, <2>2
<1>2. QED
  BY <1>1 DEF NtTypeOK, CycleOK, RowType

(* Every step keeps the types.                                             *)
LEMMA NtTypeStep ==
    ASSUME NtTypeOK, [NtNext]_ntVars
    PROVE  NtTypeOK'
<1> USE NotificationAssumption
<1>1. CASE UNCHANGED ntVars
  BY <1>1 DEF NtTypeOK, Busy, ntVars
<1>2. ASSUME NEW c \in Hooks, NEW url \in BOOLEAN, create_notification_channel(c, url)
      PROVE  NtTypeOK'
  <2>1. /\ hooks' \in [DOMAIN hooks' -> BOOLEAN] /\ DOMAIN hooks' \subseteq Hooks
        /\ \A k \in DOMAIN queue : k[2] \in DOMAIN hooks'
    BY <1>2 DEF create_notification_channel, WithRow, NtTypeOK
  <2>2. QED
    BY <1>2, <2>1, HooksType DEF create_notification_channel
<1>3. ASSUME NEW c \in Hooks, delete_notification_channel(c)
      PROVE  NtTypeOK'
  <2>1. /\ hooks' \in [DOMAIN hooks' -> BOOLEAN] /\ DOMAIN hooks' \subseteq Hooks
        /\ \A k \in DOMAIN queue : k[2] \in DOMAIN hooks'
    BY <1>3 DEF delete_notification_channel, NtTypeOK
  <2>2. QED
    BY <1>3, <2>1, HooksType DEF delete_notification_channel
<1>4. ASSUME NEW n \in Announcements, NEW c \in Hooks, enqueue_notifications(n, c)
      PROVE  NtTypeOK'
  <2>1. /\ DOMAIN queue' = DOMAIN queue \union {<<n, c>>}
        /\ queue' \in [DOMAIN queue' -> RowType] /\ attempts' \in [DOMAIN queue' -> Nat]
    BY <1>4 DEF enqueue_notifications, WithRow, NewRow, NtTypeOK, RowType
  <2>2. \A k \in DOMAIN queue' : k \in Keys /\ k[2] \in DOMAIN hooks
    BY <1>4, <2>1 DEF enqueue_notifications, NtTypeOK, Keys
  <2>3. QED
    BY <1>4, <2>1, <2>2 DEF enqueue_notifications, NtTypeOK, Busy, RowType
<1>5. ASSUME NEW k \in DOMAIN queue, BackoffEnds(k)
      PROVE  NtTypeOK'
  <2>1. DOMAIN queue' = DOMAIN queue /\ queue' \in [DOMAIN queue -> RowType]
    BY <1>5 DEF BackoffEnds, NtTypeOK, RowType
  <2>2. QED
    BY <1>5, <2>1 DEF BackoffEnds, NtTypeOK, Busy, RowType
<1>6. ASSUME NEW w \in Workers, FetchBatch(w)
      PROVE  NtTypeOK'
  <2>1. PICK batch \in SUBSET Due :
           cycle' = [cycle EXCEPT ![w] = Batch([k \in batch |-> queue[k].retries])]
    BY <1>6 DEF FetchBatch
  <2>2. batch \subseteq DOMAIN queue
    BY DEF Due
  <2>3. cycle'[w] = Batch([k \in batch |-> queue[k].retries])
    BY <2>1 DEF NtTypeOK
  <2>4. [k \in batch |-> queue[k].retries] \in [batch -> Nat]
    BY <2>2 DEF NtTypeOK
  <2>5. CycleOK(w)'
    <3>1. PICK records \in [batch -> Nat] : records = [k \in batch |-> queue[k].retries]
      BY <2>4
    <3>2. cycle'[w] = [records |-> records, hand |-> <<>>, ok |-> FALSE] /\ queue' = queue
      BY <1>6, <2>3, <3>1 DEF Batch, FetchBatch
    <3>3. QED
      BY <2>2, <3>1, <3>2 DEF CycleOK, Busy
  <2>6. QED
    BY <1>6, <2>1, <2>5, CycleType DEF FetchBatch, NtTypeOK, RowType
<1>7. ASSUME NEW w \in Workers, NEW k \in DOMAIN queue, MissingUrl(w, k)
      PROVE  NtTypeOK'
  <2>1. DOMAIN queue' = DOMAIN queue /\ queue' \in [DOMAIN queue -> RowType]
    BY <1>7 DEF MissingUrl, NtTypeOK, RowType
  <2>2. cycle'[w] = Batch(Rest(w, k))
    BY <1>7 DEF MissingUrl, NtTypeOK
  <2>3. CycleOK(w)'
    BY <2>1, <2>2 DEF CycleOK, Busy, Batch, Rest, NtTypeOK
  <2>4. QED
    BY <1>7, <2>1, <2>3, CycleType DEF MissingUrl, NtTypeOK
<1>8. ASSUME NEW w \in Workers, NEW k \in DOMAIN queue, Post(w, k)
      PROVE  NtTypeOK'
  <2>1. PICK ok \in BOOLEAN :
           cycle' = [cycle EXCEPT ![w] = [records |-> @.records, hand |-> k, ok |-> ok]]
    BY <1>8 DEF Post
  <2>2. cycle'[w] = [records |-> cycle[w].records, hand |-> k, ok |-> ok]
    BY <2>1 DEF NtTypeOK
  <2>3. CycleOK(w)'
    BY <1>8, <2>2 DEF CycleOK, Busy, Post, NtTypeOK
  <2>4. attempts' \in [DOMAIN queue -> Nat]
    BY <1>8 DEF Post, NtTypeOK
  <2>5. QED
    BY <1>8, <2>1, <2>3, <2>4, CycleType DEF Post, NtTypeOK, RowType
<1>9. ASSUME NEW w \in Workers, RecordOutcome(w)
      PROVE  NtTypeOK'
  <2>1. PICK k : k = cycle[w].hand
    OBVIOUS
  <2>2. k \in DOMAIN cycle[w].records /\ k \in DOMAIN queue
    BY <1>9, <2>1 DEF RecordOutcome, NtTypeOK
  <2>3. DOMAIN queue' = DOMAIN queue /\ queue' \in [DOMAIN queue -> RowType]
    <3>1. queue[k] \in RowType /\ cycle[w].records[k] \in Nat
      BY <2>2 DEF NtTypeOK, RowType
    <3>2. [queue[k] EXCEPT !.state = "sent", !.due = FALSE] \in RowType
      BY <3>1 DEF RowType
    <3>3. handle_notification_failure(queue[k], cycle[w].records[k]) \in RowType
      <4>1. [queue[k] EXCEPT !.state = "failed", !.due = FALSE] \in RowType
        BY <3>1 DEF RowType
      <4>2. [queue[k] EXCEPT !.retries = @ + 1, !.due = FALSE] \in RowType
        <5>1. PICK r \in Nat : r = queue[k].retries + 1
          BY <3>1 DEF RowType
        <5>2. [queue[k] EXCEPT !.retries = r, !.due = FALSE] \in RowType
          BY <3>1, <5>1 DEF RowType
        <5>3. QED
          BY <5>1, <5>2
      <4>3. QED
        BY <4>1, <4>2 DEF handle_notification_failure
    <3>4. QED
      BY <1>9, <2>1, <2>2, <3>2, <3>3 DEF RecordOutcome, NtTypeOK, RowType
  <2>4. cycle'[w] = Batch(Rest(w, k))
    BY <1>9, <2>1 DEF RecordOutcome, NtTypeOK
  <2>5. CycleOK(w)'
    BY <2>3, <2>4 DEF CycleOK, Busy, Batch, Rest, NtTypeOK
  <2>6. QED
    BY <1>9, <2>3, <2>5, CycleType DEF RecordOutcome, NtTypeOK
<1>10. ASSUME NEW w \in Workers, CycleLost(w)
       PROVE  NtTypeOK'
  <2>1. cycle'[w] = Idle
    BY <1>10 DEF CycleLost, NtTypeOK
  <2>2. CycleOK(w)'
    BY <2>1 DEF CycleOK, Busy, Idle, Batch
  <2>3. outages' \in Nat
    BY <1>10 DEF CycleLost, Outage, NtTypeOK
  <2>4. queue' \in [DOMAIN queue -> RowType] /\ attempts' \in [DOMAIN queue -> Nat]
    BY <1>10 DEF CycleLost, NtTypeOK, RowType
  <2>5. DOMAIN cycle' = Workers /\ \A v \in Workers \ {w} : cycle'[v] = cycle[v]
    BY <1>10 DEF CycleLost, NtTypeOK
  <2>6. QED
    BY <1>10, <2>2, <2>3, <2>4, <2>5, CycleType DEF CycleLost
<1>11. QED
  BY <1>1, <1>2, <1>3, <1>4, <1>5, <1>6, <1>7, <1>8, <1>9, <1>10, StepCases
-----------------------------------------------------------------------------
(* What no step takes back: a row, its retries and attempts, what has been *)
(* accepted, and the url of a channel that has rows.                       *)
RowsGoOn ==
    /\ accepted \subseteq accepted'
    /\ \A k \in DOMAIN queue :
          /\ k \in DOMAIN queue' /\ hooks'[k[2]] = hooks[k[2]]
          /\ queue[k].retries <= queue'[k].retries /\ attempts[k] <= attempts'[k]

(* No step lowers what was counted for a row of the queue.                 *)
LEMMA RowsNeverGoBack ==
    ASSUME NtTypeOK, [NtNext]_ntVars
    PROVE  RowsGoOn
<1> USE DEF RowsGoOn
<1>0. \A k \in DOMAIN queue : queue[k].retries \in Nat /\ attempts[k] \in Nat
  BY DEF NtTypeOK
<1>1. CASE UNCHANGED ntVars
  BY <1>0, <1>1 DEF ntVars
<1>2. ASSUME NEW c \in Hooks, NEW url \in BOOLEAN, create_notification_channel(c, url)
      PROVE  RowsGoOn
  <2>1. \A k \in DOMAIN queue : k[2] \in DOMAIN hooks /\ k[2] # c
    BY <1>2 DEF create_notification_channel, NtTypeOK
  <2>2. \A k \in DOMAIN queue : hooks'[k[2]] = hooks[k[2]]
    BY <1>2, <2>1 DEF create_notification_channel, WithRow
  <2>3. QED
    BY <1>0, <1>2, <2>2 DEF create_notification_channel
<1>3. ASSUME NEW c \in Hooks, delete_notification_channel(c)
      PROVE  RowsGoOn
  BY <1>0, <1>3 DEF delete_notification_channel, NtTypeOK
<1>4. ASSUME NEW n \in Announcements, NEW c \in Hooks, enqueue_notifications(n, c)
      PROVE  RowsGoOn
  <2>1. PICK key : key = <<n, c>>
    OBVIOUS
  <2>2. \A k \in DOMAIN queue : k # key /\ k \in DOMAIN queue'
                              /\ queue'[k] = queue[k] /\ attempts'[k] = attempts[k]
    <3>1. key \notin DOMAIN queue
      BY <1>4, <2>1 DEF enqueue_notifications
    <3>2. queue' = WithRow(queue, key, NewRow) /\ attempts' = WithRow(attempts, key, 0)
      BY <1>4, <2>1 DEF enqueue_notifications
    <3>3. DOMAIN attempts = DOMAIN queue
      BY DEF NtTypeOK
    <3>4. QED
      BY <3>1, <3>2, <3>3 DEF WithRow
  <2>3. QED
    BY <1>0, <1>4, <2>2 DEF enqueue_notifications
<1>5. ASSUME NEW k \in DOMAIN queue, BackoffEnds(k)
      PROVE  RowsGoOn
  BY <1>0, <1>5 DEF BackoffEnds, NtTypeOK
<1>6. ASSUME NEW w \in Workers, FetchBatch(w)
      PROVE  RowsGoOn
  BY <1>0, <1>6 DEF FetchBatch
<1>7. ASSUME NEW w \in Workers, NEW k \in DOMAIN queue, MissingUrl(w, k)
      PROVE  RowsGoOn
  BY <1>0, <1>7 DEF MissingUrl, NtTypeOK
<1>8. ASSUME NEW w \in Workers, NEW k \in DOMAIN queue, Post(w, k)
      PROVE  RowsGoOn
  BY <1>0, <1>8 DEF Post, NtTypeOK
<1>9. ASSUME NEW w \in Workers, RecordOutcome(w)
      PROVE  RowsGoOn
  <2>1. PICK k \in DOMAIN queue : k = cycle[w].hand
    BY <1>9 DEF RecordOutcome, NtTypeOK
  <2>2. queue'[k].retries \in {queue[k].retries, queue[k].retries + 1}
    BY <1>9, <2>1 DEF RecordOutcome, handle_notification_failure, NtTypeOK
  <2>3. queue[k].retries <= queue'[k].retries
    BY <1>0, <2>2
  <2>4. \A j \in DOMAIN queue \ {k} : queue'[j] = queue[j]
    BY <1>9, <2>1 DEF RecordOutcome
  <2>5. DOMAIN queue' = DOMAIN queue /\ UNCHANGED <<hooks, attempts, accepted>>
    BY <1>9 DEF RecordOutcome
  <2>6. QED
    BY <1>0, <2>3, <2>4, <2>5
<1>10. ASSUME NEW w \in Workers, CycleLost(w)
       PROVE  RowsGoOn
  BY <1>0, <1>10 DEF CycleLost
<1>11. QED
  BY <1>1, <1>2, <1>3, <1>4, <1>5, <1>6, <1>7, <1>8, <1>9, <1>10, StepCases

(* What one worker has read, and what it has in hand.                      *)
WorkerReads(w) ==
    /\ \A k \in DOMAIN cycle[w].records : cycle[w].records[k] <= queue[k].retries
    /\ Busy(w) /\ cycle[w].ok => cycle[w].hand \in accepted

(* A worker that goes on with its batch, or another one's step.            *)
LEMMA KeepsReads ==
    ASSUME NtTypeOK, NtTypeOK', RowsGoOn, NEW w \in Workers, WorkerReads(w), cycle'[w] = cycle[w]
    PROVE  WorkerReads(w)'
<1>1. \A k \in DOMAIN cycle[w].records :
         /\ k \in DOMAIN queue /\ cycle[w].records[k] \in Nat
         /\ queue[k].retries \in Nat /\ queue'[k].retries \in Nat
  BY DEF NtTypeOK, RowsGoOn
<1>2. QED
  BY <1>1 DEF WorkerReads, RowsGoOn, Busy

(* A worker whose batch has lost a record, its hand empty.                 *)
LEMMA RestReads ==
    ASSUME NtTypeOK, NtTypeOK', RowsGoOn, NEW w \in Workers, NEW k, WorkerReads(w),
           cycle'[w] = Batch(Rest(w, k))
    PROVE  WorkerReads(w)'
<1>1. \A j \in DOMAIN cycle[w].records :
         /\ j \in DOMAIN queue /\ cycle[w].records[j] \in Nat
         /\ queue[j].retries \in Nat /\ queue'[j].retries \in Nat
  BY DEF NtTypeOK, RowsGoOn
<1>2. QED
  BY <1>1 DEF WorkerReads, RowsGoOn, Busy, Batch, Rest

(* What a worker has read of a row was true of it, and stays a lower bound. *)
LEMMA ReadsStep ==
    ASSUME NtTypeOK, NtTypeOK', ReadsInv, [NtNext]_ntVars
    PROVE  ReadsInv'
<1>0. RowsGoOn /\ \A w \in Workers : WorkerReads(w)
  BY RowsNeverGoBack DEF ReadsInv, WorkerReads
<1> SUFFICES ASSUME NEW v \in Workers PROVE WorkerReads(v)'
  BY DEF ReadsInv, WorkerReads
<1>1. CASE cycle'[v] = cycle[v]
  BY <1>0, <1>1, KeepsReads
<1>2. ASSUME NEW w \in Workers, FetchBatch(w), v = w PROVE WorkerReads(v)'
  <2>1. PICK batch \in SUBSET Due :
           cycle' = [cycle EXCEPT ![w] = Batch([k \in batch |-> queue[k].retries])]
    BY <1>2 DEF FetchBatch
  <2>2. cycle'[w] = Batch([k \in batch |-> queue[k].retries]) /\ queue' = queue
    BY <1>2, <2>1 DEF FetchBatch, NtTypeOK
  <2>3. \A k \in batch : queue[k].retries \in Nat
    BY DEF Due, NtTypeOK
  <2>4. QED
    BY <1>2, <2>2, <2>3 DEF WorkerReads, Busy, Batch
<1>3. ASSUME NEW w \in Workers, NEW k \in DOMAIN queue, MissingUrl(w, k), v = w
      PROVE  WorkerReads(v)'
  BY <1>0, <1>3, RestReads DEF MissingUrl, NtTypeOK
<1>4. ASSUME NEW w \in Workers, NEW k \in DOMAIN queue, Post(w, k), v = w
      PROVE  WorkerReads(v)'
  <2>1. PICK ok \in BOOLEAN :
           /\ cycle' = [cycle EXCEPT ![w] = [records |-> @.records, hand |-> k, ok |-> ok]]
           /\ accepted' = IF ok THEN accepted \union {k} ELSE accepted
    BY <1>4 DEF Post
  <2>2. cycle'[w] = [records |-> cycle[w].records, hand |-> k, ok |-> ok] /\ queue' = queue
    BY <1>4, <2>1 DEF Post, NtTypeOK
  <2>3. QED
    BY <1>0, <1>4, <2>1, <2>2 DEF WorkerReads, Busy
<1>5. ASSUME NEW w \in Workers, RecordOutcome(w), v = w PROVE WorkerReads(v)'
  <2>1. cycle'[w] = Batch(Rest(w, cycle[w].hand))
    BY <1>5 DEF RecordOutcome, NtTypeOK
  <2>2. QED
    BY <1>0, <1>5, <2>1, RestReads
<1>6. ASSUME NEW w \in Workers, CycleLost(w), v = w PROVE WorkerReads(v)'
  <2>1. cycle'[w] = Batch(<<>>)
    BY <1>6 DEF CycleLost, Idle, NtTypeOK
  <2>2. QED
    BY <1>6, <2>1 DEF WorkerReads, Busy, Batch
<1>7. ASSUME NEW w \in Workers, v # w,
             \/ FetchBatch(w) \/ RecordOutcome(w) \/ CycleLost(w)
             \/ \E k \in DOMAIN queue : MissingUrl(w, k) \/ Post(w, k)
      PROVE  cycle'[v] = cycle[v]
  BY <1>7 DEF FetchBatch, RecordOutcome, CycleLost, MissingUrl, Post, NtTypeOK
<1>8. ASSUME \/ UNCHANGED ntVars
             \/ \E c \in Hooks, url \in BOOLEAN : create_notification_channel(c, url)
             \/ \E c \in Hooks : delete_notification_channel(c)
             \/ \E n \in Announcements, c \in Hooks : enqueue_notifications(n, c)
             \/ \E k \in DOMAIN queue : BackoffEnds(k)
      PROVE  cycle'[v] = cycle[v]
  BY <1>8 DEF ntVars, create_notification_channel, delete_notification_channel,
              enqueue_notifications, BackoffEnds
<1>9. QED
  BY <1>1, <1>2, <1>3, <1>4, <1>5, <1>6, <1>7, <1>8, StepCases
-----------------------------------------------------------------------------
(* A row that a step leaves as it is, with the workers that hold it.       *)
LEMMA CountsStay ==
    ASSUME NEW k, RowCounted(k), outages' = outages,
           queue'[k].retries = queue[k].retries, queue'[k].state = queue[k].state,
           attempts'[k] = attempts[k],
           Cardinality(Posters(k))' = Cardinality(Posters(k)),
           Cardinality(Readers(k))' = Cardinality(Readers(k)),
           Cardinality(Retriers(k))' = Cardinality(Retriers(k))
    PROVE  RowCounted(k)'
<1>1. PostLimit' = PostLimit
  BY DEF PostLimit
<1>2. QED
  BY <1>1 DEF RowCounted

(* A row whose POST is recorded, or that is given up or lost, leaves the   *)
(* worker's batch.                                                         *)
LEMMA RowLeaves ==
    ASSUME NtTypeOK, NEW k \in DOMAIN queue, RowCounted(k),
           NEW w \in Workers, w \in Readers(k), w \notin Readers(k)', w \notin Posters(k)',
           \A v \in Workers \ {w} : cycle'[v] = cycle[v],
           attempts'[k] = attempts[k],
           \/ /\ outages' = outages /\ queue'[k].state # "pending"
              /\ queue'[k].retries = queue[k].retries
           \/ /\ outages' = outages /\ queue'[k].state = queue[k].state
              /\ queue'[k].retries = queue[k].retries + 1
              /\ w \in Posters(k) /\ w \in Retriers(k)
           \/ /\ outages' = outages + 1 /\ queue'[k].state = queue[k].state
              /\ queue'[k].retries = queue[k].retries
    PROVE  RowCounted(k)'
<1>1. PICK P, H, T, P2, H2, T2 :
         /\ P = Cardinality(Posters(k)) /\ P2 = Cardinality(Posters(k))'
         /\ H = Cardinality(Readers(k)) /\ H2 = Cardinality(Readers(k))'
         /\ T = Cardinality(Retriers(k)) /\ T2 = Cardinality(Retriers(k))'
  OBVIOUS
<1>2. w \notin Retriers(k)'
  BY DEF Retriers
<1>3. /\ P \in Nat /\ H \in Nat /\ T \in Nat /\ P2 \in Nat /\ H2 \in Nat /\ T2 \in Nat
      /\ H = H2 + 1
      /\ (P = P2 + 1 \/ (P = P2 /\ w \notin Posters(k)))
      /\ (T = T2 + 1 \/ (T = T2 /\ w \notin Retriers(k)))
  BY <1>1, <1>2, CountsMove
<1>4. PICK r \in Nat, a \in Nat, o \in Nat, R \in Nat, W \in Nat \ {0}, L \in Nat :
         /\ r = queue[k].retries /\ a = attempts[k] /\ o = outages /\ R = RetryLimit
         /\ W = Cardinality(Workers) /\ L = PostLimit
  BY NotificationAssumption, RowsAreNotIdle, Counts, RowLimit DEF NtTypeOK
<1>5. /\ a >= r + P
      /\ (R = 0 /\ r = 0) \/ (R > 0 /\ r + T < R + W)
      /\ queue[k].state = "pending" => a <= r + P + o
      /\ queue[k].state # "pending" => a + H <= L + o + P
  BY <1>1, <1>4 DEF RowCounted
<1>6. r + H <= L
  BY <1>1, <1>4, RowLimit
<1>7. PostLimit' = PostLimit
  BY DEF PostLimit
<1>8. w \in Retriers(k) => R > 0
  <2>1. w \in Retriers(k) => cycle[w].records[k] \in Nat /\ cycle[w].records[k] < RetryLimit
    BY DEF Retriers, Readers, NtTypeOK
  <2>2. QED
    BY <1>4, <2>1
<1>9. PICK r2 : r2 = queue'[k].retries
  OBVIOUS
<1>10. /\ a >= r2 + P2
       /\ (R = 0 /\ r2 = 0) \/ (R > 0 /\ r2 + T2 < R + W)
       /\ queue'[k].state = "pending" => a <= r2 + P2 + outages'
       /\ queue'[k].state # "pending" => a + H2 <= L + outages' + P2
  BY <1>3, <1>4, <1>5, <1>6, <1>8, <1>9
<1>11. QED
  BY <1>1, <1>4, <1>7, <1>9, <1>10 DEF RowCounted

(* The counts of a row after a step that changes no cycle and adds no row. *)
LEMMA CyclesStay ==
    ASSUME NEW k, RowCounted(k), UNCHANGED <<cycle, attempts, outages>>,
           queue'[k].retries = queue[k].retries, queue'[k].state = queue[k].state
    PROVE  RowCounted(k)'
<1>1. Posters(k)' = Posters(k) /\ Readers(k)' = Readers(k) /\ Retriers(k)' = Retriers(k)
  BY DEF Posters, Readers, Retriers
<1>2. /\ Cardinality(Posters(k))' = Cardinality(Posters(k))
      /\ Cardinality(Readers(k))' = Cardinality(Readers(k))
      /\ Cardinality(Retriers(k))' = Cardinality(Retriers(k))
  BY <1>1
<1>3. QED
  BY <1>2, CountsStay
(* The row of a new notification: nobody has read it.                      *)
LEMMA NewRowCounted ==
    ASSUME NtTypeOK, NEW n \in Announcements, NEW c \in Hooks, enqueue_notifications(n, c)
    PROVE  RowCounted(<<n, c>>)'
<1>1. PICK k : k = <<n, c>>
  OBVIOUS
<1>2. k # <<>> /\ k \notin DOMAIN queue /\ cycle' = cycle /\ outages' = outages
  BY <1>1, <1>1 DEF enqueue_notifications
<1>3. queue'[k] = NewRow /\ attempts'[k] = 0
  BY <1>1 DEF enqueue_notifications, WithRow
<1>4. Posters(k)' = {} /\ Readers(k)' = {} /\ Retriers(k)' = {}
  <2>1. \A w \in Workers : k \notin DOMAIN cycle[w].records /\ cycle[w].hand # k
    BY <1>2 DEF NtTypeOK, Busy
  <2>2. QED
    BY <1>2, <2>1 DEF Posters, Readers, Retriers
<1>5. /\ Cardinality(Posters(k))' = 0 /\ Cardinality(Readers(k))' = 0
      /\ Cardinality(Retriers(k))' = 0
  BY <1>4, FS_EmptySet
<1>6. Cardinality(Workers) \in Nat \ {0}
  BY <1>2, Counts
<1>7. QED
  BY <1>1, <1>2, <1>3, <1>5, <1>6, NotificationAssumption DEF RowCounted, NewRow, NtTypeOK

(* What a worker's cycle says of a row it neither reads, posts nor drops.  *)
LEMMA OtherRow ==
    ASSUME NEW k, RowCounted(k), NEW w \in Workers, outages' = outages,
           \A v \in Workers \ {w} : cycle'[v] = cycle[v],
           w \in Posters(k) <=> w \in Posters(k)', w \in Readers(k) <=> w \in Readers(k)',
           w \in Retriers(k) <=> w \in Retriers(k)',
           queue'[k].retries = queue[k].retries, queue'[k].state = queue[k].state,
           attempts'[k] = attempts[k]
    PROVE  RowCounted(k)'
<1>1. /\ Cardinality(Posters(k))' = Cardinality(Posters(k))
      /\ Cardinality(Readers(k))' = Cardinality(Readers(k))
      /\ Cardinality(Retriers(k))' = Cardinality(Retriers(k))
  BY CountsMove
<1>2. QED
  BY <1>1, CountsStay

(* A row that a worker's batch picks up.                                   *)
LEMMA RowFetched ==
    ASSUME NtTypeOK, NtTypeOK', NEW k \in DOMAIN queue, RowCounted(k), queue[k].state = "pending",
           NEW w \in Workers, \A v \in Workers \ {w} : cycle'[v] = cycle[v],
           UNCHANGED <<queue, attempts, outages>>, w \notin Readers(k), w \in Readers(k)',
           cycle'[w].records[k] = queue[k].retries, w \in Posters(k) <=> w \in Posters(k)'
    PROVE  RowCounted(k)'
<1>1. PICK P, T, P2, T2 :
         /\ P = Cardinality(Posters(k)) /\ P2 = Cardinality(Posters(k))'
         /\ T = Cardinality(Retriers(k)) /\ T2 = Cardinality(Retriers(k))'
  OBVIOUS
<1>2. P2 = P /\ T2 \in Nat /\ T \in Nat /\ P \in Nat
  BY <1>1, CountsMove
<1>3. PICK r \in Nat, a \in Nat, o \in Nat, R \in Nat, W \in Nat \ {0} :
         /\ r = queue[k].retries /\ a = attempts[k] /\ o = outages /\ R = RetryLimit
         /\ W = Cardinality(Workers)
  BY NotificationAssumption, RowsAreNotIdle, Counts DEF NtTypeOK
<1>4. r < R \/ T2 = T
  <2>1. ASSUME ~(r < R) PROVE w \notin Retriers(k) /\ w \notin Retriers(k)'
    BY <1>3, <2>1 DEF Retriers, Readers
  <2>2. QED
    BY <1>1, <2>1, CountsMove
<1>5. T2 <= W
  <2>1. Retriers(k)' \subseteq Workers
    BY DEF Retriers, Readers
  <2>2. Cardinality(Retriers(k)') <= Cardinality(Workers)
    BY <2>1, FewerWorkers
  <2>3. QED
    BY <1>1, <1>3, <2>2
<1>6. /\ a >= r + P
      /\ (R = 0 /\ r = 0) \/ (R > 0 /\ r + T < R + W)
      /\ a <= r + P + o
  BY <1>1, <1>3 DEF RowCounted
<1>7. /\ a >= r + P2
      /\ (R = 0 /\ r = 0) \/ (R > 0 /\ r + T2 < R + W)
      /\ a <= r + P2 + o
  BY <1>2, <1>4, <1>5, <1>6
<1>8. QED
  BY <1>1, <1>3, <1>7 DEF RowCounted

(* A row that a worker posts.                                              *)
LEMMA RowPosted ==
    ASSUME NtTypeOK, NEW k \in DOMAIN queue, RowCounted(k),
           NEW w \in Workers, \A v \in Workers \ {w} : cycle'[v] = cycle[v],
           UNCHANGED <<queue, outages>>, attempts'[k] = attempts[k] + 1,
           w \in Readers(k) <=> w \in Readers(k)', w \in Retriers(k) <=> w \in Retriers(k)',
           w \notin Posters(k), w \in Posters(k)'
    PROVE  RowCounted(k)'
<1>1. PICK P, H, T, P2 :
         /\ P = Cardinality(Posters(k)) /\ P2 = Cardinality(Posters(k))'
         /\ H = Cardinality(Readers(k)) /\ T = Cardinality(Retriers(k))
  OBVIOUS
<1>2. /\ P2 = P + 1 /\ P \in Nat /\ H \in Nat
      /\ Cardinality(Readers(k))' = H /\ Cardinality(Retriers(k))' = T
  BY <1>1, CountsMove
<1>3. PICK r \in Nat, a \in Nat, o \in Nat, L \in Nat :
         r = queue[k].retries /\ a = attempts[k] /\ o = outages /\ L = PostLimit
  BY RowLimit DEF NtTypeOK
<1>4. PostLimit' = PostLimit
  BY DEF PostLimit
<1>5. /\ a >= r + P
      /\ queue[k].state = "pending" => a <= r + P + o
      /\ queue[k].state # "pending" => a + H <= L + o + P
  BY <1>1, <1>3 DEF RowCounted
<1>6. /\ a + 1 >= r + P2
      /\ queue[k].state = "pending" => a + 1 <= r + P2 + o
      /\ queue[k].state # "pending" => a + 1 + H <= L + o + P2
  BY <1>2, <1>5
<1>7. QED
  BY <1>1, <1>2, <1>3, <1>4, <1>6 DEF RowCounted
(* Every step keeps the account of every row.                              *)
LEMMA CountStep ==
    ASSUME NtTypeOK, NtTypeOK', CountInv, [NtNext]_ntVars
    PROVE  CountInv'
<1> SUFFICES ASSUME NEW k \in DOMAIN queue' PROVE RowCounted(k)'
  BY DEF CountInv
<1>0. /\ k \in DOMAIN queue => RowCounted(k)
      /\ k # <<>>
  BY DEF CountInv, NtTypeOK, Keys
<1>1. CASE UNCHANGED ntVars
  BY <1>0, <1>1, CyclesStay DEF ntVars
<1>2. ASSUME NEW c \in Hooks, NEW url \in BOOLEAN, create_notification_channel(c, url)
      PROVE  RowCounted(k)'
  BY <1>0, <1>2, CyclesStay DEF create_notification_channel
<1>3. ASSUME NEW c \in Hooks, delete_notification_channel(c)
      PROVE  RowCounted(k)'
  BY <1>0, <1>3, CyclesStay DEF delete_notification_channel
<1>4. ASSUME NEW n \in Announcements, NEW c \in Hooks, enqueue_notifications(n, c)
      PROVE  RowCounted(k)'
  <2>1. CASE k = <<n, c>>
    BY <1>4, <2>1, NewRowCounted
  <2>2. CASE k # <<n, c>>
    <3>1. k \in DOMAIN queue /\ queue'[k] = queue[k] /\ attempts'[k] = attempts[k]
      BY <1>4, <2>2 DEF enqueue_notifications, WithRow, NtTypeOK
    <3>2. Posters(k)' = Posters(k) /\ Readers(k)' = Readers(k) /\ Retriers(k)' = Retriers(k)
      BY <1>4 DEF enqueue_notifications, Posters, Readers, Retriers
    <3>3. /\ Cardinality(Posters(k))' = Cardinality(Posters(k))
          /\ Cardinality(Readers(k))' = Cardinality(Readers(k))
          /\ Cardinality(Retriers(k))' = Cardinality(Retriers(k))
      BY <3>2
    <3>4. QED
      BY <1>0, <1>4, <3>1, <3>3, CountsStay DEF enqueue_notifications
  <2>3. QED
    BY <2>1, <2>2
<1>5. ASSUME NEW j \in DOMAIN queue, BackoffEnds(j)
      PROVE  RowCounted(k)'
  <2>1. /\ k \in DOMAIN queue
        /\ queue'[k].retries = queue[k].retries /\ queue'[k].state = queue[k].state
    BY <1>5 DEF BackoffEnds, NtTypeOK
  <2>2. QED
    BY <1>0, <1>5, <2>1, CyclesStay DEF BackoffEnds
<1>6. ASSUME NEW w \in Workers, FetchBatch(w)
      PROVE  RowCounted(k)'
  <2>1. PICK batch \in SUBSET Due :
           cycle' = [cycle EXCEPT ![w] = Batch([j \in batch |-> queue[j].retries])]
    BY <1>6 DEF FetchBatch
  <2>2. /\ k \in DOMAIN queue /\ UNCHANGED <<queue, attempts, outages>>
        /\ \A v \in Workers \ {w} : cycle'[v] = cycle[v]
    BY <1>6, <2>1 DEF FetchBatch
  <2>3. cycle[w].records = <<>> /\ cycle[w].hand = <<>> /\ DOMAIN cycle[w].records = {}
    BY <1>6 DEF FetchBatch, Idle, Batch
  <2>4. cycle'[w].records = [j \in batch |-> queue[j].retries] /\ cycle'[w].hand = <<>>
    BY <2>1 DEF Batch, NtTypeOK
  <2>5. w \notin Posters(k) /\ w \notin Posters(k)' /\ w \notin Readers(k) /\ w \notin Retriers(k)
    BY <1>0, <2>3, <2>4 DEF Posters, Readers, Retriers
  <2>6. CASE k \in batch
    <3>1. w \in Readers(k)' /\ cycle'[w].records[k] = queue[k].retries
      BY <2>4, <2>6 DEF Readers
    <3>2. queue[k].state = "pending"
      BY <2>6 DEF Due
    <3>3. QED
      BY <1>0, <2>2, <2>5, <3>1, <3>2, RowFetched
  <2>7. CASE k \notin batch
    <3>1. w \notin Readers(k)' /\ w \notin Retriers(k)'
      BY <2>4, <2>7 DEF Readers, Retriers
    <3>2. QED
      BY <1>0, <2>2, <2>5, <3>1, OtherRow
  <2>8. QED
    BY <2>6, <2>7
<1>7. ASSUME NEW w \in Workers, NEW j \in DOMAIN queue, MissingUrl(w, j)
      PROVE  RowCounted(k)'
  <2>1. /\ k \in DOMAIN queue /\ UNCHANGED <<attempts, outages>>
        /\ \A v \in Workers \ {w} : cycle'[v] = cycle[v]
    BY <1>7 DEF MissingUrl
  <2>2. cycle'[w] = Batch(Rest(w, j))
    BY <1>7 DEF MissingUrl, NtTypeOK
  <2>3. w \notin Posters(k) /\ w \notin Posters(k)'
    BY <1>0, <1>7, <2>2 DEF MissingUrl, Busy, Posters, Batch
  <2>4. CASE k = j
    <3>1. w \in Readers(k) /\ w \notin Readers(k)'
      BY <1>7, <2>2, <2>4 DEF MissingUrl, Readers, Batch, Rest
    <3>2. queue'[k].state # "pending" /\ queue'[k].retries = queue[k].retries
      BY <1>7, <2>4 DEF MissingUrl, NtTypeOK
    <3>3. QED
      BY <1>0, <2>1, <2>3, <3>1, <3>2, RowLeaves
  <2>5. CASE k # j
    <3>1. w \in Readers(k) <=> w \in Readers(k)'
      BY <2>2, <2>5 DEF Readers, Batch, Rest
    <3>2. w \in Retriers(k) <=> w \in Retriers(k)'
      BY <2>2, <2>5 DEF Readers, Retriers, Batch, Rest
    <3>3. queue'[k] = queue[k]
      BY <1>7, <2>1, <2>5 DEF MissingUrl
    <3>4. QED
      BY <1>0, <2>1, <2>3, <3>1, <3>2, <3>3, OtherRow
  <2>6. QED
    BY <2>4, <2>5
<1>8. ASSUME NEW w \in Workers, NEW j \in DOMAIN queue, Post(w, j)
      PROVE  RowCounted(k)'
  <2>1. PICK ok \in BOOLEAN :
           cycle' = [cycle EXCEPT ![w] = [records |-> @.records, hand |-> j, ok |-> ok]]
    BY <1>8 DEF Post
  <2>2. /\ k \in DOMAIN queue /\ UNCHANGED <<queue, outages>>
        /\ \A v \in Workers \ {w} : cycle'[v] = cycle[v]
    BY <1>8, <2>1 DEF Post
  <2>3. cycle'[w] = [records |-> cycle[w].records, hand |-> j, ok |-> ok]
    BY <2>1 DEF NtTypeOK
  <2>4. (w \in Readers(k) <=> w \in Readers(k)') /\ (w \in Retriers(k) <=> w \in Retriers(k)')
    BY <2>3 DEF Readers, Retriers
  <2>5. w \notin Posters(k) /\ (w \in Posters(k)' <=> k = j)
    BY <1>0, <1>8, <2>3 DEF Post, Busy, Posters
  <2>6. attempts'[k] = IF k = j THEN attempts[k] + 1 ELSE attempts[k]
    BY <1>8, <2>2 DEF Post, NtTypeOK
  <2>7. CASE k = j
    BY <1>0, <2>2, <2>4, <2>5, <2>6, <2>7, RowPosted
  <2>8. CASE k # j
    BY <1>0, <2>2, <2>4, <2>5, <2>6, <2>8, OtherRow
  <2>9. QED
    BY <2>7, <2>8
<1>9. ASSUME NEW w \in Workers, RecordOutcome(w)
      PROVE  RowCounted(k)'
  <2>1. PICK j \in DOMAIN queue : j = cycle[w].hand /\ j \in DOMAIN cycle[w].records
    BY <1>9 DEF RecordOutcome, NtTypeOK
  <2>2. /\ k \in DOMAIN queue /\ UNCHANGED <<attempts, outages>>
        /\ \A v \in Workers \ {w} : cycle'[v] = cycle[v]
    BY <1>9 DEF RecordOutcome
  <2>3. cycle'[w] = Batch(Rest(w, j))
    BY <1>9, <2>1 DEF RecordOutcome, NtTypeOK
  <2>4. w \notin Posters(k)' /\ (w \in Posters(k) <=> k = j)
    BY <1>0, <2>1, <2>3 DEF Posters, Batch
  <2>5. CASE k = j
    <3>1. w \in Readers(k) /\ w \notin Readers(k)' /\ cycle[w].records[k] \in Nat
      BY <2>1, <2>3, <2>5 DEF Readers, Batch, Rest, NtTypeOK
    <3>2. \/ queue'[k].state # "pending" /\ queue'[k].retries = queue[k].retries
          \/ /\ queue'[k].state = queue[k].state /\ queue'[k].retries = queue[k].retries + 1
             /\ w \in Retriers(k)
      <4>1. queue[k] \in RowType /\ RetryLimit \in Nat
        BY <2>2, NotificationAssumption DEF NtTypeOK, RowType
      <4>2. queue'[k] = IF cycle[w].ok THEN [queue[k] EXCEPT !.state = "sent", !.due = FALSE]
                        ELSE handle_notification_failure(queue[k], cycle[w].records[k])
        BY <1>9, <2>1, <2>2, <2>5 DEF RecordOutcome
      <4>3. CASE cycle[w].ok
        BY <4>1, <4>2, <4>3 DEF RowType
      <4>4. CASE ~cycle[w].ok /\ cycle[w].records[k] >= RetryLimit
        BY <4>1, <4>2, <4>4 DEF RowType, handle_notification_failure
      <4>5. CASE ~cycle[w].ok /\ cycle[w].records[k] < RetryLimit
        <5>1. w \in Retriers(k)
          BY <3>1, <4>5 DEF Retriers
        <5>2. queue'[k] = [queue[k] EXCEPT !.retries = @ + 1, !.due = FALSE]
          BY <3>1, <4>1, <4>2, <4>5 DEF handle_notification_failure
        <5>3. QED
          BY <4>1, <5>1, <5>2 DEF RowType
      <4>6. QED
        BY <3>1, <4>1, <4>3, <4>4, <4>5
    <3>3. QED
      BY <1>0, <2>2, <2>4, <2>5, <3>1, <3>2, RowLeaves
  <2>6. CASE k # j
    <3>1. w \in Readers(k) <=> w \in Readers(k)'
      BY <2>3, <2>6 DEF Readers, Batch, Rest
    <3>2. w \in Retriers(k) <=> w \in Retriers(k)'
      BY <2>3, <2>6 DEF Readers, Retriers, Batch, Rest
    <3>3. queue'[k] = queue[k]
      BY <1>9, <2>1, <2>2, <2>6 DEF RecordOutcome
    <3>4. QED
      BY <1>0, <2>2, <2>4, <2>6, <3>1, <3>2, <3>3, OtherRow
  <2>7. QED
    BY <2>5, <2>6
<1>10. ASSUME NEW w \in Workers, CycleLost(w)
       PROVE  RowCounted(k)'
  <2>1. /\ k \in DOMAIN queue /\ UNCHANGED <<queue, attempts>> /\ outages' = outages + 1
        /\ \A v \in Workers \ {w} : cycle'[v] = cycle[v]
    BY <1>10 DEF CycleLost, Outage
  <2>2. cycle'[w] = Batch(<<>>)
    BY <1>10 DEF CycleLost, Idle, NtTypeOK
  <2>3. w \notin Posters(k)' /\ w \notin Readers(k)' /\ w \notin Retriers(k)'
    BY <1>0, <2>2 DEF Posters, Readers, Retriers, Batch
  <2>4. CASE w \in Readers(k)
    BY <1>0, <2>1, <2>3, <2>4, RowLeaves
  <2>5. CASE w \notin Readers(k)
    <3>1. w \notin Posters(k) /\ w \notin Retriers(k)
      BY <1>0, <2>5 DEF Posters, Readers, Retriers, Busy, NtTypeOK
    <3>2. /\ Cardinality(Posters(k))' = Cardinality(Posters(k))
          /\ Cardinality(Readers(k))' = Cardinality(Readers(k))
          /\ Cardinality(Retriers(k))' = Cardinality(Retriers(k))
          /\ Cardinality(Posters(k)) \in Nat /\ Cardinality(Readers(k)) \in Nat
      BY <2>1, <2>3, <2>5, <3>1, CountsMove
    <3>3. /\ queue[k].retries \in Nat /\ attempts[k] \in Nat /\ outages \in Nat
          /\ PostLimit \in Nat /\ PostLimit' = PostLimit
      BY <1>0, <2>1, RowLimit DEF NtTypeOK, PostLimit
    <3>4. /\ queue[k].retries \in Nat /\ queue'[k] = queue[k] /\ attempts'[k] = attempts[k]
          /\ outages' = outages + 1
      BY <2>1, <3>3
    <3>5. PICK P, H, T : /\ P = Cardinality(Posters(k)) /\ P = Cardinality(Posters(k))'
                        /\ H = Cardinality(Readers(k)) /\ H = Cardinality(Readers(k))'
                        /\ T = Cardinality(Retriers(k)) /\ T = Cardinality(Retriers(k))'
                        /\ P \in Nat /\ H \in Nat
      BY <3>2
    <3>6. PICK a, o, q :
             /\ a \in Nat /\ o \in Nat /\ q = queue[k] /\ q = queue'[k] /\ q.retries \in Nat
             /\ a = attempts[k] /\ a = attempts'[k] /\ o = outages /\ o + 1 = outages'
      BY <3>3, <3>4
    <3>7. /\ a >= q.retries + P
          /\ (RetryLimit = 0 /\ q.retries = 0)
             \/ (RetryLimit > 0 /\ q.retries + T < RetryLimit + Cardinality(Workers))
          /\ q.state = "pending" => a <= q.retries + P + o
          /\ q.state # "pending" => a + H <= PostLimit + o + P
      BY <1>0, <2>1, <3>5, <3>6 DEF RowCounted
    <3>8. /\ q.state = "pending" => a <= q.retries + P + (o + 1)
          /\ q.state # "pending" => a + H <= PostLimit + (o + 1) + P
      BY <3>3, <3>5, <3>6, <3>7
    <3>9. QED
      BY <3>3, <3>5, <3>6, <3>7, <3>8 DEF RowCounted
  <2>6. QED
    BY <2>4, <2>5
<1>11. QED
  BY <1>1, <1>2, <1>3, <1>4, <1>5, <1>6, <1>7, <1>8, <1>9, <1>10, StepCases
-----------------------------------------------------------------------------
(* What a row says of its outcome.                                         *)
Earned(k) ==
    /\ queue[k].state = "sent" => k \in accepted
    /\ queue[k].state = "failed" => ~hooks[k[2]] \/ attempts[k] > RetryLimit

(* A row whose state a step leaves alone stays earned.                     *)
LEMMA StaysEarned ==
    ASSUME NtTypeOK, NtTypeOK', RowsGoOn, NEW k \in DOMAIN queue, Earned(k),
           queue'[k].state = queue[k].state
    PROVE  Earned(k)'
<1>1. /\ k \in DOMAIN queue' /\ attempts[k] \in Nat /\ attempts'[k] \in Nat
      /\ attempts[k] <= attempts'[k] /\ hooks'[k[2]] = hooks[k[2]] /\ RetryLimit \in Nat
  BY NotificationAssumption DEF NtTypeOK, RowsGoOn
<1>2. attempts[k] > RetryLimit => attempts'[k] > RetryLimit
  BY <1>1
<1>3. QED
  BY <1>1, <1>2 DEF Earned, RowsGoOn

(* Every step keeps the outcomes earned.                                   *)
LEMMA OutcomesStep ==
    ASSUME QueueInv, NtTypeOK', [NtNext]_ntVars
    PROVE  OutcomesAreEarned'
<1>0. /\ NtTypeOK /\ RowsGoOn /\ CountInv /\ ReadsInv
      /\ \A k \in DOMAIN queue : Earned(k)
  BY RowsNeverGoBack DEF QueueInv, OutcomesAreEarned, Earned
<1> SUFFICES ASSUME NEW k \in DOMAIN queue' PROVE Earned(k)'
  BY DEF OutcomesAreEarned, Earned
<1>1. CASE k \in DOMAIN queue /\ queue'[k].state = queue[k].state
  BY <1>0, <1>1, StaysEarned
<1>2. ASSUME \/ UNCHANGED ntVars
             \/ \E c \in Hooks, url \in BOOLEAN : create_notification_channel(c, url)
             \/ \E c \in Hooks : delete_notification_channel(c)
             \/ \E w \in Workers : FetchBatch(w)
             \/ \E w \in Workers, j \in DOMAIN queue : Post(w, j)
             \/ \E w \in Workers : CycleLost(w)
      PROVE  Earned(k)'
  BY <1>1, <1>2 DEF ntVars, create_notification_channel, delete_notification_channel,
                    FetchBatch, Post, CycleLost
<1>3. ASSUME NEW n \in Announcements, NEW c \in Hooks, enqueue_notifications(n, c)
      PROVE  Earned(k)'
  <2>1. CASE k \in DOMAIN queue
    <3>1. queue'[k] = queue[k]
      BY <1>3, <2>1 DEF enqueue_notifications, WithRow
    <3>2. QED
      BY <1>1, <2>1, <3>1
  <2>2. CASE k \notin DOMAIN queue
    <3>1. k = <<n, c>> /\ queue'[k] = NewRow
      BY <1>3, <2>2 DEF enqueue_notifications, WithRow
    <3>2. QED
      BY <3>1 DEF Earned, NewRow
  <2>3. QED
    BY <2>1, <2>2
<1>4. ASSUME NEW j \in DOMAIN queue, BackoffEnds(j)
      PROVE  Earned(k)'
  <2>1. k \in DOMAIN queue /\ queue'[k].state = queue[k].state
    BY <1>0, <1>4 DEF BackoffEnds, NtTypeOK
  <2>2. QED
    BY <1>1, <2>1
<1>5. ASSUME NEW w \in Workers, NEW j \in DOMAIN queue, MissingUrl(w, j)
      PROVE  Earned(k)'
  <2>1. CASE k = j
    <3>1. queue'[k].state = "failed" /\ ~hooks'[k[2]]
      BY <1>0, <1>5, <2>1 DEF MissingUrl, NtTypeOK
    <3>2. QED
      BY <3>1 DEF Earned
  <2>2. CASE k # j
    <3>1. k \in DOMAIN queue /\ queue'[k] = queue[k]
      BY <1>5, <2>2 DEF MissingUrl
    <3>2. QED
      BY <1>1, <3>1
  <2>3. QED
    BY <2>1, <2>2
<1>6. ASSUME NEW w \in Workers, RecordOutcome(w)
      PROVE  Earned(k)'
  <2>1. PICK j \in DOMAIN queue : j = cycle[w].hand /\ j \in DOMAIN cycle[w].records
    BY <1>0, <1>6 DEF RecordOutcome, NtTypeOK
  <2>2. k \in DOMAIN queue /\ UNCHANGED <<hooks, attempts, accepted>>
    BY <1>6 DEF RecordOutcome
  <2>3. CASE k # j
    <3>1. queue'[k] = queue[k]
      BY <1>6, <2>1, <2>2, <2>3 DEF RecordOutcome
    <3>2. QED
      BY <1>1, <2>2, <3>1
  <2>4. CASE k = j
    <3>1. queue'[k] = IF cycle[w].ok THEN [queue[k] EXCEPT !.state = "sent", !.due = FALSE]
                      ELSE handle_notification_failure(queue[k], cycle[w].records[k])
      BY <1>6, <2>1, <2>2, <2>4 DEF RecordOutcome
    <3>2. queue[k] \in RowType /\ cycle[w].records[k] \in Nat /\ RetryLimit \in Nat
      BY <1>0, <2>1, <2>4, NotificationAssumption DEF NtTypeOK, RowType
    <3>3. CASE cycle[w].ok
      <4>1. k \in accepted
        BY <1>0, <1>6, <2>1, <2>4, <3>3 DEF ReadsInv, RecordOutcome
      <4>2. queue'[k].state = "sent"
        BY <3>1, <3>2, <3>3 DEF RowType
      <4>3. QED
        BY <2>2, <4>1, <4>2 DEF Earned
    <3>4. CASE ~cycle[w].ok /\ cycle[w].records[k] < RetryLimit
      <4>1. queue'[k].state = queue[k].state
        BY <3>1, <3>2, <3>4 DEF RowType, handle_notification_failure
      <4>2. QED
        BY <1>1, <2>2, <4>1
    <3>5. CASE ~cycle[w].ok /\ cycle[w].records[k] >= RetryLimit
      <4>1. queue'[k].state = "failed"
        BY <3>1, <3>2, <3>5 DEF RowType, handle_notification_failure
      <4>2. /\ cycle[w].records[k] <= queue[k].retries
            /\ attempts[k] >= queue[k].retries + Cardinality(Posters(k))
        BY <1>0, <2>1, <2>2, <2>4 DEF ReadsInv, CountInv, RowCounted
      <4>3. Cardinality(Posters(k)) \in Nat /\ Cardinality(Posters(k)) # 0
        <5>1. w \in Posters(k) /\ Posters(k) \subseteq Workers
          BY <2>1, <2>4 DEF Posters
        <5>2. IsFiniteSet(Posters(k))
          BY <5>1, NotificationAssumption, FS_Subset
        <5>3. QED
          BY <5>1, <5>2, FS_CardinalityType, FS_EmptySet
      <4>4. queue[k].retries \in Nat /\ attempts[k] \in Nat
        BY <1>0, <2>2 DEF NtTypeOK
      <4>5. attempts[k] > RetryLimit
        BY <3>2, <3>5, <4>2, <4>3, <4>4
      <4>6. QED
        BY <2>2, <4>1, <4>5 DEF Earned
    <3>6. QED
      BY <3>2, <3>3, <3>4, <3>5
  <2>5. QED
    BY <2>3, <2>4
<1>7. QED
  BY <1>2, <1>3, <1>4, <1>5, <1>6, StepCases

-----------------------------------------------------------------------------
(* The account holds when nothing is queued.                               *)
LEMMA QueueStarts ==
    ASSUME NtInit PROVE QueueInv
<1>1. NtTypeOK
  <2>1. /\ hooks = <<>> /\ queue = <<>> /\ attempts = <<>> /\ outages = 0
        /\ cycle = [w \in Workers |-> Idle]
    BY DEF NtInit
  <2>2. DOMAIN hooks = {} /\ DOMAIN queue = {}
    BY <2>1
  <2>3. \A T : hooks \in [{} -> T] /\ queue \in [{} -> T] /\ attempts \in [{} -> T]
    BY <2>1
  <2>4. \A w \in Workers : cycle[w] = [records |-> <<>>, hand |-> <<>>, ok |-> FALSE]
    BY <2>1 DEF Idle, Batch
  <2>5. \A w \in Workers :
           /\ cycle[w].records = <<>> /\ DOMAIN cycle[w].records = {}
           /\ cycle[w].hand = <<>> /\ cycle[w].ok = FALSE
    BY <2>4
  <2>6. ASSUME NEW w \in Workers
        PROVE  cycle[w].records \in [DOMAIN cycle[w].records -> Nat]
    <3>1. <<>> \in [{} -> Nat]
      OBVIOUS
    <3>2. DOMAIN cycle[w].records = {} /\ cycle[w].records = <<>>
      BY <2>5
    <3>3. QED
      BY <3>1, <3>2, Zenon
  <2>7. /\ hooks \in [DOMAIN hooks -> BOOLEAN] /\ DOMAIN hooks \subseteq Hooks
        /\ queue \in [DOMAIN queue -> [state : {"pending", "sent", "failed"},
                                       retries : Nat, due : BOOLEAN]]
        /\ attempts \in [DOMAIN queue -> Nat]
    BY <2>2, <2>3
  <2>8. \A w \in Workers :
           /\ cycle[w] = [records |-> cycle[w].records, hand |-> cycle[w].hand, ok |-> cycle[w].ok]
           /\ DOMAIN cycle[w].records \subseteq DOMAIN queue
           /\ Busy(w) => cycle[w].hand \in DOMAIN cycle[w].records
    BY <2>2, <2>4, <2>5 DEF Busy
  <2>9. QED
    BY <2>1, <2>2, <2>6, <2>7, <2>8 DEF NtTypeOK
<1>2. ReadsInv
  BY DEF NtInit, ReadsInv, Idle, Batch, Busy
<1>3. CountInv /\ OutcomesAreEarned
  BY DEF NtInit, CountInv, OutcomesAreEarned
<1>4. QED
  BY <1>1, <1>2, <1>3 DEF QueueInv

(* The queue's account is inductive.                                       *)
LEMMA QueueInductive ==
    ASSUME QueueInv, [NtNext]_ntVars PROVE QueueInv'
<1>1. NtTypeOK'
  BY NtTypeStep DEF QueueInv
<1>2. ReadsInv'
  BY <1>1, ReadsStep DEF QueueInv
<1>3. CountInv'
  BY <1>1, CountStep DEF QueueInv
<1>4. OutcomesAreEarned'
  BY <1>1, OutcomesStep
<1>5. QED
  BY <1>1, <1>2, <1>3, <1>4 DEF QueueInv

(* The invariant from which the theorem below follows.                     *)
LEMMA QueueInvariant == NtSpec => []QueueInv
<1>1. NtInit => QueueInv
  BY QueueStarts
<1>2. QueueInv /\ [NtNext]_ntVars => QueueInv'
  BY QueueInductive
<1>3. QED
  BY <1>1, <1>2, PTL DEF NtSpec

(* The bound on the POSTs of a row, from the account of it.                *)
LEMMA BoundedPosts ==
    ASSUME QueueInv PROVE PostsAreBounded
<1> SUFFICES ASSUME NEW k \in DOMAIN queue
             PROVE  attempts[k] <= (RetryLimit + 1) * Cardinality(Workers) + outages
  BY DEF PostsAreBounded
<1>1. NtTypeOK /\ RowCounted(k)
  BY DEF QueueInv, CountInv
<1>2. PICK r \in Nat, a \in Nat, o \in Nat, L \in Nat, P \in Nat, H \in Nat :
         /\ r = queue[k].retries /\ a = attempts[k] /\ o = outages /\ L = PostLimit
         /\ P = Cardinality(Posters(k)) /\ H = Cardinality(Readers(k))
  BY <1>1, RowsAreNotIdle, Counts, RowLimit DEF NtTypeOK
<1>3. r + H <= L /\ P <= H
  BY <1>1, <1>2, RowsAreNotIdle, Counts, RowLimit
<1>4. a <= r + P + o \/ a + H <= L + o + P
  BY <1>1, <1>2 DEF RowCounted
<1>5. a <= L + o
  BY <1>3, <1>4
<1>6. QED
  BY <1>2, <1>5 DEF PostLimit

(* Whatever two workers overwrite of each other and whatever is lost       *)
(* between a POST and its UPDATE (process_pending_notifications and        *)
(* handle_notification_failure): a row is sent only after a receiver       *)
(* accepted a POST of it, it is given up only for a channel without a url  *)
(* or after more POSTs than the retry limit, and the POSTs made of it are  *)
(* at most RetryLimit + 1 for every worker and one for every outage.       *)
THEOREM DeliveriesAccounted == NtSpec => []DeliveriesAreAccounted
<1>1. QueueInv => DeliveriesAreAccounted
  BY BoundedPosts DEF DeliveriesAreAccounted, QueueInv
<1>2. QED
  BY <1>1, QueueInvariant, PTL

=============================================================================
