------------------------------ MODULE MCAlerting ------------------------------
(***************************************************************************)
(* The two workers of alert-evaluator, for TLC: the evaluation worker that *)
(* writes firings and queues notices, and the notification worker that     *)
(* posts what is queued.  The queue takes any notice at any time, so the   *)
(* two are followed separately: a behaviour has one of them as its focus   *)
(* and leaves the other in its initial state.                              *)
(***************************************************************************)
EXTENDS MCAlertEvaluator, Notifications

CONSTANTS Focuses, c2, n1, w1, w2

VARIABLE focus

alVars == <<focus, aeVars, ntVars>>

AlInit == focus \in Focuses /\ Init /\ NtInit

Firings(A) == focus = "firings" /\ A /\ UNCHANGED <<focus, ntVars>>
Queue(A)   == focus = "queue" /\ A /\ UNCHANGED <<focus, aeVars>>

AlNext == Firings(Next) \/ Queue(NtNext)

(* Both workers' intervals keep ticking, statements and POSTs return or    *)
(* time out, and a backoff ends.                                           *)
AlSpec ==
    /\ AlInit /\ [][AlNext]_alVars
    /\ WF_alVars(Firings(EvalStep))
    /\ WF_alVars(Queue(ClockStep))
    /\ \A w \in Workers : WF_alVars(Queue(WorkerStep(w)))
=============================================================================
