--------------------------- MODULE MCAlertEvaluator ---------------------------
(***************************************************************************)
(* Instances of AlertEvaluator for TLC: a critical and a warning rule of   *)
(* one service, and a composite of the two.                                *)
(***************************************************************************)
EXTENDS AlertEvaluator

CONSTANTS crit, warn, both, c1, svc

MCRules          == {crit, warn, both}
MCPhase          == [r \in Rules |-> IF r = both THEN 3 ELSE 1]
MCSeverity       == [r \in Rules |-> IF r = crit THEN "critical" ELSE "warning"]
MCDelayed        == {warn}
MCNoneDelayed    == {}
MCAutoIncident   == {warn}
MCChannelsOf     == [r \in Rules |-> {c1}]
MCOperands       == [r \in Composite |-> <<crit, warn>>]
MCServices       == {svc}
MCInitialService == [r \in Rules |-> IF r = both THEN NoService ELSE svc]
=============================================================================
