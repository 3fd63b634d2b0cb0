--------------------------- MODULE MCStateAlerts ----------------------------
(* A small instance of StateAlerts for TLC.                                *)
EXTENDS StateAlerts

PreemptOnly == {"preempt"}
BothModes == {"sticky", "preempt"}
GoodOrBad == {"HEALTHY", "UNHEALTHY"}
AnyState == HealthStates
MasterOrBackup == {"MASTER", "BACKUP"}

\* With a demotion of 50, a peer of higher or of equal priority; with none, one
\* of equal or of lower priority, which counts as none.
TwoPriorities == {Advskew, Advskew + 50}
Demoted == {50}
DemotedOrNot == {0, 50}
=============================================================================
