------------------------------ MODULE MCRunner ------------------------------
(* Small instances of Runner for TLC.                                      *)
EXTENDS Runner

Spread == [Healthy |-> 10, Degraded |-> 60, Unhealthy |-> 200]
\* Degraded is omitted and becomes 50, which is the unhealthy level as well.
Shared == [Healthy |-> 0, Degraded |-> 0, Unhealthy |-> 50]

Preempt2 == [mode |-> "preempt", recovery_confirm |-> 2, carp |-> Spread]
Sticky1  == [mode |-> "sticky", recovery_confirm |-> 1, carp |-> Shared]

OneConfig  == {Preempt2}
TwoConfigs == {Preempt2, Sticky1}

Health(score) == [RawScore |-> score, MaxScore |-> 100, Score |-> score]

\* Every state, and the HEALTHY one with and without a failing check.
AllHealth == {Health(s) : s \in {0, 60, 90, 100}}
\* Without DEGRADED: fully healthy, HEALTHY with a failing check, or down.
SomeHealth == {Health(s) : s \in {0, 90, 100}}
\* A node that is either fully healthy or down.
GoodOrBad == {Health(0), Health(100)}

Silent == [OK |-> FALSE, Score |-> 0, Advskew |-> 0, Demotion |-> 0, Preempt |-> 0]
Answer(advskew, preempt) ==
  [OK |-> TRUE, Score |-> 100, Advskew |-> advskew, Demotion |-> 0, Preempt |-> preempt]

\* The local advskew is 100: a peer with 0 is preferred, one with 200 is not.
AllReports == {Silent, Answer(0, 0), Answer(0, 1), Answer(200, 0)}
KernelReports == {Silent, Answer(0, 1)}
\* The same without kernel preempt, so that no grace is given.
PlainReports == {Silent, Answer(0, 0)}
=============================================================================
