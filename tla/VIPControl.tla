----------------------------- MODULE VIPControl -----------------------------
(***************************************************************************)
(* What an agent promises about the VIP interface of its node, without     *)
(* saying how: when the interface may go down, when it may come back, and  *)
(* that nothing else moves it.  Commands, memory, branches, retries and    *)
(* the signal goroutine of the code do not appear here.  Runner is shown   *)
(* to implement this module.                                               *)
(***************************************************************************)
EXTENDS Integers

CONSTANT Cooldown     \* least time between two step-downs

VARIABLES
  up,         \* the VIP interface
  score,      \* result of the last health check
  good,       \* fully healthy checks in a row
  mode, confirm,      \* the configuration in force
  since,      \* time since the last step-down
  stopping    \* the agent was told to stop

vars == <<up, score, good, mode, confirm, since, stopping>>

Init ==
  /\ up = TRUE /\ stopping = FALSE
  /\ score = 0 /\ good = 0
  /\ since > Cooldown

\* Only a check that found everything in order counts towards a recovery.
Check ==
  /\ good' \in {0, good, good + 1}
  /\ good' # 0 => score' = 100
  /\ UNCHANGED <<up, mode, confirm, since, stopping>>

\* An UNHEALTHY node leaves the service.  A cycle that runs beside a stop may
\* do so too: the code does not exclude the two from each other.
Withdraw ==
  /\ up /\ ~up'
  /\ score < 40 \/ stopping
  /\ UNCHANGED <<score, good, mode, confirm, since, stopping>>

\* A HEALTHY node makes way for a peer, once per cooldown.
StepDown ==
  /\ mode = "preempt" /\ score >= 80
  /\ since > Cooldown /\ since' = 0
  /\ up' => up
  /\ UNCHANGED <<score, good, mode, confirm, stopping>>

\* The way back: at once in sticky mode, confirmed in preempt mode.
Reclaim ==
  /\ ~up /\ up'
  /\ score >= 40
  /\ mode = "preempt" => good >= confirm
  /\ UNCHANGED <<score, good, mode, confirm, since, stopping>>

\* An agent that stops gives the interface back, whatever its health is.
Release ==
  /\ stopping /\ up'
  /\ UNCHANGED <<score, good, mode, confirm, since, stopping>>

Reconfigure == UNCHANGED <<up, score, good, since, stopping>>

Tick ==
  /\ since' = since + 1
  /\ UNCHANGED <<up, score, good, mode, confirm, stopping>>

BeginStop ==
  /\ stopping'
  /\ UNCHANGED <<up, score, good, mode, confirm, since>>

\* A new process inherits the interface and nothing else.
NewProcess ==
  /\ score' = 0 /\ good' = 0 /\ since' > Cooldown /\ ~stopping'
  /\ UNCHANGED up

Next ==
  \/ Check \/ Withdraw \/ StepDown \/ Reclaim \/ Release
  \/ Reconfigure \/ Tick \/ BeginStop \/ NewProcess

Spec == Init /\ [][Next]_vars
=============================================================================
