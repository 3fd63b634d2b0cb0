------------------------------- MODULE Policy -------------------------------
(***************************************************************************)
(* The pure decision functions of internal/agent: the health state of a    *)
(* score (state.go), the demotion levels of a configuration (runner.go),   *)
(* the policy decision and the recovery hold (policy.go).                  *)
(*                                                                         *)
(* Scores, demotions and advskews are the integers of the code.  A peer    *)
(* report is the part of peer.PeerHealth the decisions read.  The Action   *)
(* string of a PolicyDecision is only logged and is left out.              *)
(***************************************************************************)
EXTENDS Integers, Sequences

PolicyModes == {"sticky", "preempt"}

\* Demotion levels as written in the configuration (carp.demotion_*).
Levels == [Healthy : 0..255, Degraded : 0..255, Unhealthy : 0..255]

\* What RunChecks returns, as far as the decisions read it.
HealthRecords == [RawScore : Nat, MaxScore : Nat, Score : Nat]

PeerReports == [OK : BOOLEAN, Score : Nat, Advskew : Nat, Demotion : Int,
                Preempt : {0, 1}]

Decisions == [DesiredDemotion : Int, DesiredIfaceDown : BOOLEAN]

StateFromScore(score) ==
  IF score >= 80 THEN "HEALTHY" ELSE IF score >= 40 THEN "DEGRADED" ELSE "UNHEALTHY"

\* A level of zero for Degraded or Unhealthy is read as "key omitted".
demotionLevels(carp) ==
  [Healthy   |-> carp.Healthy,
   Degraded  |-> IF carp.Degraded = 0 THEN 50 ELSE carp.Degraded,
   Unhealthy |-> IF carp.Unhealthy = 0 THEN 255 ELSE carp.Unhealthy]

\* agent.recovery_confirm, where 0 is read as "key omitted".
DefaultRecoveryConfirm == 3

recoveryConfirm(configured) ==
  IF configured = 0 THEN DefaultRecoveryConfirm ELSE configured

-----------------------------------------------------------------------------
\* Variant: a peer that is as healthy counts as healthier.
HasPeerAsHealthy(score, peerHealths) ==
  \E i \in DOMAIN peerHealths : peerHealths[i].OK /\ peerHealths[i].Score >= score

HasHealthierPeer(score, peerHealths) ==
  \E i \in DOMAIN peerHealths : peerHealths[i].OK /\ peerHealths[i].Score > score

\* Variant: yielding to a healthier peer comes before the check for UNHEALTHY.
EvaluatePolicyYieldFirst(mode, score, carpState, peerHealths, demotion) ==
  LET yields == /\ mode = "preempt"
                /\ HasHealthierPeer(score, peerHealths)
                /\ carpState = "MASTER"
      down == StateFromScore(score) = "UNHEALTHY" /\ ~yields
  IN [DesiredDemotion  |-> IF down THEN demotion.Unhealthy
                           ELSE IF score < 80 \/ yields THEN demotion.Degraded
                           ELSE demotion.Healthy,
      DesiredIfaceDown |-> down]

EvaluatePolicy(mode, score, carpState, peerHealths, demotion) ==
  LET state == StateFromScore(score)
      yields == /\ mode = "preempt"
                /\ HasHealthierPeer(score, peerHealths)
                /\ carpState = "MASTER"
  IN [DesiredDemotion  |-> IF state = "UNHEALTHY" THEN demotion.Unhealthy
                           ELSE IF state = "DEGRADED" \/ yields THEN demotion.Degraded
                           ELSE demotion.Healthy,
      DesiredIfaceDown |-> state = "UNHEALTHY"]

-----------------------------------------------------------------------------
(* The recovery hold: a node that had its VIP interface down reclaims it   *)
(* only after `confirm' consecutive fully healthy checks (preempt only).   *)

FullyHealthy(h) == h.MaxScore > 0 /\ h.RawScore >= h.MaxScore

\* Variant: the hold keeps the interface down and forgets the demotion.
HoldDecisionIfaceOnly(demotion) ==
  [DesiredDemotion |-> demotion.Healthy, DesiredIfaceDown |-> TRUE]

HoldDecision(demotion) ==
  [DesiredDemotion |-> demotion.Unhealthy, DesiredIfaceDown |-> TRUE]

\* The hold considers only a node that wants its interface back.
HoldApplies(mode, decision, ifaceWasDown, confirm) ==
  /\ confirm > 0
  /\ mode = "preempt"
  /\ ifaceWasDown
  /\ ~decision.DesiredIfaceDown

\* Variant: a failing check takes one off the streak.
NextStreakDecaying(mode, decision, ifaceWasDown, h, confirm, streak) ==
  IF ~HoldApplies(mode, decision, ifaceWasDown, confirm) THEN 0
  ELSE IF FullyHealthy(h) THEN streak + 1 ELSE streak - 1

\* Variant: a failing check leaves the streak alone.
NextStreakKept(mode, decision, ifaceWasDown, h, confirm, streak) ==
  IF ~HoldApplies(mode, decision, ifaceWasDown, confirm) THEN 0
  ELSE IF FullyHealthy(h) THEN streak + 1 ELSE streak

\* Variant: every fully healthy check starts a new streak.
NextStreakRestarted(mode, decision, ifaceWasDown, h, confirm, streak) ==
  IF HoldApplies(mode, decision, ifaceWasDown, confirm) /\ FullyHealthy(h) THEN 1 ELSE 0

\* The streak of fully healthy checks after this one.
NextStreak(mode, decision, ifaceWasDown, h, confirm, streak) ==
  IF HoldApplies(mode, decision, ifaceWasDown, confirm) /\ FullyHealthy(h)
  THEN streak + 1
  ELSE 0

\* Returns the decision to act on, the new streak and whether the node is held.
applyRecoveryHold(mode, decision, ifaceWasDown, h, confirm, streak, demotion) ==
  LET next == NextStreak(mode, decision, ifaceWasDown, h, confirm, streak)
      held == HoldApplies(mode, decision, ifaceWasDown, confirm) /\ next < confirm
  IN [decision |-> IF held THEN HoldDecision(demotion) ELSE decision,
      streak   |-> next,
      held     |-> held]
=============================================================================
