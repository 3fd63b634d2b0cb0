------------------------ MODULE RunnerControlProofs -------------------------
(***************************************************************************)
(* Runner implements VIPControl, and more theorems about Runner, for every *)
(* value of its constants.  They rest on the types and on the tracked      *)
(* kernel of RunnerProofs.                                                 *)
(***************************************************************************)
EXTENDS RunnerProofs

USE DEF Unset, None

-----------------------------------------------------------------------------
(* The decision in hand belongs to the score of the last check.            *)

DecisionPoints ==
  {"branch", "getDemotion", "writeDemotion", "ifaceDown", "ifaceUp", "mark", "compare",
   "stepDown", "stepMark"}

\* An UNHEALTHY node never decides to serve, from the decision to the end of
\* the cycle.
DecisionScored ==
  pc \in DecisionPoints /\ ~decision.DesiredIfaceDown => lastHealth.Score >= 40

\* Only a hold asks a node for its interface that is not UNHEALTHY, and a hold
\* needs an interface that is down already.  Stop may change lastIfaceDown
\* between the decision and the branch.
WithdrawalScored ==
  /\ pc = "branch" /\ decision.DesiredIfaceDown /\ ~lastIfaceDown /\ spc = "idle" =>
       lastHealth.Score < 40
  /\ pc \in {"getDemotion", "writeDemotion", "ifaceDown"} /\ branch = "down" /\ spc = "idle" =>
       lastHealth.Score < 40

\* The control points that move the interface are reached with the branch, the
\* decision and the mode that lead to them.
CommandScored ==
  /\ pc = "ifaceDown" => branch = "down"
  /\ pc = "ifaceUp" => branch = "up" /\ ~decision.DesiredIfaceDown
  /\ pc = "stepDown" => cfg.mode = "preempt"
  /\ pc \in {"stepDown", "stepMark"} => lastHealth.Score >= 80

Scored == DecisionScored /\ WithdrawalScored /\ CommandScored

\* What EvaluatePolicy and the recovery hold make of a score.
LEMMA DecideScored ==
  ASSUME TypeOK, NEW reports, Decide(reports)
  PROVE  /\ ~decision'.DesiredIfaceDown => lastHealth.Score >= 40
         /\ decision'.DesiredIfaceDown /\ ~lastIfaceDown => lastHealth.Score < 40
<1> DEFINE confirm == recoveryConfirm(cfg.recovery_confirm)
           wanted == EvaluatePolicy(cfg.mode, lastHealth.Score, carpState, reports, lv(cfg))
           next == NextStreak(cfg.mode, wanted, lastIfaceDown, lastHealth, confirm, recoveryStreak)
           held == HoldApplies(cfg.mode, wanted, lastIfaceDown, confirm) /\ next < confirm
<1>1. decision' = IF held THEN HoldDecision(lv(cfg)) ELSE wanted
  BY DEF Decide, applyRecoveryHold
<1>2. held => lastIfaceDown
  BY DEF HoldApplies
<1>3. lastHealth.Score \in Nat
  BY DEF TypeOK, HealthRecords
<1>4. wanted.DesiredIfaceDown <=> lastHealth.Score < 40
  <2>1. wanted.DesiredIfaceDown = (StateFromScore(lastHealth.Score) = "UNHEALTHY")
    BY DEF EvaluatePolicy
  <2>2. StateFromScore(lastHealth.Score) = "UNHEALTHY" <=> lastHealth.Score < 40
    BY <1>3 DEF StateFromScore
  <2> HIDE DEF wanted
  <2> QED
    BY <2>1, <2>2
<1>5. HoldDecision(lv(cfg)).DesiredIfaceDown
  BY DEF HoldDecision
<1> HIDE DEF wanted, next, held, confirm
<1> QED
  BY <1>1, <1>2, <1>3, <1>4, <1>5

\* Every step keeps the decision and the score together.
LEMMA ScoredStep ==
  ASSUME TypeOK, Scored, [Next]_vars
  PROVE  Scored'
<1> USE DEF DecisionPoints, Scored, DecisionScored, WithdrawalScored, CommandScored
<1>1. CASE UNCHANGED vars
  BY <1>1 DEF vars, config, memory, observed, locals, stopper
<1>2. CASE Ticker \/ Exit \/ ApplyReload
  BY <1>2 DEF Ticker, Exit, ApplyReload, memory, observed, locals, stopper
<1>3. ASSUME NEW h \in HealthResults, Check(h) PROVE Scored'
  BY <1>3 DEF Check
<1>4. ASSUME NEW reports \in [Peers -> Reports], Decide(reports) PROVE Scored'
  <2>1. /\ ~decision'.DesiredIfaceDown => lastHealth.Score >= 40
        /\ decision'.DesiredIfaceDown /\ ~lastIfaceDown => lastHealth.Score < 40
    BY <1>4, DecideScored
  <2>2. pc' = "branch" /\ lastHealth' = lastHealth /\ lastIfaceDown' = lastIfaceDown
    BY <1>4 DEF Decide, memory
  <2> QED
    BY <2>1, <2>2
<1>5. CASE Branch
  BY <1>5 DEF Branch, observed, stopper, memory
<1>6. CASE GetDemotion \/ WriteDemotion \/ IfaceDown \/ IfaceUp \/ Mark
  BY <1>6 DEF GetDemotion, WriteDemotion, IfaceDown, IfaceUp, Mark, observed, locals,
     stopper, memory
<1>7. CASE Compare
  <2>1. pc = "compare" /\ UNCHANGED <<decision, lastHealth, cfg>> /\ pc' \in {"select", "stepDown"}
    BY <1>7 DEF Compare, config
  <2>2. pc' = "stepDown" => MayStepDown
    BY <1>7 DEF Compare
  <2>3. MayStepDown => cfg.mode = "preempt" /\ lastHealth.Score >= 80
    BY DEF MayStepDown, StateFromScore
  <2> QED
    BY <2>1, <2>2, <2>3
<1>8. CASE StepDown \/ StepMark
  BY <1>8 DEF StepDown, StepMark, config, observed
<1>9. CASE Stop
  BY <1>9 DEF Stop, StopBegin, StopIfaceUp, StopGetDemotion, StopWriteDemotion, StopMark,
     StopClose, config, memory, observed, locals
<1>10. CASE Surroundings
  BY <1>10 DEF Surroundings, CarpElect, Tick, Kill, Restart, Reload, config, memory,
     observed, locals, stopper
<1> QED
  BY <1>1, <1>2, <1>3, <1>4, <1>5, <1>6, <1>7, <1>8, <1>9, <1>10 DEF Next, Cycle

\* In every behaviour the decision in hand belongs to the score of the check.
LEMMA ScoredInvariant == Spec => []Scored
<1>1. Init => Scored
  BY DEF Init, NewRunner, Scored, DecisionScored, WithdrawalScored, CommandScored, DecisionPoints
<1>2. TypeOK /\ Scored /\ [Next]_vars => Scored'
  BY ScoredStep
<1> QED
  BY TypeCorrect, <1>1, <1>2, PTL DEF Spec

-----------------------------------------------------------------------------
(* Runner implements VIPControl.                                           *)

\* What the mapping reads.
mapped == <<kernel.up, lastHealth.Score, goodRun, cfg.mode,
            recoveryConfirm(cfg.recovery_confirm), sinceStepDown, spc # "idle">>

\* A check that found everything in order has the whole score.
LEMMA FullScore ==
  ASSUME NEW h \in HealthResults, FullyHealthy(h)
  PROVE  h.Score = 100
<1>1. h.RawScore \in Nat /\ h.MaxScore \in Nat /\ h.RawScore <= h.MaxScore
  BY HealthAssumption DEF HealthRecords
<1>2. h.RawScore = h.MaxScore /\ h.MaxScore > 0
  BY <1>1 DEF FullyHealthy
<1>3. ASSUME NEW m \in Nat, m > 0 PROVE (m * 100) \div m = 100
  BY <1>3
<1> QED
  BY <1>1, <1>2, <1>3, HealthAssumption

\* The commands of the kernel either leave the interface alone or do what
\* they are for.
LEMMA CommandUp ==
  ASSUME TypeOK
  PROVE  /\ Command(InterfaceDown(kernel)) => (kernel'.up => kernel.up) /\ kernel'.up \in BOOLEAN
         /\ Command(InterfaceUp(kernel)) => (kernel.up => kernel'.up) /\ kernel'.up \in BOOLEAN
         /\ \A delta \in Int : Command(writeDemotion(kernel, delta)) => kernel'.up = kernel.up
<1>1. kernel \in Kernels
  BY DEF TypeOK
<1>2. kernel.up \in BOOLEAN
  BY <1>1 DEF Kernels
<1>3. /\ InterfaceDown(kernel).up \in BOOLEAN /\ (InterfaceDown(kernel).up => kernel.up)
      /\ InterfaceUp(kernel).up \in BOOLEAN /\ (kernel.up => InterfaceUp(kernel).up)
  BY <1>2 DEF InterfaceDown, InterfaceUp
<1>4. \A delta \in Int : writeDemotion(kernel, delta).up = kernel.up
  BY <1>1 DEF writeDemotion, Kernels
<1> QED
  BY <1>2, <1>3, <1>4 DEF Command

\* The steps of a cycle that move nothing VIPControl speaks of.
LEMMA QuietRefines ==
  ASSUME TypeOK,
         \/ Ticker \/ Exit
         \/ \E reports \in [Peers -> Reports] : Decide(reports)
         \/ Branch \/ GetDemotion \/ WriteDemotion \/ Mark \/ Compare \/ StepMark
  PROVE  UNCHANGED mapped
<1>1. CASE WriteDemotion
  <2>1. DemotionDelta(decision.DesiredDemotion, current) \in Int
    BY DEF TypeOK, Decisions, DemotionDelta
  <2>2. kernel'.up = kernel.up
    BY <1>1, <2>1, CommandUp DEF WriteDemotion
  <2> QED
    BY <1>1, <2>2 DEF WriteDemotion, mapped, config, stopper, history
<1>2. CASE Ticker \/ Exit \/ (\E reports \in [Peers -> Reports] : Decide(reports))
           \/ Branch \/ GetDemotion \/ Mark \/ StepMark
  BY <1>2 DEF Ticker, Exit, Decide, Branch, GetDemotion, Mark, StepMark, mapped, config,
     stopper, history, ages
<1>3. CASE Compare
  BY <1>3 DEF Compare, mapped, config, stopper
<1> QED
  BY <1>1, <1>2, <1>3

\* The steps of a cycle that VIPControl has an action for.
LEMMA CycleRefines ==
  ASSUME TypeOK, Scored, StreakEarned, CooldownTracked, Cycle
  PROVE  VIP!Next \/ UNCHANGED mapped
<1>t. /\ kernel.up \in BOOLEAN
      /\ goodRun \in 0..GoodRunCap
      /\ preemptCooldown \in 0..(PreemptCooldown + 1)
      /\ sinceStepDown \in 0..(PreemptCooldown + 1)
      /\ PreemptCooldown \in Nat
  BY ParameterAssumption DEF TypeOK, Kernels
<1>1. ASSUME NEW h \in HealthResults, Check(h) PROVE VIP!Check
  <2>1. goodRun' # 0 => lastHealth'.Score = 100
    BY <1>1, FullScore DEF Check
  <2>2. goodRun' \in {0, goodRun, goodRun + 1}
    BY <1>1 DEF Check
  <2> QED
    BY <1>1, <2>1, <2>2 DEF Check, VIP!Check, config, stopper, ages
<1>2. CASE IfaceDown
  <2>1. kernel'.up => kernel.up
    BY <1>2, CommandUp DEF IfaceDown
  <2>2. lastHealth.Score < 40 \/ spc # "idle"
    BY <1>2 DEF IfaceDown, Scored, WithdrawalScored, CommandScored
  <2>3. UNCHANGED <<lastHealth, goodRun, cfg, sinceStepDown, spc>>
    BY <1>2 DEF IfaceDown, config, stopper, history
  <2>4. CASE kernel.up /\ ~kernel'.up
    BY <2>2, <2>3, <2>4 DEF VIP!Next, VIP!Withdraw
  <2>5. CASE kernel'.up = kernel.up
    BY <2>3, <2>5 DEF mapped
  <2>6. kernel'.up \in BOOLEAN
    BY <1>2, CommandUp DEF IfaceDown
  <2> QED
    BY <2>1, <2>4, <2>5, <2>6, <1>t
<1>3. CASE IfaceUp
  <2>1. kernel.up => kernel'.up
    BY <1>3, CommandUp DEF IfaceUp
  <2>2. lastHealth.Score >= 40
    BY <1>3 DEF IfaceUp, Scored, DecisionScored, CommandScored, DecisionPoints
  <2>3. cfg.mode = "preempt" => goodRun >= recoveryConfirm(cfg.recovery_confirm)
    BY <1>3 DEF IfaceUp, StreakEarned
  <2>4. UNCHANGED <<lastHealth, goodRun, cfg, sinceStepDown, spc>>
    BY <1>3 DEF IfaceUp, config, stopper, history
  <2>5. CASE ~kernel.up /\ kernel'.up
    BY <2>2, <2>3, <2>4, <2>5 DEF VIP!Next, VIP!Reclaim
  <2>6. CASE kernel'.up = kernel.up
    BY <2>4, <2>6 DEF mapped
  <2>7. kernel'.up \in BOOLEAN
    BY <1>3, CommandUp DEF IfaceUp
  <2> QED
    BY <2>1, <2>5, <2>6, <2>7, <1>t
<1>4. CASE StepDown
  <2>1. kernel'.up => kernel.up
    BY <1>4, CommandUp DEF StepDown
  <2>2. cfg.mode = "preempt" /\ lastHealth.Score >= 80
    BY <1>4 DEF StepDown, Scored, CommandScored
  <2>3. sinceStepDown > PreemptCooldown
    BY <1>4, <1>t DEF StepDown, CooldownTracked
  <2>4. UNCHANGED <<lastHealth, goodRun, cfg, spc>> /\ sinceStepDown' = 0
    BY <1>4 DEF StepDown, config, stopper
  <2> QED
    BY <2>1, <2>2, <2>3, <2>4 DEF VIP!Next, VIP!StepDown
<1> QED
  BY <1>1, <1>2, <1>3, <1>4, QuietRefines DEF Cycle, VIP!Next

\* Stop only ever brings the interface up, after it has begun.
LEMMA StopRefines ==
  ASSUME TypeOK, Stop
  PROVE  VIP!Next \/ UNCHANGED mapped
<1>1. CASE StopBegin
  <2>1. UNCHANGED <<kernel, lastHealth, goodRun, cfg, sinceStepDown>> /\ spc' # "idle"
    BY <1>1 DEF StopBegin, config, ages
  <2> QED
    BY <2>1 DEF VIP!Next, VIP!BeginStop
<1>2. CASE StopIfaceUp
  <2>1. kernel.up => kernel'.up
    BY <1>2, CommandUp DEF StopIfaceUp
  <2>2. UNCHANGED <<lastHealth, goodRun, cfg, sinceStepDown>> /\ spc # "idle" /\ spc' # "idle"
    BY <1>2 DEF StopIfaceUp, config, history
  <2>3. CASE kernel'.up
    BY <2>2, <2>3 DEF VIP!Next, VIP!Release
  <2>4. CASE kernel'.up = kernel.up
    BY <2>2, <2>4 DEF mapped
  <2>5. kernel'.up \in BOOLEAN /\ kernel.up \in BOOLEAN
    BY <1>2, CommandUp DEF StopIfaceUp, TypeOK, Kernels
  <2> QED
    BY <2>1, <2>3, <2>4, <2>5
<1>3. CASE StopWriteDemotion
  <2>1. DemotionDelta(0, scurrent) \in Int
    BY DEF TypeOK, DemotionDelta
  <2>2. kernel'.up = kernel.up
    BY <1>3, <2>1, CommandUp DEF StopWriteDemotion
  <2> QED
    BY <1>3, <2>2 DEF StopWriteDemotion, mapped, config, history
<1>4. CASE StopGetDemotion \/ StopMark \/ StopClose
  BY <1>4 DEF StopGetDemotion, StopMark, StopClose, mapped, config, history
<1> QED
  BY <1>1, <1>2, <1>3, <1>4 DEF Stop

\* Elections, time, reloads and the fate of the process.
LEMMA SurroundingsRefine ==
  ASSUME TypeOK, Surroundings \/ ApplyReload
  PROVE  VIP!Next \/ UNCHANGED mapped
<1>1. CASE ApplyReload
  BY <1>1 DEF ApplyReload, VIP!Next, VIP!Reconfigure, stopper, history
<1>2. ASSUME NEW role \in {"MASTER", "BACKUP"}, CarpElect(role) PROVE UNCHANGED mapped
  <2>1. kernel'.up = kernel.up
    BY <1>2 DEF CarpElect, TypeOK, Kernels
  <2> QED
    BY <1>2, <2>1 DEF CarpElect, mapped, config, stopper, history
<1>3. CASE Tick
  <2>1. sinceStepDown' = sinceStepDown \/ sinceStepDown' = sinceStepDown + 1
    BY <1>3 DEF Tick, Older
  <2>2. UNCHANGED <<kernel, lastHealth, goodRun, cfg, spc>>
    BY <1>3 DEF Tick, config, stopper
  <2> QED
    BY <2>1, <2>2 DEF mapped, VIP!Next, VIP!Tick
<1>4. CASE Kill
  BY <1>4 DEF Kill, mapped, config, stopper, history
<1>5. ASSUME NEW c \in Configs, Restart(c) PROVE VIP!NewProcess
  BY <1>5, ParameterAssumption DEF Restart, VIP!NewProcess
<1>6. ASSUME NEW c \in Configs, Reload(c) PROVE UNCHANGED mapped
  BY <1>6 DEF Reload, mapped, stopper, history
<1> QED
  BY <1>1, <1>2, <1>3, <1>4, <1>5, <1>6 DEF Surroundings, VIP!Next

\* The runner, Stop and everything that may happen to the process implement
\* VIPControl: for all configurations, failures, restarts and interleavings the
\* VIP interface goes down only for an UNHEALTHY check, a permitted step-down or
\* beside a stop, and comes back only when the recovery is earned.
THEOREM Refinement == Spec => VIPControlled
<1>1. Init => VIP!Init
  BY ParameterAssumption DEF Init, NewRunner, VIP!Init
<1>2. TypeOK /\ Scored /\ StreakEarned /\ CooldownTracked /\ [Next]_vars =>
        [VIP!Next]_(VIP!vars)
  <2> SUFFICES ASSUME TypeOK, Scored, StreakEarned, CooldownTracked, [Next]_vars
               PROVE  VIP!Next \/ UNCHANGED mapped
    BY DEF mapped, VIP!vars
  <2>1. CASE UNCHANGED vars
    BY <2>1 DEF vars, mapped, config, stopper, history
  <2>2. CASE Exit
    BY <2>2, QuietRefines
  <2> QED
    BY <2>1, <2>2, CycleRefines, StopRefines, SurroundingsRefine DEF Next
<1> QED
  BY TypeCorrect, ScoredInvariant, StreakInvariant, CooldownInvariant, <1>1, <1>2, PTL
     DEF Spec, VIPControlled, VIP!Spec

-----------------------------------------------------------------------------
(* The posture at the end of step 1.                                       *)

\* Until step 1 is over the decision in hand is what EvaluatePolicy makes of
\* this cycle's readings and configuration, or a hold that is not yet confirmed.
DecisionCurrent ==
  pc \in {"branch", "getDemotion", "writeDemotion", "ifaceDown", "ifaceUp", "mark", "compare"} =>
    \/ decision = EvaluatePolicy(cfg.mode, lastHealth.Score, carpState, peerHealths, lv(cfg))
    \/ /\ decision = HoldDecision(lv(cfg))
       /\ cfg.mode = "preempt"
       /\ recoveryStreak < recoveryConfirm(cfg.recovery_confirm)

\* Every step keeps the decision current: nothing reads, reloads or counts
\* between the decision and the end of step 1.
LEMMA DecisionCurrentStep ==
  ASSUME TypeOK, DecisionCurrent, [Next]_vars
  PROVE  DecisionCurrent'
<1>1. ASSUME NEW reports \in [Peers -> Reports], Decide(reports) PROVE DecisionCurrent'
  <2> DEFINE confirm == recoveryConfirm(cfg.recovery_confirm)
             wanted == EvaluatePolicy(cfg.mode, lastHealth.Score, carpState, reports, lv(cfg))
             next == NextStreak(cfg.mode, wanted, lastIfaceDown, lastHealth, confirm, recoveryStreak)
             held == HoldApplies(cfg.mode, wanted, lastIfaceDown, confirm) /\ next < confirm
  <2>1. /\ decision' = IF held THEN HoldDecision(lv(cfg)) ELSE wanted
        /\ recoveryStreak' = next
    BY <1>1 DEF Decide, applyRecoveryHold
  <2>2. held => cfg.mode = "preempt" /\ next < confirm
    BY DEF HoldApplies
  <2>3. peerHealths' = reports /\ UNCHANGED <<cfg, lastHealth, carpState>>
    BY <1>1 DEF Decide, config
  <2> HIDE DEF held, next
  <2>4. CASE held
    BY <2>1, <2>2, <2>3, <2>4 DEF DecisionCurrent
  <2>5. CASE ~held
    <3>1. decision' = EvaluatePolicy(cfg.mode, lastHealth.Score, carpState, reports, lv(cfg))
      BY <2>1, <2>5
    <3> QED
      BY <2>3, <3>1 DEF DecisionCurrent
  <2> QED
    BY <2>4, <2>5
<1>2. CASE UNCHANGED <<pc, decision, cfg, lastHealth, carpState, peerHealths, recoveryStreak>>
  BY <1>2 DEF DecisionCurrent
<1>3. CASE Branch \/ GetDemotion \/ WriteDemotion \/ IfaceDown \/ IfaceUp \/ Mark
  BY <1>3 DEF Branch, GetDemotion, WriteDemotion, IfaceDown, IfaceUp, Mark, DecisionCurrent,
     config, observed
<1>4. CASE \/ Ticker \/ Exit \/ ApplyReload \/ Compare \/ StepDown \/ StepMark
           \/ (\E h \in HealthResults : Check(h))
  BY <1>4 DEF Ticker, Exit, ApplyReload, Compare, StepDown, StepMark, Check, DecisionCurrent
<1>5. CASE Stop
  BY <1>2, <1>5 DEF Stop, StopBegin, StopIfaceUp, StopGetDemotion, StopWriteDemotion, StopMark,
     StopClose, config, observed
<1>6. CASE Kill \/ \E c \in Configs : Restart(c)
  BY <1>6 DEF Kill, Restart, DecisionCurrent
<1>7. CASE \/ Tick \/ UNCHANGED vars
           \/ (\E role \in {"MASTER", "BACKUP"} : CarpElect(role))
           \/ (\E c \in Configs : Reload(c))
  BY <1>2, <1>7 DEF Tick, CarpElect, Reload, vars, config, observed
<1> QED
  BY <1>1, <1>3, <1>4, <1>5, <1>6, <1>7 DEF Next, Cycle, Surroundings

\* In every behaviour the decision that step 1 carries out is the current one.
LEMMA DecisionCurrentInvariant == Spec => []DecisionCurrent
<1>1. Init => DecisionCurrent
  BY DEF Init, NewRunner, DecisionCurrent
<1>2. TypeOK /\ DecisionCurrent /\ [Next]_vars => DecisionCurrent'
  BY DecisionCurrentStep
<1> QED
  BY TypeCorrect, <1>1, <1>2, PTL DEF Spec

\* When step 1 of an undisturbed cycle is over the interface and the demotion are
\* those that the cycle's own health, role, peer reports and configuration call
\* for, across any reloads and with any levels, shared ones included.
THEOREM PostureHolds == Spec => []Posture
<1>1. ASSUME TypeOK, KernelTracked, DecisionCurrent PROVE Posture
  <2> DEFINE levels == lv(cfg)
             state == StateFromScore(lastHealth.Score)
             yields == /\ cfg.mode = "preempt" /\ carpState = "MASTER"
                       /\ \E p \in Peers : /\ peerHealths[p].OK
                                          /\ peerHealths[p].Score > lastHealth.Score
             held == cfg.mode = "preempt" /\ recoveryStreak < recoveryConfirm(cfg.recovery_confirm)
             wanted == EvaluatePolicy(cfg.mode, lastHealth.Score, carpState, peerHealths, levels)
             serving == IF state = "HEALTHY" /\ ~yields THEN levels.Healthy ELSE levels.Degraded
  <2> SUFFICES ASSUME Alone, pc = "compare"
               PROVE  /\ state = "UNHEALTHY" => ~kernel.up
                      /\ ~kernel.up =>
                           /\ state = "UNHEALTHY" \/ held
                           /\ kernel.demotion \in {levels.Unhealthy, levels.Unhealthy + IfaceDownPenalty}
                      /\ kernel.up => UpWith(serving)
    BY DEF Posture
  <2>1. /\ Remembered
        /\ lastDemotion = decision.DesiredDemotion
        /\ lastIfaceDown = decision.DesiredIfaceDown
    BY <1>1 DEF KernelTracked, KernelSound
  <2>2. decision = wanted \/ (decision = HoldDecision(levels) /\ held)
    BY <1>1 DEF DecisionCurrent
  <2>3. DOMAIN peerHealths = Peers
    BY <1>1 DEF TypeOK
  <2>4. state \in {"HEALTHY", "DEGRADED", "UNHEALTHY"}
    BY DEF StateFromScore
  <2>5. /\ wanted.DesiredIfaceDown = (state = "UNHEALTHY")
        /\ state = "UNHEALTHY" => wanted.DesiredDemotion = levels.Unhealthy
        /\ state # "UNHEALTHY" => wanted.DesiredDemotion = serving
    BY <2>3, <2>4 DEF EvaluatePolicy, HasHealthierPeer
  <2>6. HoldDecision(levels) = [DesiredDemotion |-> levels.Unhealthy, DesiredIfaceDown |-> TRUE]
    BY DEF HoldDecision
  <2>7. lv(cfg) \in [Healthy : Nat, Degraded : Nat, Unhealthy : Nat]
    BY <1>1, LevelsType DEF TypeOK
  <2>8. serving \in Nat /\ levels.Unhealthy \in Nat
    BY <2>7
  <2> HIDE DEF wanted, held, yields, state, serving, levels
  <2>9. \/ /\ lastIfaceDown /\ lastDemotion = levels.Unhealthy
           /\ state = "UNHEALTHY" \/ held
        \/ /\ ~lastIfaceDown /\ lastDemotion = serving
           /\ state # "UNHEALTHY"
    <3>1. CASE decision = HoldDecision(levels) /\ held
      BY <2>1, <2>6, <3>1
    <3>2. CASE decision = wanted /\ state = "UNHEALTHY"
      BY <2>1, <2>5, <3>2
    <3>3. CASE decision = wanted /\ state # "UNHEALTHY"
      BY <2>1, <2>5, <3>3
    <3> QED
      BY <2>2, <3>1, <3>2, <3>3
  <2>10. CASE lastIfaceDown /\ lastDemotion = levels.Unhealthy /\ (state = "UNHEALTHY" \/ held)
    <3>1. DownWith(levels.Unhealthy)
      BY <2>1, <2>10 DEF Remembered
    <3> QED
      BY <2>10, <3>1 DEF DownWith
  <2>11. CASE ~lastIfaceDown /\ lastDemotion = serving /\ state # "UNHEALTHY"
    <3>1. UpWith(serving)
      BY <2>1, <2>8, <2>11 DEF Remembered
    <3> QED
      BY <2>11, <3>1 DEF UpWith
  <2> QED
    BY <2>9, <2>10, <2>11
<1> QED
  BY TypeCorrect, KernelIsTracked, DecisionCurrentInvariant, <1>1, PTL

-----------------------------------------------------------------------------
(* A stop that no cycle overlaps.                                          *)

\* Exit comes only after the done channel is closed.
ExitedClosed == pc = "exited" => spc = "closed"

\* While Stop runs and no cycle has overlapped it, the runner waits in the
\* select, the interface is up once Stop has given its command, and demotion 0
\* is written from the value that is in force.
StopTracked ==
  Undisturbed /\ ~overlap /\ spc # "idle" =>
    /\ pc \in {"select", "exited"}
    /\ spc # "up" => kernel.up
    /\ spc = "write" => scurrent = kernel.demotion
    /\ spc = "mark" => kernel.demotion = 0
    /\ spc \in {"close", "closed"} /\ foundDown => kernel.demotion = 0

\* Every step of Stop, and every step beside it that is no cycle.
LEMMA StopTrackedStep ==
  ASSUME TypeOK, KernelTracked, StopTracked, [Next]_vars
  PROVE  StopTracked'
<1> SUFFICES ASSUME Undisturbed', ~overlap', spc' # "idle"
             PROVE  StopTracked'
  BY DEF StopTracked
<1>u. Undisturbed /\ failures' = 0
  BY UndisturbedBackward DEF Undisturbed
<1>t. kernel.up \in BOOLEAN /\ kernel.demotion \in Int /\ kernel \in Kernels
  BY DEF TypeOK, Kernels
<1>1. CASE UNCHANGED <<pc, spc, scurrent, kernel, overlap, foundDown>>
  BY <1>1, <1>u DEF StopTracked
<1>2. CASE StopBegin
  <2>1. Alone /\ pc = "select" /\ pc' = "select"
    BY <1>2, <1>u DEF StopBegin, Alone
  <2>2. ~lastIfaceDown => kernel.up
    BY <2>1 DEF KernelTracked, KernelSound, Remembered
  <2>3. kernel' = kernel /\ foundDown' = lastIfaceDown
    BY <1>2 DEF StopBegin
  <2> QED
    BY <1>2, <2>1, <2>2, <2>3 DEF StopBegin, StopTracked
<1>3. CASE StopIfaceUp
  <2>1. kernel' = InterfaceUp(kernel)
    BY <1>3, <1>u, CommandDone DEF StopIfaceUp
  <2>2. kernel'.up
    BY <2>1 DEF InterfaceUp
  <2> QED
    BY <1>3, <1>u, <2>2 DEF StopIfaceUp, StopTracked, history
<1>4. CASE StopGetDemotion
  <2>1. scurrent' = kernel.demotion
    BY <1>4, <1>u, ParameterAssumption DEF StopGetDemotion, ReadDemotion, TypeOK
  <2> QED
    BY <1>4, <1>u, <2>1 DEF StopGetDemotion, StopTracked, history
<1>5. CASE StopWriteDemotion
  <2>1. kernel' = writeDemotion(kernel, DemotionDelta(0, scurrent))
    BY <1>5, <1>u, CommandDone DEF StopWriteDemotion
  <2>2. scurrent = kernel.demotion /\ kernel.up
    BY <1>5, <1>u DEF StopWriteDemotion, StopTracked, history
  <2>3. kernel'.up /\ kernel'.demotion = 0
    BY <1>t, <2>1, <2>2 DEF writeDemotion, DemotionDelta, Kernels
  <2> QED
    BY <1>5, <1>u, <2>3 DEF StopWriteDemotion, StopTracked, history
<1>6. CASE StopMark \/ StopClose
  BY <1>6, <1>u DEF StopMark, StopClose, StopTracked, history, memory
<1>7. CASE Exit
  BY <1>7, <1>u DEF Exit, StopTracked, stopper, history, memory
<1>8. CASE Cycle
  <2>1. spc' = spc /\ pc \notin {"exited", "dead"}
    BY <1>8 DEF Cycle, Ticker, Check, Decide, Branch, GetDemotion, WriteDemotion, IfaceDown,
       IfaceUp, Mark, Compare, StepDown, StepMark, stopper
  <2>2. overlap' = overlap \/ Ticker
    BY <1>8 DEF Cycle, Check, Decide, Branch, GetDemotion, WriteDemotion, IfaceDown,
       IfaceUp, Mark, Compare, StepDown, StepMark, history
  <2>3. CASE Ticker
    BY <2>1, <2>3 DEF Ticker
  <2>4. CASE ~Ticker
    <3>1. pc = "select"
      BY <1>u, <2>1, <2>2, <2>4 DEF StopTracked
    <3> QED
      BY <1>8, <2>4, <3>1 DEF Cycle, Check, Decide, Branch, GetDemotion, WriteDemotion,
         IfaceDown, IfaceUp, Mark, Compare, StepDown, StepMark
  <2> QED
    BY <2>3, <2>4
<1>9. CASE Surroundings
  <2>1. ASSUME NEW role \in {"MASTER", "BACKUP"}, CarpElect(role) PROVE StopTracked'
    <3>1. kernel'.up = kernel.up /\ kernel'.demotion = kernel.demotion
      BY <1>t, <2>1 DEF CarpElect, Kernels
    <3>2. UNCHANGED <<pc, spc, scurrent, overlap, foundDown>>
      BY <2>1 DEF CarpElect, stopper, memory, history
    <3> QED
      BY <1>u, <3>1, <3>2 DEF StopTracked
  <2>2. CASE Tick \/ (\E c \in Configs : Reload(c))
    BY <1>1, <2>2 DEF Tick, Reload, stopper, memory, history
  <2>3. CASE Kill \/ (\E c \in Configs : Restart(c))
    BY <2>3 DEF Kill, Restart, Undisturbed
  <2> QED
    BY <1>9, <2>1, <2>2, <2>3 DEF Surroundings
<1>10. CASE ApplyReload \/ UNCHANGED vars
  BY <1>1, <1>10 DEF ApplyReload, vars, stopper, memory, history
<1> QED
  BY <1>2, <1>3, <1>4, <1>5, <1>6, <1>7, <1>8, <1>9, <1>10 DEF Next, Stop

\* Every step keeps an exit behind a closed channel.
LEMMA ExitedStep ==
  ASSUME ExitedClosed, [Next]_vars
  PROVE  ExitedClosed'
BY DEF ExitedClosed, Next, vars, Cycle, Ticker, Check, Decide, Branch, GetDemotion,
   WriteDemotion, IfaceDown, IfaceUp, Mark, Compare, StepDown, StepMark, ApplyReload, Exit,
   Stop, StopBegin, StopIfaceUp, StopGetDemotion, StopWriteDemotion, StopMark, StopClose,
   Surroundings, CarpElect, Tick, Kill, Restart, Reload, stopper, Running

\* A stop without a failing command and without a cycle beside it leaves the VIP
\* interface up and, if it found it down, demotion 0, with any levels.
THEOREM QuietStopHolds == Spec => []QuietStopRestores
<1>1. Init => ExitedClosed /\ StopTracked
  BY DEF Init, NewRunner, ExitedClosed, StopTracked
<1>2. TypeOK /\ KernelTracked /\ ExitedClosed /\ StopTracked /\ [Next]_vars =>
        ExitedClosed' /\ StopTracked'
  BY StopTrackedStep, ExitedStep
<1>3. ExitedClosed /\ StopTracked => QuietStopRestores
  BY DEF ExitedClosed, StopTracked, QuietStopRestores
<1> QED
  BY TypeCorrect, KernelIsTracked, <1>1, <1>2, <1>3, PTL DEF Spec

-----------------------------------------------------------------------------
(* The grace of a peer whose kernel preempts.                              *)

\* With one peer the grace timer never runs ahead of the time that this peer
\* has been preferred.  A step-down that needs no grace stops the timer late.
GraceTracked ==
  NPeers = 1 =>
    /\ pc \notin {"stepDown", "stepMark", "dead"} /\ kernelPreemptSince # Unset =>
         waited[1] >= kernelPreemptSince
    /\ pc = "stepDown" =>
         /\ yieldTo = 1
         /\ peerHealths[1].Preempt = 1 => waited[1] >= KernelGrace

\* Every step keeps the timer behind the waiting.
LEMMA GraceStep ==
  ASSUME TypeOK, GraceTracked, [Next]_vars
  PROVE  GraceTracked'
<1> SUFFICES ASSUME NPeers = 1 PROVE GraceTracked'
  BY DEF GraceTracked
<1>t. /\ kernelPreemptSince \in {Unset} \cup 0..KernelGrace
      /\ waited[1] \in {Unset} \cup 0..KernelGrace
      /\ KernelGrace \in Nat
      /\ Peers = {1}
  BY ParameterAssumption DEF TypeOK, Ages, Peers
<1>i. /\ kernelPreemptSince \in Int /\ (kernelPreemptSince # Unset => kernelPreemptSince >= 0)
      /\ waited[1] \in Int /\ (waited[1] # Unset => waited[1] >= 0)
      /\ kernelPreemptSince <= KernelGrace
  BY <1>t
<1>1. CASE UNCHANGED <<pc, kernelPreemptSince, waited, yieldTo, peerHealths>>
  BY <1>1 DEF GraceTracked
<1>2. CASE Compare
  <2>1. PICK read \in Readings :
          LET preferred == IF MayStepDown THEN Preferred(read.advskew, read.demotion) ELSE {}
              ready == {p \in preferred : Ready(p)}
          IN /\ pc = "compare"
             /\ waited' = Waiting(preferred)
             /\ \/ /\ \E p \in ready : yieldTo' = p
                   /\ pc' = "stepDown"
                   /\ UNCHANGED <<kernelPreemptSince, peerHealths>>
                \/ /\ ready = {}
                   /\ kernelPreemptSince' = IF preferred = {} THEN Unset
                                            ELSE IF kernelPreemptSince = Unset THEN 0
                                            ELSE kernelPreemptSince
                   /\ pc' = "select"
    BY <1>2 DEF Compare
  <2> DEFINE preferred == IF MayStepDown THEN Preferred(read.advskew, read.demotion) ELSE {}
             ready == {p \in preferred : Ready(p)}
  <2>2. preferred \subseteq {1}
    BY <1>t DEF Preferred
  <2>3. kernelPreemptSince # Unset => waited[1] >= kernelPreemptSince
    BY <2>1 DEF GraceTracked
  <2>4. waited'[1] = IF 1 \in preferred /\ peerHealths[1].Preempt = 1
                     THEN IF waited[1] = Unset THEN 0 ELSE waited[1] ELSE Unset
    BY <1>t, <2>1 DEF Waiting
  <2> HIDE DEF preferred
  <2>5. CASE /\ \E p \in ready : yieldTo' = p
             /\ pc' = "stepDown"
             /\ UNCHANGED <<kernelPreemptSince, peerHealths>>
    <3>1. 1 \in preferred /\ Ready(1) /\ yieldTo' = 1
      BY <2>2, <2>5
    <3>2. peerHealths[1].Preempt = 1 => waited'[1] >= KernelGrace
      BY <1>i, <1>t, <2>3, <2>4, <3>1 DEF Ready
    <3> QED
      BY <2>5, <3>1, <3>2 DEF GraceTracked
  <2>6. CASE /\ ready = {}
             /\ kernelPreemptSince' = IF preferred = {} THEN Unset
                                      ELSE IF kernelPreemptSince = Unset THEN 0
                                      ELSE kernelPreemptSince
             /\ pc' = "select"
    <3>1. CASE preferred = {}
      BY <2>6, <3>1 DEF GraceTracked
    <3>2. CASE preferred # {}
      <4>1. 1 \in preferred /\ ~Ready(1)
        BY <2>2, <2>6, <3>2
      <4>2. peerHealths[1].Preempt = 1
        BY <4>1 DEF Ready
      <4> QED
        BY <1>i, <2>3, <2>4, <2>6, <4>1, <4>2 DEF GraceTracked
    <3> QED
      BY <3>1, <3>2
  <2> QED
    BY <2>1, <2>5, <2>6 DEF preferred
<1>3. CASE Tick
  <2>1. /\ waited'[1] = Older(waited[1], KernelGrace)
        /\ kernelPreemptSince' = Older(kernelPreemptSince, KernelGrace)
        /\ UNCHANGED <<pc, yieldTo, peerHealths>>
    BY <1>3, <1>t DEF Tick, locals, observed
  <2>2. /\ waited[1] >= KernelGrace => waited'[1] >= KernelGrace
        /\ kernelPreemptSince # Unset /\ waited[1] >= kernelPreemptSince =>
             waited'[1] >= kernelPreemptSince'
        /\ kernelPreemptSince = Unset => kernelPreemptSince' = Unset
    BY <1>i, <1>t, <2>1 DEF Older
  <2> QED
    BY <2>1, <2>2 DEF GraceTracked
<1>4. CASE StepDown \/ StepMark
  BY <1>4 DEF StepDown, StepMark, GraceTracked
<1>5. CASE \/ Ticker \/ Exit \/ (\E h \in HealthResults : Check(h))
           \/ (\E reports \in [Peers -> Reports] : Decide(reports))
           \/ Branch \/ GetDemotion \/ WriteDemotion \/ IfaceDown \/ IfaceUp \/ Mark
  BY <1>5 DEF Ticker, Exit, Check, Decide, Branch, GetDemotion, WriteDemotion, IfaceDown, IfaceUp,
     Mark, GraceTracked, timers, history, ages
<1>6. CASE ApplyReload \/ Stop \/ UNCHANGED vars
  BY <1>1, <1>6 DEF ApplyReload, Stop, StopBegin, StopIfaceUp, StopGetDemotion,
     StopWriteDemotion, StopMark, StopClose, vars, timers, locals, observed, history, ages
<1>7. CASE Kill \/ (\E c \in Configs : Restart(c))
  BY <1>7 DEF Kill, Restart, GraceTracked
<1>8. CASE (\E role \in {"MASTER", "BACKUP"} : CarpElect(role)) \/ (\E c \in Configs : Reload(c))
  BY <1>1, <1>8 DEF CarpElect, Reload, timers, locals, observed, history
<1> QED
  BY <1>2, <1>3, <1>4, <1>5, <1>6, <1>7, <1>8 DEF Next, Cycle, Surroundings

\* With one peer no step-down comes before that peer, whose own kernel preempts,
\* has had the whole grace period.
THEOREM GraceIsGiven == Spec => []GraceGiven
<1>1. Init => GraceTracked
  BY DEF Init, NewRunner, GraceTracked
<1>2. TypeOK /\ GraceTracked /\ [Next]_vars => GraceTracked'
  BY GraceStep
<1>3. GraceTracked => GraceGiven
  BY DEF GraceTracked, GraceGiven
<1> QED
  BY TypeCorrect, <1>1, <1>2, <1>3, PTL DEF Spec
=============================================================================
