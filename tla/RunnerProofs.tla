---------------------------- MODULE RunnerProofs ----------------------------
(***************************************************************************)
(* Theorems about Runner for every value of its constants.                 *)
(***************************************************************************)
EXTENDS Runner, TLAPS

USE DEF Unset, None

-----------------------------------------------------------------------------
(* Facts about the decision functions.                                     *)

\* The levels in force are numbers, whatever keys the configuration omits.
LEMMA LevelsType ==
  ASSUME NEW c \in Configs
  PROVE  lv(c) \in [Healthy : Nat, Degraded : Nat, Unhealthy : Nat]
BY ConfigAssumption DEF ConfigRecords, Levels, lv, demotionLevels

\* A configured confirmation count is never read as "no confirmation".
LEMMA ConfirmPositive ==
  ASSUME NEW c \in Configs
  PROVE  /\ recoveryConfirm(c.recovery_confirm) \in Nat \ {0}
         /\ recoveryConfirm(c.recovery_confirm) <= GoodRunCap
BY ConfigAssumption DEF ConfigRecords, recoveryConfirm, DefaultRecoveryConfirm

\* EvaluatePolicy asks for the unhealthy level with the interface down, or for
\* one of the two serving levels with the interface up, and nothing else.
LEMMA PolicyShape ==
  ASSUME NEW mode, NEW score, NEW carp, NEW reports, NEW d
  PROVE  LET e == EvaluatePolicy(mode, score, carp, reports, d)
         IN \/ e = [DesiredDemotion |-> d.Unhealthy, DesiredIfaceDown |-> TRUE]
            \/ e = [DesiredDemotion |-> d.Degraded, DesiredIfaceDown |-> FALSE]
            \/ e = [DesiredDemotion |-> d.Healthy, DesiredIfaceDown |-> FALSE]
BY DEF EvaluatePolicy, StateFromScore

\* The recovery hold passes the decision on or replaces it by the unhealthy
\* posture, and its streak stays a number.
LEMMA HoldShape ==
  ASSUME NEW mode, NEW e, NEW down, NEW h, NEW confirm, NEW streak \in Nat, NEW d
  PROVE  LET r == applyRecoveryHold(mode, e, down, h, confirm, streak, d)
         IN /\ r.decision \in {e, HoldDecision(d)}
            /\ r.streak \in {0, streak + 1}
            /\ r.streak \in Nat
BY DEF applyRecoveryHold, NextStreak

\* A level and an interface wish make a decision.
LEMMA DecisionType ==
  ASSUME NEW x \in Int, NEW b \in BOOLEAN
  PROVE  [DesiredDemotion |-> x, DesiredIfaceDown |-> b] \in Decisions
BY DEF Decisions

\* The decision of a cycle is made of the levels of its configuration.
LEMMA DecideShape ==
  ASSUME TypeOK, NEW reports, Decide(reports)
  PROVE  \/ decision' = [DesiredDemotion |-> lv(cfg).Unhealthy, DesiredIfaceDown |-> TRUE]
         \/ decision' = [DesiredDemotion |-> lv(cfg).Degraded, DesiredIfaceDown |-> FALSE]
         \/ decision' = [DesiredDemotion |-> lv(cfg).Healthy, DesiredIfaceDown |-> FALSE]
<1> DEFINE wanted == EvaluatePolicy(cfg.mode, lastHealth.Score, carpState, reports, lv(cfg))
           result == applyRecoveryHold(cfg.mode, wanted, lastIfaceDown, lastHealth,
                                       recoveryConfirm(cfg.recovery_confirm),
                                       recoveryStreak, lv(cfg))
<1>1. \/ wanted = [DesiredDemotion |-> lv(cfg).Unhealthy, DesiredIfaceDown |-> TRUE]
      \/ wanted = [DesiredDemotion |-> lv(cfg).Degraded, DesiredIfaceDown |-> FALSE]
      \/ wanted = [DesiredDemotion |-> lv(cfg).Healthy, DesiredIfaceDown |-> FALSE]
  BY PolicyShape
<1>2. recoveryStreak \in Nat
  BY DEF TypeOK
<1>3. result.decision \in {wanted, HoldDecision(lv(cfg))}
  BY <1>2, HoldShape
<1>4. decision' = result.decision
  BY DEF Decide
<1> HIDE DEF wanted, result
<1> QED
  BY <1>1, <1>3, <1>4 DEF HoldDecision

-----------------------------------------------------------------------------
(* Type correctness.                                                       *)

\* The kernel operations keep a kernel a kernel.
LEMMA KernelType ==
  ASSUME NEW k \in Kernels, NEW delta \in Int
  PROVE  /\ InterfaceDown(k) \in Kernels
         /\ InterfaceUp(k) \in Kernels
         /\ writeDemotion(k, delta) \in Kernels
         /\ ReadState(k) \in CarpStates
BY DEF Kernels, Roles, CarpStates, InterfaceDown, InterfaceUp, writeDemotion,
       ReadState, IfaceDownPenalty

\* The parts of the type invariant that arithmetic is about.
LEMMA CounterTypes ==
  ASSUME TypeOK
  PROVE  /\ failures \in 0..MaxFailures
         /\ goodRun \in 0..GoodRunCap
         /\ kernel \in Kernels
BY DEF TypeOK

\* A failure is counted within the budget.
LEMMA FailureType ==
  ASSUME TypeOK, failures' = failures \/ (failures < MaxFailures /\ failures' = failures + 1)
  PROVE  failures' \in 0..MaxFailures
BY CounterTypes, ParameterAssumption

\* A command that keeps the kernel a kernel keeps the budget of failures.
LEMMA CommandType ==
  ASSUME TypeOK, NEW k \in Kernels, Command(k)
  PROVE  kernel' \in Kernels /\ failures' \in 0..MaxFailures
BY CounterTypes, FailureType DEF Command

\* Ageing keeps an age within its cap.
LEMMA OlderType ==
  ASSUME NEW cap \in Nat, NEW age \in Ages(cap)
  PROVE  /\ Older(age, cap) \in Ages(cap)
         /\ age # Unset => Older(age, cap) \in 0..cap
BY DEF Ages, Older

\* The reports of a fresh cycle are well typed.
LEMMA NoReportsType == NoReports \in [Peers -> PeerReports]
BY DEF NoReports, PeerReports

\* Every step of the runner goroutine keeps the types.
LEMMA CycleType ==
  ASSUME TypeOK, Cycle
  PROVE  TypeOK'
<1> USE ParameterAssumption
<1> USE DEF PCs
<1>1. CASE Ticker
  BY <1>1 DEF Ticker, TypeOK, config, memory, timers, observed, locals, stopper,
              budgets, ages
<1>2. ASSUME NEW h \in HealthResults, Check(h) PROVE TypeOK'
  <2>1. h \in HealthRecords
    BY HealthAssumption
  <2>2. carpState' \in CarpStates /\ failures' \in 0..MaxFailures
    BY <1>2, CounterTypes, FailureType, KernelType DEF Check, CarpStates
  <2>3. goodRun' \in 0..GoodRunCap
    BY <1>2, CounterTypes DEF Check
  <2> QED
    BY <1>2, <2>1, <2>2, <2>3 DEF Check, TypeOK, config, memory, timers, locals,
       stopper, ages
<1>3. ASSUME NEW reports \in [Peers -> Reports], Decide(reports) PROVE TypeOK'
  <2>1. decision' \in Decisions
    <3>1. lv(cfg) \in [Healthy : Nat, Degraded : Nat, Unhealthy : Nat]
      BY LevelsType DEF TypeOK
    <3>2. \/ decision' = [DesiredDemotion |-> lv(cfg).Unhealthy, DesiredIfaceDown |-> TRUE]
          \/ decision' = [DesiredDemotion |-> lv(cfg).Degraded, DesiredIfaceDown |-> FALSE]
          \/ decision' = [DesiredDemotion |-> lv(cfg).Healthy, DesiredIfaceDown |-> FALSE]
      BY ONLY TypeOK, <1>3, DecideShape, Zenon
    <3>3. lv(cfg).Unhealthy \in Int /\ lv(cfg).Degraded \in Int /\ lv(cfg).Healthy \in Int
      BY <3>1
    <3> QED
      BY ONLY <3>2, <3>3, DecisionType
  <2>2. recoveryStreak' \in Nat
    BY <1>3, HoldShape DEF Decide, TypeOK
  <2>3. peerHealths' \in [Peers -> PeerReports]
    BY <1>3 DEF Decide
  <2> QED
    BY <1>3, <2>1, <2>2, <2>3 DEF Decide, TypeOK, config, memory, timers, locals,
       stopper, budgets, history
<1>4. CASE Branch
  BY <1>4 DEF Branch, TypeOK, config, memory, timers, observed, stopper, budgets, history
<1>5. CASE GetDemotion
  <2>1. current' \in Int /\ failures' \in 0..MaxFailures
    BY <1>5, CounterTypes, FailureType DEF GetDemotion, ReadDemotion, Kernels
  <2> QED
    BY <1>5, <2>1 DEF GetDemotion, TypeOK, config, memory, timers, observed, stopper, history
<1>6. CASE WriteDemotion
  <2>1. DemotionDelta(decision.DesiredDemotion, current) \in Int
    BY DEF TypeOK, Decisions, DemotionDelta
  <2>2. kernel' \in Kernels /\ failures' \in 0..MaxFailures
    BY <1>6, <2>1, KernelType, CommandType DEF WriteDemotion, TypeOK
  <2> QED
    BY <1>6, <2>2 DEF WriteDemotion, TypeOK, config, memory, timers, observed, stopper, history
<1>7. CASE IfaceDown
  <2>1. kernel' \in Kernels /\ failures' \in 0..MaxFailures
    BY <1>7, KernelType, CommandType DEF IfaceDown, TypeOK
  <2> QED
    BY <1>7, <2>1 DEF IfaceDown, TypeOK, config, memory, timers, observed, locals,
       stopper, history
<1>8. CASE IfaceUp
  <2>1. kernel' \in Kernels /\ failures' \in 0..MaxFailures
    BY <1>8, KernelType, CommandType DEF IfaceUp, TypeOK
  <2> QED
    BY <1>8, <2>1 DEF IfaceUp, TypeOK, config, memory, timers, observed, locals,
       stopper, history
<1>9. CASE Mark
  <2>1. lastDemotion' \in Int
    BY <1>9 DEF Mark, TypeOK, Decisions
  <2>2. lastIfaceDown' \in BOOLEAN
    BY <1>9 DEF Mark, TypeOK
  <2> QED
    BY <1>9, <2>1, <2>2 DEF Mark, TypeOK, config, timers, observed, locals, stopper,
       budgets, history
<1>10. CASE Compare
  <2>1. PICK read \in Readings :
           /\ failures' = failures + Failed(read)
           /\ waited' = Waiting(IF MayStepDown THEN Preferred(read.advskew, read.demotion) ELSE {})
    BY <1>10 DEF Compare
  <2>2. failures' \in 0..MaxFailures
    <3>1. failures + Failed(read) <= MaxFailures /\ Failed(read) \in Nat
      BY <2>1 DEF Readings, Failed
    <3> QED
      BY <2>1, <3>1, CounterTypes
  <2>3. waited' \in [Peers -> Ages(KernelGrace)]
    BY <2>1 DEF TypeOK, Waiting, Ages
  <2>4. kernelPreemptSince' \in Ages(KernelGrace)
    <3>1. kernelPreemptSince' \in {Unset, 0, kernelPreemptSince}
      BY <1>10 DEF Compare
    <3>2. kernelPreemptSince \in Ages(KernelGrace)
      BY DEF TypeOK
    <3> QED
      BY <3>1, <3>2 DEF Ages
  <2>5. peerHealths' \in [Peers -> PeerReports] /\ carpState' \in CarpStates
    BY <1>10, NoReportsType DEF Compare, TypeOK, CarpStates
  <2>6. yieldTo' \in 0..NPeers
    BY <1>10 DEF Compare, Preferred, Peers, TypeOK
  <2> QED
    BY <1>10, <2>2, <2>3, <2>4, <2>5, <2>6 DEF Compare, TypeOK, config, memory, stopper
<1>11. CASE StepDown
  <2>1. kernel' \in Kernels /\ failures' \in 0..MaxFailures
    BY <1>11, KernelType, CommandType DEF StepDown, TypeOK
  <2> QED
    BY <1>11, <2>1 DEF StepDown, TypeOK, config, memory, timers, observed, locals, stopper
<1>12. CASE StepMark
  <2>1. peerHealths' \in [Peers -> PeerReports] /\ carpState' \in CarpStates
    BY <1>12, NoReportsType DEF StepMark, CarpStates
  <2> QED
    BY <1>12, <2>1 DEF StepMark, TypeOK, Ages, config, stopper, budgets, history
<1> QED
  BY <1>1, <1>2, <1>3, <1>4, <1>5, <1>6, <1>7, <1>8, <1>9, <1>10, <1>11, <1>12 DEF Cycle

\* Every step of the signal goroutine keeps the types.
LEMMA StopType ==
  ASSUME TypeOK, Stop
  PROVE  TypeOK'
<1>1. CASE StopBegin
  BY <1>1 DEF StopBegin, TypeOK, config, memory, timers, observed, locals, budgets, ages
<1>2. CASE StopIfaceUp
  <2>1. kernel' \in Kernels /\ failures' \in 0..MaxFailures
    BY <1>2, KernelType, CommandType DEF StopIfaceUp, TypeOK
  <2> QED
    BY <1>2, <2>1 DEF StopIfaceUp, TypeOK, config, memory, timers, observed, locals, history
<1>3. CASE StopGetDemotion
  <2>1. scurrent' \in Int /\ failures' \in 0..MaxFailures
    BY <1>3, ParameterAssumption DEF StopGetDemotion, ReadDemotion, TypeOK, Kernels
  <2> QED
    BY <1>3, <2>1 DEF StopGetDemotion, TypeOK, config, memory, timers, observed,
       locals, history
<1>4. CASE StopWriteDemotion
  <2>1. DemotionDelta(0, scurrent) \in Int
    BY DEF TypeOK, DemotionDelta
  <2>2. kernel' \in Kernels /\ failures' \in 0..MaxFailures
    BY <1>4, <2>1, KernelType, CommandType DEF StopWriteDemotion, TypeOK
  <2> QED
    BY <1>4, <2>2 DEF StopWriteDemotion, TypeOK, config, memory, timers, observed,
       locals, history
<1>5. CASE StopMark
  BY <1>5 DEF StopMark, TypeOK, config, timers, observed, locals, budgets, history
<1>6. CASE StopClose
  BY <1>6 DEF StopClose, TypeOK, config, memory, timers, observed, locals, budgets, history
<1> QED
  BY <1>1, <1>2, <1>3, <1>4, <1>5, <1>6 DEF Stop

\* The decision of a fresh process is well typed.
LEMMA NoDecisionType == NoDecision \in Decisions
BY DEF NoDecision, Decisions

\* So does everything around the process.
LEMMA SurroundingsType ==
  ASSUME TypeOK, Surroundings
  PROVE  TypeOK'
<1> USE ParameterAssumption
<1> USE DEF PCs
<1>1. ASSUME NEW role \in {"MASTER", "BACKUP"}, CarpElect(role) PROVE TypeOK'
  <2>1. kernel' \in Kernels
    BY <1>1, CounterTypes DEF CarpElect, Kernels, Roles
  <2>2. UNCHANGED <<config, lastHealth, memory, recoveryStreak, timers, pc, observed,
                    locals, stopper, budgets, history>>
    BY <1>1 DEF CarpElect
  <2> QED
    BY <2>1, <2>2 DEF TypeOK, config, memory, timers, observed, locals, stopper,
       budgets, history
<1>2. CASE Tick
  <2>1. preemptCooldown' \in 0..(PreemptCooldown + 1) /\ sinceStepDown' \in 0..(PreemptCooldown + 1)
    <3>1. /\ preemptCooldown' = Older(preemptCooldown, PreemptCooldown + 1)
          /\ sinceStepDown' = Older(sinceStepDown, PreemptCooldown + 1)
      BY <1>2 DEF Tick
    <3>2. /\ preemptCooldown \in 0..(PreemptCooldown + 1)
          /\ sinceStepDown \in 0..(PreemptCooldown + 1)
      BY DEF TypeOK
    <3> QED
      BY <3>1, <3>2 DEF Older
  <2>2. kernelPreemptSince' \in Ages(KernelGrace)
    BY <1>2, OlderType DEF Tick, TypeOK
  <2>3. waited' \in [Peers -> Ages(KernelGrace)]
    BY <1>2, OlderType DEF Tick, TypeOK
  <2> QED
    BY <1>2, <2>1, <2>2, <2>3 DEF Tick, TypeOK, config, memory, observed, locals,
       stopper, budgets
<1>3. CASE Kill
  BY <1>3 DEF Kill, TypeOK, config, memory, timers, observed, locals, stopper,
     budgets, history
<1>4. ASSUME NEW c \in Configs, Restart(c) PROVE TypeOK'
  <2>1. restarts' \in 0..MaxRestarts
    BY <1>4 DEF Restart, TypeOK
  <2>2. waited' \in [Peers -> Ages(KernelGrace)] /\ kernelPreemptSince' \in Ages(KernelGrace)
    BY <1>4 DEF Restart, Ages
  <2>3. peerHealths' \in [Peers -> PeerReports] /\ decision' \in Decisions
        /\ carpState' \in CarpStates
    BY <1>4, NoReportsType, NoDecisionType DEF Restart, CarpStates
  <2>4. lastHealth' \in HealthRecords
    BY <1>4 DEF Restart, HealthRecords
  <2>5. /\ preemptCooldown' \in 0..(PreemptCooldown + 1)
        /\ sinceStepDown' \in 0..(PreemptCooldown + 1)
        /\ goodRun' \in 0..GoodRunCap
        /\ recoveryStreak' \in Nat
        /\ yieldTo' \in 0..NPeers
        /\ lastDemotion' \in Int /\ current' \in Int /\ scurrent' \in Int
    BY <1>4 DEF Restart
  <2>6. /\ cfg' \in Configs /\ reloadCh' = <<>> /\ pc' \in PCs
        /\ kernel' \in Kernels /\ failures' \in 0..MaxFailures
        /\ branch' = None /\ spc' = "idle"
        /\ lastIfaceDown' = FALSE /\ overlap' = FALSE /\ foundDown' = FALSE
    BY <1>4 DEF Restart, TypeOK
  <2> QED
    BY <2>1, <2>2, <2>3, <2>4, <2>5, <2>6 DEF TypeOK
<1>5. ASSUME NEW c \in Configs, Reload(c) PROVE TypeOK'
  BY <1>5 DEF Reload, TypeOK, memory, timers, observed, locals, stopper, budgets, history
<1> QED
  BY <1>1, <1>2, <1>3, <1>4, <1>5 DEF Surroundings

\* Taking over a reloaded configuration and leaving the loop keep the types.
LEMMA SelectType ==
  ASSUME TypeOK, ApplyReload \/ Exit
  PROVE  TypeOK'
<1>1. CASE ApplyReload
  <2>1. PICK c \in Configs : reloadCh = <<c>>
    BY <1>1 DEF ApplyReload, TypeOK
  <2>2. cfg' = c /\ reloadCh' = <<>>
    BY <1>1, <2>1 DEF ApplyReload
  <2> QED
    BY <1>1, <2>2 DEF ApplyReload, TypeOK, memory, timers, observed, locals, stopper,
       budgets, history
<1>2. CASE Exit
  BY <1>2 DEF Exit, TypeOK, PCs, config, memory, timers, observed, locals, stopper,
     budgets, history
<1> QED
  BY <1>1, <1>2

\* The types hold in NewRunner and the kernel after boot.
LEMMA InitType == Init => TypeOK
<1> SUFFICES ASSUME Init PROVE TypeOK
  OBVIOUS
<1>1. peerHealths \in [Peers -> PeerReports] /\ decision \in Decisions
  BY NoReportsType, NoDecisionType DEF Init, NewRunner
<1>2. waited \in [Peers -> Ages(KernelGrace)] /\ kernelPreemptSince \in Ages(KernelGrace)
  BY DEF Init, NewRunner, Ages
<1>3. kernel \in Kernels /\ lastHealth \in HealthRecords /\ carpState \in CarpStates
  BY DEF Init, NewRunner, Kernels, Roles, HealthRecords, CarpStates
<1>4. /\ preemptCooldown \in 0..(PreemptCooldown + 1)
      /\ sinceStepDown \in 0..(PreemptCooldown + 1)
      /\ goodRun \in 0..GoodRunCap
      /\ recoveryStreak \in Nat
      /\ yieldTo \in 0..NPeers
      /\ lastDemotion \in Int /\ current \in Int /\ scurrent \in Int
      /\ failures \in 0..MaxFailures /\ restarts \in 0..MaxRestarts
  BY ParameterAssumption DEF Init, NewRunner
<1>5. /\ cfg \in Configs /\ reloadCh = <<>> /\ pc \in PCs
      /\ branch = None /\ spc = "idle"
      /\ lastIfaceDown = FALSE /\ overlap = FALSE /\ foundDown = FALSE
  BY DEF Init, NewRunner, PCs
<1> QED
  BY <1>1, <1>2, <1>3, <1>4, <1>5 DEF TypeOK

\* Every step of the specification keeps the types.
LEMMA NextType == TypeOK /\ [Next]_vars => TypeOK'
<1>1. TypeOK /\ UNCHANGED vars => TypeOK'
  BY DEF TypeOK, vars, config, memory, timers, observed, locals, stopper, budgets, history
<1> QED
  BY <1>1, CycleType, StopType, SurroundingsType, SelectType DEF Next

\* Every variable of the agent keeps its type, for every set of configurations,
\* every number of peers and every budget of failures and restarts.
THEOREM TypeCorrect == Spec => []TypeOK
BY InitType, NextType, PTL DEF Spec
-----------------------------------------------------------------------------
(* The kernel is tracked at every control point.                           *)

\* Levels are natural numbers.
LEMMA LevelFacts ==
  /\ UnhealthyLevels \subseteq Nat
  /\ ServingLevels \subseteq Nat
  /\ \A c \in Configs : /\ lv(c).Unhealthy \in UnhealthyLevels
                        /\ lv(c).Degraded \in ServingLevels
                        /\ lv(c).Healthy \in ServingLevels
<1>1. \A c \in Configs : /\ lv(c).Unhealthy \in Nat
                         /\ lv(c).Degraded \in Nat
                         /\ lv(c).Healthy \in Nat
  BY LevelsType
<1> QED
  BY <1>1 DEF UnhealthyLevels, ServingLevels, HealthyLevels, DegradedLevels

\* A decision keeps its level and its interface wish together, in every step.
LEMMA DecisionSoundStep ==
  ASSUME TypeOK, DecisionSound, [Next]_vars
  PROVE  DecisionSound'
<1>1. ASSUME NEW reports \in [Peers -> Reports], Decide(reports) PROVE DecisionSound'
  <2>1. \/ decision' = [DesiredDemotion |-> lv(cfg).Unhealthy, DesiredIfaceDown |-> TRUE]
        \/ decision' = [DesiredDemotion |-> lv(cfg).Degraded, DesiredIfaceDown |-> FALSE]
        \/ decision' = [DesiredDemotion |-> lv(cfg).Healthy, DesiredIfaceDown |-> FALSE]
    BY ONLY TypeOK, <1>1, DecideShape, Zenon
  <2>2. /\ UnhealthyLevels' = UnhealthyLevels
        /\ ServingLevels' = ServingLevels
    BY DEF UnhealthyLevels, ServingLevels, HealthyLevels, DegradedLevels
  <2>3. cfg \in Configs
    BY DEF TypeOK
  <2> QED
    BY <2>1, <2>2, <2>3, LevelFacts DEF DecisionSound
<1>2. CASE UNCHANGED vars
  BY <1>2 DEF DecisionSound, vars, observed
<1>3. CASE Ticker \/ ApplyReload \/ Exit
  BY <1>3 DEF Ticker, ApplyReload, Exit, DecisionSound, observed
<1>4. ASSUME NEW h \in HealthResults, Check(h) PROVE DecisionSound'
  BY <1>4 DEF Check, DecisionSound
<1>5. CASE Branch \/ GetDemotion \/ WriteDemotion \/ IfaceDown \/ IfaceUp \/ Mark
  BY <1>5 DEF Branch, GetDemotion, WriteDemotion, IfaceDown, IfaceUp, Mark,
              DecisionSound, observed
<1>6. CASE Compare \/ StepDown \/ StepMark
  BY <1>6 DEF Compare, StepDown, StepMark, DecisionSound, observed
<1>7. CASE Stop
  BY <1>7 DEF Stop, StopBegin, StopIfaceUp, StopGetDemotion, StopWriteDemotion,
              StopMark, StopClose, DecisionSound, observed
<1>8. CASE Surroundings
  BY <1>8 DEF Surroundings, CarpElect, Tick, Kill, Restart, Reload, DecisionSound, observed
<1> QED
  BY <1>1, <1>2, <1>3, <1>4, <1>5, <1>6, <1>7, <1>8 DEF Next, Cycle

\* A command that used none of the budget of failures did its work.
LEMMA CommandDone ==
  ASSUME TypeOK, NEW k, Command(k), failures' = 0
  PROVE  kernel' = k
BY ParameterAssumption DEF TypeOK, Command

\* The steps of a cycle that give no command and touch no memory.
LEMMA QuietTracked ==
  ASSUME TypeOK, BranchSound, KernelSound, Alone', Alone,
         \/ Ticker
         \/ ApplyReload
         \/ Exit
         \/ \E h \in HealthResults : Check(h)
  PROVE  BranchSound' /\ KernelSound'
<1> USE DEF Remembered, DownWith, UpWith
<1>1. CASE Ticker
  BY <1>1 DEF Ticker, BranchSound, KernelSound, memory, observed, locals
<1>2. CASE ApplyReload
  BY <1>2 DEF ApplyReload, BranchSound, KernelSound, memory, observed, locals
<1>3. CASE Exit
  BY <1>3 DEF Exit, Alone, stopper
<1>4. ASSUME NEW h \in HealthResults, Check(h) PROVE BranchSound' /\ KernelSound'
  BY <1>4 DEF Check, BranchSound, KernelSound, memory, locals
<1> QED
  BY <1>1, <1>2, <1>3, <1>4

\* Step 1 of runOnce: from the choice of a branch to the record of it.
LEMMA Step1Tracked ==
  ASSUME TypeOK, DecisionSound, BranchSound, KernelSound, Alone, Alone',
         \/ \E reports \in [Peers -> Reports] : Decide(reports)
         \/ Branch \/ GetDemotion \/ WriteDemotion \/ IfaceDown \/ IfaceUp \/ Mark
  PROVE  BranchSound' /\ KernelSound'
<1> DEFINE d == decision.DesiredDemotion
<1>t. /\ kernel.up \in BOOLEAN /\ kernel.demotion \in Int
      /\ lastDemotion \in Int /\ lastIfaceDown \in BOOLEAN
      /\ d \in Int /\ decision.DesiredIfaceDown \in BOOLEAN
  BY DEF TypeOK, Kernels, Decisions
<1>f. failures' = 0
  BY DEF Alone, Undisturbed
<1>1. ASSUME NEW reports \in [Peers -> Reports], Decide(reports)
      PROVE  BranchSound' /\ KernelSound'
  BY <1>1 DEF Decide, BranchSound, KernelSound, Remembered, DownWith, UpWith, memory
<1>2. CASE Branch
  <2>1. pc = "branch" /\ Remembered
    BY <1>2 DEF Branch, KernelSound
  <2>2. UNCHANGED <<kernel, decision, lastDemotion, lastIfaceDown>> /\ Remembered'
    BY <1>2, <2>1 DEF Branch, memory, observed, Remembered, DownWith, UpWith
  <2>3. d \in IF decision.DesiredIfaceDown THEN UnhealthyLevels ELSE ServingLevels
    BY <2>1 DEF DecisionSound
  <2>4. d # Unset
    BY <2>3, LevelFacts
  <2>5. CASE branch' = "down" /\ decision.DesiredIfaceDown /\ ~lastIfaceDown
             /\ pc' = IF d # lastDemotion THEN "getDemotion" ELSE "ifaceDown"
    BY <2>1, <2>2, <2>4, <2>5, <1>t DEF BranchSound, KernelSound, Remembered, UpWith
  <2>6. CASE branch' = "up" /\ ~decision.DesiredIfaceDown /\ lastIfaceDown /\ pc' = "ifaceUp"
    BY <2>2, <2>6 DEF BranchSound, KernelSound
  <2>7. CASE branch' = "level" /\ decision.DesiredIfaceDown = lastIfaceDown
             /\ pc' = IF d # lastDemotion THEN "getDemotion" ELSE "compare"
    BY <2>2, <2>7 DEF BranchSound, KernelSound
  <2> QED
    BY <1>2, <1>t, <2>5, <2>6, <2>7 DEF Branch
<1>3. CASE GetDemotion
  <2>1. current' = kernel.demotion
    BY <1>3, <1>f, ParameterAssumption DEF GetDemotion, ReadDemotion, TypeOK
  <2>2. UNCHANGED <<kernel, decision, lastDemotion, lastIfaceDown, branch>>
    BY <1>3 DEF GetDemotion, memory, observed
  <2> QED
    BY <1>3, <2>1, <2>2 DEF GetDemotion, BranchSound, KernelSound, Remembered,
       DownWith, UpWith
<1>4. CASE WriteDemotion
  <2>1. kernel' = writeDemotion(kernel, DemotionDelta(d, current))
    BY <1>4, <1>f, CommandDone DEF WriteDemotion
  <2>2. current = kernel.demotion
    BY <1>4 DEF WriteDemotion, KernelSound
  <2>3. kernel'.up = kernel.up /\ kernel'.demotion = d
    BY <2>1, <2>2, <1>t DEF writeDemotion, DemotionDelta, TypeOK, Kernels
  <2>4. UNCHANGED <<decision, lastDemotion, lastIfaceDown, branch>>
    BY <1>4 DEF WriteDemotion, memory, observed
  <2>5. IF branch = "up" THEN kernel.up ELSE Remembered
    BY <1>4 DEF WriteDemotion, KernelSound
  <2> QED
    BY <1>4, <2>3, <2>4, <2>5, <1>t DEF WriteDemotion, BranchSound, KernelSound,
       Remembered, DownWith, UpWith
<1>5. CASE IfaceDown
  <2>1. kernel' = InterfaceDown(kernel)
    BY <1>5, <1>f, CommandDone DEF IfaceDown
  <2>2. UpWith(d) /\ branch = "down"
    BY <1>5 DEF IfaceDown, KernelSound
  <2>4. UNCHANGED <<decision, lastDemotion, lastIfaceDown, branch>>
    BY <1>5 DEF IfaceDown, memory, observed, locals
  <2>3. WentDownWith(d)'
    BY <1>t, <2>1, <2>2, <2>4 DEF InterfaceDown, UpWith, WentDownWith, IfaceDownPenalty
  <2> QED
    BY <1>5, <2>2, <2>3, <2>4 DEF IfaceDown, BranchSound, KernelSound
<1>6. CASE IfaceUp
  <2>1. kernel' = InterfaceUp(kernel)
    BY <1>6, <1>f, CommandDone DEF IfaceUp
  <2>2. Remembered /\ branch = "up"
    BY <1>6 DEF IfaceUp, KernelSound
  <2>3. lastIfaceDown /\ ~decision.DesiredIfaceDown
    BY <1>6, <2>2 DEF IfaceUp, BranchSound
  <2>4. kernel'.up /\ kernel'.demotion = kernel.demotion - IfaceDownPenalty
    BY <2>1, <2>2, <2>3 DEF InterfaceUp, Remembered, DownWith
  <2>5. d \in ServingLevels
    BY <1>6, <2>3 DEF IfaceUp, DecisionSound
  <2>7. UNCHANGED <<decision, lastDemotion, lastIfaceDown, branch>>
    BY <1>6 DEF IfaceUp, memory, observed, locals
  <2>6. d = lastDemotion => UpWith(d)'
    <3> SUFFICES ASSUME d = lastDemotion PROVE UpWith(d)'
      OBVIOUS
    <3>1. DownWith(d)
      BY <2>2, <2>3 DEF Remembered
    <3>2. CASE kernel.demotion = d + IfaceDownPenalty
      BY <1>t, <2>4, <2>7, <3>2 DEF UpWith, IfaceDownPenalty
    <3>3. CASE kernel.demotion = d /\ d \in UnhealthyLevels
      BY <2>4, <2>5, <2>7, <3>3 DEF UpWith, SharedLevels
    <3> QED
      BY <3>1, <3>2, <3>3 DEF DownWith
  <2> QED
    BY <1>6, <2>2, <2>3, <2>4, <2>6, <2>7 DEF IfaceUp, BranchSound, KernelSound, UpWith
<1>7. CASE Mark
  <2>1. d \in IF decision.DesiredIfaceDown THEN UnhealthyLevels ELSE ServingLevels
    BY <1>7 DEF Mark, DecisionSound
  <2>2. d \in Nat
    BY <2>1, LevelFacts
  <2>3. UNCHANGED <<kernel, decision>> /\ pc' = "compare" /\ lastDemotion' = d
    BY <1>7 DEF Mark, observed
  <2>4. lastIfaceDown' = decision.DesiredIfaceDown
    <3>1. CASE branch = "down" /\ decision.DesiredIfaceDown /\ ~lastIfaceDown
      BY <1>7, <3>1, <1>t DEF Mark
    <3>2. CASE branch = "up" /\ ~decision.DesiredIfaceDown /\ lastIfaceDown
      BY <1>7, <3>2, <1>t DEF Mark
    <3>3. CASE branch = "level" /\ decision.DesiredIfaceDown = lastIfaceDown
      BY <1>7, <3>3, <1>t DEF Mark
    <3> QED
      BY <1>7, <3>1, <3>2, <3>3 DEF Mark, BranchSound
  <2>5. Remembered'
    BY <1>7, <1>t, <2>1, <2>2, <2>3, <2>4 DEF Mark, BranchSound, KernelSound,
       Remembered, DownWith, UpWith, WentDownWith, SharedLevels
  <2> QED
    BY <2>3, <2>4, <2>5 DEF BranchSound, KernelSound
<1> QED
  BY <1>1, <1>2, <1>3, <1>4, <1>5, <1>6, <1>7

\* Step 2 of runOnce: the comparison and the step-down.
LEMMA Step2Tracked ==
  ASSUME TypeOK, DecisionSound, BranchSound, KernelSound, Alone, Alone',
         Compare \/ StepDown \/ StepMark
  PROVE  BranchSound' /\ KernelSound'
<1> DEFINE d == decision.DesiredDemotion
<1>t. /\ kernel.up \in BOOLEAN /\ kernel.demotion \in Int
      /\ lastDemotion \in Int /\ lastIfaceDown \in BOOLEAN
      /\ d \in Int /\ decision.DesiredIfaceDown \in BOOLEAN
  BY DEF TypeOK, Kernels, Decisions
<1>f. failures' = 0
  BY DEF Alone, Undisturbed
<1>n. pc \in {"compare", "stepDown", "stepMark"} => d \in Nat
  BY LevelFacts DEF DecisionSound
<1>1. CASE Compare
  <2>1. pc = "compare" /\ UNCHANGED <<kernel, decision, lastDemotion, lastIfaceDown>>
    BY <1>1 DEF Compare, memory
  <2>2. pc' = "select" \/ (pc' = "stepDown" /\ MayStepDown)
    BY <1>1 DEF Compare
  <2> QED
    BY <2>1, <2>2, <1>n, <1>t DEF MayStepDown, BranchSound, KernelSound, Remembered,
       DownWith, UpWith
<1>2. CASE StepDown
  <2>1. kernel' = InterfaceDown(kernel)
    BY <1>2, <1>f, CommandDone DEF StepDown
  <2>2. UpWith(d) /\ lastDemotion = d /\ ~decision.DesiredIfaceDown
    BY <1>2, <1>n, <1>t DEF StepDown, KernelSound, Remembered, UpWith
  <2>4. UNCHANGED <<decision, lastDemotion, lastIfaceDown, branch>> /\ pc' = "stepMark"
    BY <1>2 DEF StepDown, memory, observed, locals
  <2>3. WentDownWith(d)'
    BY <1>t, <2>1, <2>2, <2>4 DEF InterfaceDown, UpWith, WentDownWith, IfaceDownPenalty
  <2> QED
    BY <2>2, <2>3, <2>4 DEF BranchSound, KernelSound
<1>3. CASE StepMark
  <2>1. lastDemotion = d /\ WentDownWith(d)
    BY <1>3 DEF StepMark, KernelSound
  <2>2. UNCHANGED <<kernel, decision, lastDemotion>> /\ pc' = "select" /\ lastIfaceDown'
    BY <1>3 DEF StepMark
  <2>3. d \in Nat
    BY <1>3, <1>n DEF StepMark
  <2> QED
    BY <2>1, <2>2, <2>3 DEF BranchSound, KernelSound, Remembered, DownWith, WentDownWith,
       SharedLevels
<1> QED
  BY <1>1, <1>2, <1>3

\* Failures and restarts are never forgotten: an undisturbed state has an
\* undisturbed predecessor.
LEMMA UndisturbedBackward ==
  ASSUME TypeOK, [Next]_vars, Undisturbed'
  PROVE  Undisturbed
<1> USE ParameterAssumption
<1> USE DEF Undisturbed
<1>1. CASE UNCHANGED vars
  BY <1>1 DEF vars, budgets
<1>2. CASE Cycle
  <2>1. restarts' = restarts /\ pc # "dead"
    BY <1>2 DEF Cycle, Ticker, Check, Decide, Branch, GetDemotion, WriteDemotion, IfaceDown,
       IfaceUp, Mark, Compare, StepDown, StepMark, budgets
  <2>2. \E n \in Nat : failures' = failures + n
    <3>1. CASE Compare
      BY <3>1 DEF Compare, Failed
    <3>2. CASE ~Compare
      <4>1. failures' \in {failures, failures + 1}
        BY <1>2, <3>2 DEF Cycle, Ticker, Check, Decide, Branch, GetDemotion, WriteDemotion,
           IfaceDown, IfaceUp, Mark, StepDown, StepMark, Command, ReadDemotion, budgets
      <4>2. failures' = failures + 0 \/ failures' = failures + 1
        BY <4>1 DEF TypeOK
      <4> QED
        BY <4>2
    <3> QED
      BY <3>1, <3>2
  <2> QED
    BY <2>1, <2>2 DEF TypeOK
<1>3. CASE ApplyReload \/ Exit
  BY <1>3 DEF ApplyReload, Exit, budgets
<1>4. CASE Stop
  <2>1. restarts' = restarts /\ pc' = pc
    BY <1>4 DEF Stop, StopBegin, StopIfaceUp, StopGetDemotion, StopWriteDemotion, StopMark,
       StopClose, budgets
  <2>2. failures' \in {failures, failures + 1}
    BY <1>4 DEF Stop, StopBegin, StopIfaceUp, StopGetDemotion, StopWriteDemotion, StopMark,
       StopClose, Command, ReadDemotion, budgets
  <2> QED
    BY <2>1, <2>2 DEF TypeOK
<1>5. CASE Surroundings
  <2>1. ASSUME NEW c \in Configs, Restart(c) PROVE FALSE
    BY <2>1 DEF Restart, TypeOK
  <2> QED
    BY <1>5, <2>1 DEF Surroundings, CarpElect, Tick, Kill, Reload, budgets, Running
<1> QED
  BY <1>1, <1>2, <1>3, <1>4, <1>5 DEF Next

\* Nothing returns the process to an undisturbed state outside Stop either.
LEMMA AloneBackward ==
  ASSUME TypeOK, [Next]_vars, Alone'
  PROVE  Alone
<1>1. Undisturbed
  BY UndisturbedBackward DEF Alone
<1>2. CASE ~ \E c \in Configs : Restart(c)
  BY <1>1, <1>2 DEF Alone, Next, vars, Cycle, Ticker, Check, Decide, Branch, GetDemotion,
     WriteDemotion, IfaceDown, IfaceUp, Mark, Compare, StepDown, StepMark, ApplyReload, Exit,
     Stop, StopBegin, StopIfaceUp, StopGetDemotion, StopWriteDemotion, StopMark, StopClose,
     Surroundings, CarpElect, Tick, Kill, Reload, stopper
<1>3. ASSUME NEW c \in Configs, Restart(c) PROVE FALSE
  BY <1>3 DEF Restart, TypeOK, Alone, Undisturbed
<1> QED
  BY <1>2, <1>3

\* A fresh process on a fresh kernel satisfies the invariant.
LEMMA TrackedInit == Init => KernelTracked
BY DEF Init, NewRunner, KernelTracked, DecisionSound, BranchSound, KernelSound,
   Remembered, UpWith

\* Every step of the specification keeps the kernel tracked.
LEMMA TrackedStep ==
  ASSUME TypeOK, KernelTracked, [Next]_vars
  PROVE  KernelTracked'
<1>1. DecisionSound'
  BY DecisionSoundStep DEF KernelTracked
<1>2. ASSUME Alone' PROVE BranchSound' /\ KernelSound'
  <2>1. Alone /\ DecisionSound /\ BranchSound /\ KernelSound
    BY <1>2, AloneBackward DEF KernelTracked
  <2>2. CASE UNCHANGED vars
    BY <2>1, <2>2 DEF vars, BranchSound, KernelSound, Remembered, DownWith, UpWith,
       WentDownWith, memory, observed, locals
  <2>3. CASE \/ Ticker \/ ApplyReload \/ Exit
             \/ \E h \in HealthResults : Check(h)
    BY <1>2, <2>1, <2>3, QuietTracked
  <2>4. CASE \/ \E reports \in [Peers -> Reports] : Decide(reports)
             \/ Branch \/ GetDemotion \/ WriteDemotion \/ IfaceDown \/ IfaceUp \/ Mark
    BY <1>2, <2>1, <2>4, Step1Tracked
  <2>5. CASE Compare \/ StepDown \/ StepMark
    BY <1>2, <2>1, <2>5, Step2Tracked
  <2>6. CASE Stop
    BY <1>2, <2>6 DEF Stop, StopBegin, StopIfaceUp, StopGetDemotion, StopWriteDemotion,
       StopMark, StopClose, Alone
  <2>7. CASE Surroundings
    <3>1. ASSUME NEW role \in {"MASTER", "BACKUP"}, CarpElect(role)
          PROVE  BranchSound' /\ KernelSound'
      <4>1. kernel'.up = kernel.up /\ kernel'.demotion = kernel.demotion
        BY <3>1 DEF CarpElect, TypeOK, Kernels
      <4>2. UNCHANGED <<pc, branch, current, decision, lastDemotion, lastIfaceDown>>
        BY <3>1 DEF CarpElect, memory, observed, locals
      <4>3. Remembered' = Remembered
        BY <4>1, <4>2 DEF Remembered, DownWith, UpWith
      <4> QED
        BY <2>1, <4>1, <4>2, <4>3 DEF BranchSound, KernelSound, UpWith, WentDownWith
    <3>2. CASE Tick \/ \E c \in Configs : Reload(c)
      BY <2>1, <3>2 DEF Tick, Reload, BranchSound, KernelSound, Remembered, DownWith,
         UpWith, WentDownWith, memory, observed, locals
    <3>3. CASE Kill \/ \E c \in Configs : Restart(c)
      BY <1>2, <3>3, ParameterAssumption DEF Kill, Restart, TypeOK, Alone, Undisturbed
    <3> QED
      BY <2>7, <3>1, <3>2, <3>3 DEF Surroundings
  <2> QED
    BY <2>2, <2>3, <2>4, <2>5, <2>6, <2>7 DEF Next, Cycle
<1> QED
  BY <1>1, <1>2 DEF KernelTracked

\* At every control point of an undisturbed cycle the fields of Runner and the
\* decision in hand determine the kernel's interface and demotion factor.
THEOREM KernelIsTracked == Spec => []KernelTracked
<1>1. TypeOK /\ KernelTracked /\ [Next]_vars => KernelTracked'
  BY TrackedStep
<1> QED
  BY TypeCorrect, TrackedInit, <1>1, PTL DEF Spec

\* Between cycles the kernel is what runOnce remembers in lastIfaceDown and
\* lastDemotion: the penalty the kernel adds on the way down and takes off on
\* the way up ends up in the demotion of a serving node only if its level is an
\* unhealthy level of some configuration as well.
THEOREM AgreementHolds == Spec => []Agreement
<1>1. TypeOK /\ KernelTracked => Agreement
  BY DEF TypeOK, Kernels, KernelTracked, KernelSound, Agreement, Remembered,
     DownWith, UpWith
<1> QED
  BY TypeCorrect, KernelIsTracked, <1>1, PTL

\* A node whose VIP interface is down is never cheap to its peers, at any point
\* of an undisturbed cycle and with any levels, shared ones included.
THEOREM DownIsCostlyHolds == Spec => []DownIsCostly
<1>1. ASSUME TypeOK, KernelTracked PROVE DownIsCostly
  <2> SUFFICES ASSUME Alone, ~kernel.up
               PROVE  kernel.demotion >= IfaceDownPenalty \/ kernel.demotion \in UnhealthyLevels
    BY DEF DownIsCostly
  <2>1. DecisionSound /\ BranchSound /\ KernelSound
    BY <1>1 DEF KernelTracked
  <2>t. /\ kernel.up \in BOOLEAN /\ kernel.demotion \in Int
        /\ lastDemotion \in Int /\ lastIfaceDown \in BOOLEAN
    BY <1>1 DEF TypeOK, Kernels
  <2>2. CASE Remembered
    BY <2>2, <2>t DEF Remembered, DownWith, IfaceDownPenalty
  <2>3. CASE pc = "stepMark" \/ (pc = "mark" /\ branch = "down")
    BY <2>1, <2>3, <2>t, LevelFacts DEF DecisionSound, KernelSound, WentDownWith, SharedLevels,
       IfaceDownPenalty
  <2>4. CASE pc = "mark" /\ branch # "down"
    BY <2>1, <2>4, <2>t DEF DecisionSound, BranchSound, KernelSound, UpWith
  <2>5. CASE pc \in {"getDemotion", "writeDemotion"} /\ branch = "up"
    BY <2>1, <2>5 DEF KernelSound
  <2>6. CASE pc = "ifaceDown"
    BY <2>1, <2>6 DEF KernelSound, UpWith
  <2>7. pc # "exited" /\ pc # "dead"
    BY <2>1 DEF Alone, Undisturbed, KernelSound
  <2> QED
    BY <1>1, <2>1, <2>2, <2>3, <2>4, <2>5, <2>6, <2>7 DEF TypeOK, PCs, KernelSound
<1> QED
  BY TypeCorrect, KernelIsTracked, <1>1, PTL
-----------------------------------------------------------------------------
(* The recovery hold cannot be cheated.                                    *)

\* What a cycle decides: the streak grows only with a fully healthy check, and
\* a node that wants its interface back in preempt mode has a full streak.
LEMMA DecideEarned ==
  ASSUME TypeOK, NEW reports, Decide(reports)
  PROVE  /\ recoveryStreak' = 0 \/ (recoveryStreak' = recoveryStreak + 1 /\ FullyHealthy(lastHealth))
         /\ cfg.mode = "preempt" /\ lastIfaceDown /\ ~decision'.DesiredIfaceDown =>
              recoveryStreak' >= recoveryConfirm(cfg.recovery_confirm)
<1> DEFINE confirm == recoveryConfirm(cfg.recovery_confirm)
           wanted == EvaluatePolicy(cfg.mode, lastHealth.Score, carpState, reports, lv(cfg))
           next == NextStreak(cfg.mode, wanted, lastIfaceDown, lastHealth, confirm, recoveryStreak)
           held == HoldApplies(cfg.mode, wanted, lastIfaceDown, confirm) /\ next < confirm
<1>1. recoveryStreak' = next /\ decision' = IF held THEN HoldDecision(lv(cfg)) ELSE wanted
  BY DEF Decide, applyRecoveryHold
<1>2. next = 0 \/ (next = recoveryStreak + 1 /\ FullyHealthy(lastHealth))
  BY DEF NextStreak
<1>3. next \in Nat
  BY <1>2 DEF TypeOK
<1>4. confirm \in Nat \ {0}
  BY ConfirmPositive DEF TypeOK
<1>5. ASSUME cfg.mode = "preempt", lastIfaceDown, ~decision'.DesiredIfaceDown
      PROVE  next >= confirm
  <2>1. ~held
    BY <1>1, <1>5 DEF HoldDecision
  <2> HIDE DEF wanted, next
  <2>2. ~wanted.DesiredIfaceDown
    <3> HIDE DEF held
    <3> QED BY <1>1, <1>5, <2>1
  <2>3. HoldApplies(cfg.mode, wanted, lastIfaceDown, confirm)
    BY <1>4, <1>5, <2>2 DEF HoldApplies
  <2> QED
    BY <1>3, <1>4, <2>1, <2>3
<1> HIDE DEF next, held, wanted
<1> QED
  BY <1>1, <1>2, <1>5

\* Every step keeps the streak behind the fully healthy checks in a row.
LEMMA StreakStep ==
  ASSUME TypeOK, TypeOK', StreakEarned, [Next]_vars
  PROVE  StreakEarned'
<1>t. /\ goodRun \in Nat /\ recoveryStreak \in Nat /\ GoodRunCap \in Nat /\ goodRun <= GoodRunCap
      /\ recoveryConfirm(cfg.recovery_confirm) \in Nat
      /\ recoveryConfirm(cfg.recovery_confirm) <= GoodRunCap
  BY ConfirmPositive, ParameterAssumption DEF TypeOK
<1>1. CASE UNCHANGED vars
  BY <1>1 DEF vars, StreakEarned, config, memory, observed, history
<1>2. CASE Ticker
  BY <1>2 DEF Ticker, StreakEarned, config, memory, observed
<1>3. ASSUME NEW h \in HealthResults, Check(h) PROVE StreakEarned'
  <2>1. pc = "check" /\ pc' = "decide" /\ recoveryStreak' = recoveryStreak /\ lastHealth' = h
    BY <1>3 DEF Check
  <2>2. FullyHealthy(h) => goodRun' = IF goodRun < GoodRunCap THEN goodRun + 1 ELSE goodRun
    BY <1>3 DEF Check
  <2> QED
    BY <2>1, <2>2, <1>t DEF StreakEarned
<1>4. ASSUME NEW reports \in [Peers -> Reports], Decide(reports) PROVE StreakEarned'
  <2>1. /\ recoveryStreak' = 0 \/ (recoveryStreak' = recoveryStreak + 1 /\ FullyHealthy(lastHealth))
        /\ cfg.mode = "preempt" /\ lastIfaceDown /\ ~decision'.DesiredIfaceDown =>
             recoveryStreak' >= recoveryConfirm(cfg.recovery_confirm)
    BY <1>4, DecideEarned
  <2>2. pc = "decide" /\ pc' = "branch" /\ UNCHANGED <<cfg, lastIfaceDown, goodRun>>
    BY <1>4 DEF Decide, config, memory, history
  <2>3. goodRun >= recoveryStreak' \/ goodRun = GoodRunCap
    BY <2>1, <2>2, <1>t DEF StreakEarned
  <2>4. recoveryStreak' \in Nat
    BY DEF TypeOK
  <2> QED
    BY <2>1, <2>2, <2>3, <2>4, <1>t DEF StreakEarned
<1>5. CASE Branch
  BY <1>5, <1>t DEF Branch, StreakEarned, config, observed, history
<1>6. CASE GetDemotion \/ WriteDemotion \/ IfaceDown \/ IfaceUp \/ Mark
  BY <1>6 DEF GetDemotion, WriteDemotion, IfaceDown, IfaceUp, Mark, StreakEarned,
     config, history
<1>7. CASE Compare \/ StepDown \/ StepMark
  BY <1>7 DEF Compare, StepDown, StepMark, StreakEarned, config, history
<1>8. CASE ApplyReload \/ Exit
  BY <1>8 DEF ApplyReload, Exit, StreakEarned, config, history
<1>9. CASE Stop
  BY <1>9 DEF Stop, StopBegin, StopIfaceUp, StopGetDemotion, StopWriteDemotion, StopMark,
     StopClose, StreakEarned, config, memory, observed, history
<1>10. CASE Surroundings
  <2>1. ASSUME NEW c \in Configs, Restart(c) PROVE StreakEarned'
    BY <2>1 DEF Restart, StreakEarned
  <2>2. CASE Kill
    BY <2>2 DEF Kill, StreakEarned
  <2>3. CASE Tick \/ (\E role \in {"MASTER", "BACKUP"} : CarpElect(role))
             \/ (\E c \in Configs : Reload(c))
    BY <2>3 DEF Tick, CarpElect, Reload, StreakEarned, config, memory, observed, history
  <2> QED
    BY <1>10, <2>1, <2>2, <2>3 DEF Surroundings
<1> QED
  BY <1>1, <1>2, <1>3, <1>4, <1>5, <1>6, <1>7, <1>8, <1>9, <1>10 DEF Next, Cycle

\* In every behaviour the recovery streak is earned by fully healthy checks.
LEMMA StreakInvariant == Spec => []StreakEarned
<1>1. Init => StreakEarned
  BY DEF Init, NewRunner, StreakEarned
<1>2. TypeOK /\ TypeOK' /\ StreakEarned /\ [Next]_vars => StreakEarned'
  BY StreakStep
<1> QED
  BY TypeCorrect, <1>1, <1>2, PTL DEF Spec

\* In preempt mode the runner brings its interface up only after the configured
\* number of consecutive fully healthy checks: no failing command, restart,
\* reload or concurrent Stop lets a half recovered node reclaim the VIP.
THEOREM ReclaimIsEarned == Spec => ReclaimEarned
<1>1. StreakEarned /\ [Next]_vars =>
        [IfaceUp /\ cfg.mode = "preempt" =>
           goodRun >= recoveryConfirm(cfg.recovery_confirm)]_vars
  BY DEF StreakEarned, IfaceUp
<1> QED
  BY StreakInvariant, <1>1, PTL DEF Spec, ReclaimEarned

-----------------------------------------------------------------------------
(* The cooldown between step-downs.                                        *)

\* Every step keeps the recorded step-down no earlier than the command.
LEMMA CooldownStep ==
  ASSUME TypeOK, CooldownTracked, [Next]_vars
  PROVE  CooldownTracked'
<1>t. /\ preemptCooldown \in 0..(PreemptCooldown + 1) /\ sinceStepDown \in 0..(PreemptCooldown + 1)
      /\ PreemptCooldown \in Nat
  BY ParameterAssumption DEF TypeOK
<1>1. CASE UNCHANGED vars
  BY <1>1 DEF vars, CooldownTracked, timers, history
<1>2. CASE Ticker \/ (\E h \in HealthResults : Check(h))
           \/ (\E reports \in [Peers -> Reports] : Decide(reports))
  BY <1>2 DEF Ticker, Check, Decide, CooldownTracked, timers, history, ages
<1>3. CASE Branch \/ GetDemotion \/ WriteDemotion \/ IfaceDown \/ IfaceUp \/ Mark
  BY <1>3 DEF Branch, GetDemotion, WriteDemotion, IfaceDown, IfaceUp, Mark,
     CooldownTracked, timers, history
<1>4. CASE Compare
  <2>1. pc' = "stepDown" => preemptCooldown > PreemptCooldown
    BY <1>4 DEF Compare, Preferred
  <2> QED
    BY <1>4, <2>1 DEF Compare, CooldownTracked
<1>5. CASE StepDown \/ StepMark
  BY <1>5, <1>t DEF StepDown, StepMark, CooldownTracked, timers, history
<1>6. CASE ApplyReload \/ Exit
  BY <1>6 DEF ApplyReload, Exit, CooldownTracked, timers, history
<1>7. CASE Stop
  BY <1>7 DEF Stop, StopBegin, StopIfaceUp, StopGetDemotion, StopWriteDemotion, StopMark,
     StopClose, CooldownTracked, timers, history, ages
<1>8. CASE Surroundings
  <2>1. CASE Tick
    BY <1>t, <2>1 DEF Tick, Older, CooldownTracked
  <2>2. CASE Kill \/ (\E role \in {"MASTER", "BACKUP"} : CarpElect(role))
             \/ (\E c \in Configs : Restart(c) \/ Reload(c))
    BY <1>t, <2>2 DEF Kill, CarpElect, Restart, Reload, CooldownTracked, timers, history
  <2> QED
    BY <1>8, <2>1, <2>2 DEF Surroundings
<1> QED
  BY <1>1, <1>2, <1>3, <1>4, <1>5, <1>6, <1>7, <1>8 DEF Next, Cycle

\* In every behaviour the recorded step-down is no earlier than the command.
LEMMA CooldownInvariant == Spec => []CooldownTracked
<1>1. Init => CooldownTracked
  BY ParameterAssumption DEF Init, NewRunner, CooldownTracked
<1>2. TypeOK /\ CooldownTracked /\ [Next]_vars => CooldownTracked'
  BY CooldownStep
<1> QED
  BY TypeCorrect, <1>1, <1>2, PTL DEF Spec

\* Two step-down commands of one process are more than the cooldown apart.
THEOREM CooldownIsKept == Spec => CooldownKept
<1>1. TypeOK /\ CooldownTracked /\ [Next]_vars =>
        [StepDown => sinceStepDown > PreemptCooldown]_vars
  BY ParameterAssumption DEF CooldownTracked, StepDown, TypeOK
<1> QED
  BY TypeCorrect, CooldownInvariant, <1>1, PTL DEF Spec, CooldownKept
=============================================================================
