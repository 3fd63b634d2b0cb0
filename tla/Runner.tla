------------------------------- MODULE Runner -------------------------------
(***************************************************************************)
(* One agent process (internal/agent/runner.go) against its own kernel:    *)
(* the select loop of Run, the part of runOnce that drives the VIP         *)
(* interface and the demotion factor, Reload, and Stop, which the signal   *)
(* goroutine runs concurrently with a cycle.                               *)
(*                                                                         *)
(* The unit of interleaving is one command to the kernel or one access to  *)
(* the fields that Stop and runOnce share without a lock.  `pc' is the     *)
(* runner goroutine, `spc' the signal goroutine.  Commands may fail, the   *)
(* process may be killed at any point and started again.  What the peers   *)
(* answer and which role CARP gives the node are free here; the module     *)
(* Cluster closes that loop.                                               *)
(*                                                                         *)
(* A time.Time field is modelled by its age in ticks, capped where the     *)
(* code no longer tells ages apart; Unset is the zero time.                *)
(***************************************************************************)
EXTENDS Policy, Carp, FiniteSets

CONSTANTS
  Configs,          \* configurations that passed Validate
  HealthResults,    \* results RunChecks may return
  Reports,          \* answers a peer may give
  NPeers,           \* number of configured peers
  Advskew,          \* advskew of the local VHID
  PreemptCooldown,  \* preemptCooldownPeriod, in ticks
  KernelGrace,      \* kernelPreemptGrace, in ticks
  MaxFailures,      \* bound on failing commands
  MaxRestarts,      \* bound on process restarts
  MayStop,          \* whether SIGTERM may arrive
  GoodRunCap        \* where the history counter goodRun saturates

Peers == 1..NPeers

ConfigRecords == [mode : PolicyModes, recovery_confirm : Nat, carp : Levels]

lv(c) == demotionLevels(c.carp)

HealthyLevels   == {lv(c).Healthy : c \in Configs}
DegradedLevels  == {lv(c).Degraded : c \in Configs}
UnhealthyLevels == {lv(c).Unhealthy : c \in Configs}

\* The weights that passed are among those that count, and the score is their
\* integer percentage.
ASSUME HealthAssumption ==
  /\ HealthResults # {} /\ HealthResults \subseteq HealthRecords
  /\ \A h \in HealthResults :
       /\ h.RawScore <= h.MaxScore
       /\ h.Score = IF h.MaxScore > 0 THEN (h.RawScore * 100) \div h.MaxScore ELSE 0

ASSUME ConfigAssumption ==
  /\ Configs # {} /\ Configs \subseteq ConfigRecords
  /\ \A c \in Configs : recoveryConfirm(c.recovery_confirm) <= GoodRunCap

ServingLevels == HealthyLevels \cup DegradedLevels

\* Validate orders the levels of one configuration as they are written; after
\* the defaults, and across a reload, an unhealthy level may be a serving one.
SharedLevels == UnhealthyLevels \cap ServingLevels

ASSUME ParameterAssumption ==
  /\ Reports # {} /\ Reports \subseteq PeerReports
  /\ NPeers \in Nat /\ Advskew \in Nat /\ GoodRunCap \in Nat
  /\ PreemptCooldown \in Nat /\ KernelGrace \in Nat \ {0}
  /\ MaxFailures \in Nat /\ MaxRestarts \in Nat /\ MayStop \in BOOLEAN

Unset == -1
None == "none"

VARIABLES
  \* fields of Runner
  cfg, reloadCh, lastHealth, lastDemotion, lastIfaceDown, recoveryStreak,
  preemptCooldown, kernelPreemptSince,
  \* the cycle in progress: control point and local variables of runOnce
  pc, branch, carpState, peerHealths, decision, current, yieldTo,
  \* the signal goroutine in Stop: control point, and the value it read
  spc, scurrent,
  \* the node's kernel
  kernel,
  \* budgets
  failures, restarts,
  \* history, read by properties only
  goodRun, sinceStepDown, waited, overlap, foundDown

config   == <<cfg, reloadCh>>
memory   == <<lastDemotion, lastIfaceDown>>
timers   == <<preemptCooldown, kernelPreemptSince>>
observed == <<carpState, peerHealths, decision>>
locals   == <<branch, current, yieldTo>>
stopper  == <<spc, scurrent>>
budgets  == <<failures, restarts>>
ages     == <<sinceStepDown, waited>>
history  == <<goodRun, sinceStepDown, waited, overlap, foundDown>>
vars == <<config, lastHealth, memory, recoveryStreak, timers, pc, observed,
          locals, stopper, kernel, budgets, history>>

-----------------------------------------------------------------------------
NoReports == [i \in Peers |-> [OK |-> FALSE, Score |-> 0, Advskew |-> 0,
                               Demotion |-> 0, Preempt |-> 0]]
NoDecision == [DesiredDemotion |-> Unset, DesiredIfaceDown |-> FALSE]

\* NewRunner: what a fresh process remembers of the node is nothing.
NewRunner ==
  /\ lastHealth = [RawScore |-> 0, MaxScore |-> 0, Score |-> 0]
  /\ lastDemotion = Unset
  /\ lastIfaceDown = FALSE
  /\ recoveryStreak = 0
  /\ preemptCooldown = PreemptCooldown + 1
  /\ kernelPreemptSince = Unset
  /\ reloadCh = <<>>
  /\ pc = "check"
  /\ branch = None /\ current = 0 /\ yieldTo = 0
  /\ carpState = "UNKNOWN" /\ peerHealths = NoReports /\ decision = NoDecision
  /\ spc = "idle" /\ scurrent = 0
  /\ goodRun = 0 /\ overlap = FALSE /\ foundDown = FALSE
  /\ sinceStepDown = PreemptCooldown + 1
  /\ waited = [p \in Peers |-> Unset]

Init ==
  /\ NewRunner
  /\ cfg \in Configs
  /\ kernel = [up |-> TRUE, demotion |-> 0, role |-> "BACKUP"]
  /\ failures = 0
  /\ restarts = 0

\* A command either does its work or fails without effect; its error is only
\* logged, so the caller continues the same way.
Command(effect) ==
  \/ kernel' = effect /\ UNCHANGED failures
  \/ /\ failures < MaxFailures
     /\ kernel' = kernel /\ failures' = failures + 1

\* GetDemotion; a failed read makes SetDemotion use its target as the delta.
ReadDemotion(v) ==
  \/ v' = kernel.demotion /\ UNCHANGED failures
  \/ /\ failures < MaxFailures
     /\ v' = 0 /\ failures' = failures + 1

-----------------------------------------------------------------------------
(* The select loop of Run.  The ticker, the reload channel and the closed  *)
(* done channel may be ready together; select then picks any of them.      *)

Ticker ==
  /\ pc = "select"
  /\ pc' = "check"
  /\ overlap' = (overlap \/ spc # "idle")
  /\ UNCHANGED <<config, lastHealth, memory, recoveryStreak, timers, observed,
                 locals, stopper, kernel, budgets, goodRun, ages, foundDown>>

ApplyReload ==
  /\ pc = "select"
  /\ reloadCh # <<>>
  /\ cfg' = Head(reloadCh)
  /\ reloadCh' = Tail(reloadCh)
  /\ UNCHANGED <<lastHealth, memory, recoveryStreak, timers, pc, observed, locals,
                 stopper, kernel, budgets, history>>

Exit ==
  /\ pc = "select"
  /\ spc = "closed"
  /\ pc' = "exited"
  /\ UNCHANGED <<config, lastHealth, memory, recoveryStreak, timers, observed,
                 locals, stopper, kernel, budgets, history>>

-----------------------------------------------------------------------------
(* runOnce.  Health checks, the CARP state and the peers are read one      *)
(* after the other; nothing re-reads them before step 2 acts on them.      *)

Check(h) ==
  /\ pc = "check"
  /\ lastHealth' = h
  /\ \/ carpState' = ReadState(kernel) /\ UNCHANGED failures
     \/ /\ failures < MaxFailures
        /\ carpState' = "UNKNOWN" /\ failures' = failures + 1
  /\ goodRun' = IF ~FullyHealthy(h) THEN 0
                ELSE IF goodRun < GoodRunCap THEN goodRun + 1 ELSE goodRun
  /\ pc' = "decide"
  /\ UNCHANGED <<config, memory, recoveryStreak, timers, peerHealths, decision,
                 locals, stopper, kernel, restarts, ages, overlap, foundDown>>

\* CheckAllPeers, EvaluatePolicy and applyRecoveryHold.
Decide(reports) ==
  LET levels == lv(cfg)
      wanted == EvaluatePolicy(cfg.mode, lastHealth.Score, carpState, reports, levels)
      result == applyRecoveryHold(cfg.mode, wanted, lastIfaceDown, lastHealth,
                                  recoveryConfirm(cfg.recovery_confirm),
                                  recoveryStreak, levels)
  IN /\ pc = "decide"
     /\ peerHealths' = reports
     /\ decision' = result.decision
     /\ recoveryStreak' = result.streak
     /\ pc' = "branch"
     /\ UNCHANGED <<config, lastHealth, memory, timers, carpState, locals, stopper,
                    kernel, budgets, history>>

\* Step 1 chooses by the decision and by what the runner remembers.
Branch ==
  LET setsDemotion == decision.DesiredDemotion # lastDemotion
      goesDown == decision.DesiredIfaceDown /\ ~lastIfaceDown
      goesUp == ~decision.DesiredIfaceDown /\ lastIfaceDown
  IN /\ pc = "branch"
     /\ \/ /\ goesDown
           /\ branch' = "down"
           /\ pc' = IF setsDemotion THEN "getDemotion" ELSE "ifaceDown"
        \/ /\ goesUp
           /\ branch' = "up"
           /\ pc' = "ifaceUp"
        \/ /\ ~goesDown /\ ~goesUp
           /\ branch' = "level"
           /\ pc' = IF setsDemotion THEN "getDemotion" ELSE "compare"
     /\ UNCHANGED <<config, lastHealth, memory, recoveryStreak, timers, observed,
                    current, yieldTo, stopper, kernel, budgets, history>>

\* SetDemotion reads the factor, then writes the difference.
GetDemotion ==
  /\ pc = "getDemotion"
  /\ ReadDemotion(current)
  /\ pc' = "writeDemotion"
  /\ UNCHANGED <<config, lastHealth, memory, recoveryStreak, timers, observed,
                 branch, yieldTo, stopper, kernel, restarts, history>>

WriteDemotion ==
  /\ pc = "writeDemotion"
  /\ Command(writeDemotion(kernel, DemotionDelta(decision.DesiredDemotion, current)))
  /\ pc' = IF branch = "down" THEN "ifaceDown" ELSE "mark"
  /\ current' = 0
  /\ UNCHANGED <<config, lastHealth, memory, recoveryStreak, timers, observed,
                 branch, yieldTo, stopper, restarts, history>>

IfaceDown ==
  /\ pc = "ifaceDown"
  /\ Command(InterfaceDown(kernel))
  /\ pc' = "mark"
  /\ UNCHANGED <<config, lastHealth, memory, recoveryStreak, timers, observed,
                 locals, stopper, restarts, history>>

IfaceUp ==
  /\ pc = "ifaceUp"
  /\ Command(InterfaceUp(kernel))
  /\ pc' = IF decision.DesiredDemotion # lastDemotion THEN "getDemotion" ELSE "mark"
  /\ UNCHANGED <<config, lastHealth, memory, recoveryStreak, timers, observed,
                 locals, stopper, restarts, history>>

\* The end of step 1 records the wish, whatever became of the commands.
Mark ==
  /\ pc = "mark"
  /\ lastDemotion' = decision.DesiredDemotion
  /\ lastIfaceDown' = CASE branch = "down"  -> TRUE
                        [] branch = "up"    -> FALSE
                        [] OTHER            -> lastIfaceDown
  /\ pc' = "compare"
  /\ UNCHANGED <<config, lastHealth, recoveryStreak, timers, observed, locals,
                 stopper, kernel, budgets, history>>

-----------------------------------------------------------------------------
(* Step 2: a MASTER steps down for a healthy peer of higher priority.      *)

\* Variant: any MASTER steps down, also one that is on its way down itself.
MayStepDownAnyMaster == cfg.mode = "preempt" /\ carpState = "MASTER"

\* currentState: a held node counts as UNHEALTHY whatever its score.  The
\* guard also asks for ~DesiredIfaceDown, so the two agree here.
MayStepDown ==
  /\ cfg.mode = "preempt"
  /\ ~decision.DesiredIfaceDown
  /\ carpState = "MASTER"
  /\ StateFromScore(lastHealth.Score) = "HEALTHY"

\* Variant: the cooldown ends one tick early.
PreferredEarly(localAdvskew, actualDemotion) ==
  {p \in Peers :
     /\ peerHealths[p].OK
     /\ peerHealths[p].Score >= 80
     /\ peerHealths[p].Advskew + peerHealths[p].Demotion < localAdvskew + actualDemotion
     /\ preemptCooldown >= PreemptCooldown}

\* The peers the loop does not skip.
Preferred(localAdvskew, actualDemotion) ==
  {p \in Peers :
     /\ peerHealths[p].OK
     /\ peerHealths[p].Score >= 80
     /\ peerHealths[p].Advskew + peerHealths[p].Demotion < localAdvskew + actualDemotion
     /\ preemptCooldown > PreemptCooldown}

\* Variant: the grace period is over as soon as it has begun.
ReadyAtOnce(p) == peerHealths[p].Preempt # 1 \/ kernelPreemptSince # Unset

\* A peer whose own kernel preempts is left alone until the grace is over.
Ready(p) ==
  \/ peerHealths[p].Preempt # 1
  \/ kernelPreemptSince # Unset /\ kernelPreemptSince >= KernelGrace

\* history: how long each peer has been preferred with its kernel preempt on,
\* from one comparison to the next.
Waiting(preferred) ==
  [p \in Peers |-> IF p \in preferred /\ peerHealths[p].Preempt = 1
                   THEN IF waited[p] = Unset THEN 0 ELSE waited[p]
                   ELSE Unset]

\* GetAdvskew and GetDemotion: a failed read leaves advskew 0, or the demotion
\* that was asked for.  A read that failed unnoticed costs nothing.
Failed(read) ==
  (IF read.advskew = Advskew THEN 0 ELSE 1)
    + (IF read.demotion = kernel.demotion THEN 0 ELSE 1)

Readings ==
  {read \in [advskew : {Advskew, 0},
             demotion : {kernel.demotion, decision.DesiredDemotion}] :
     failures + Failed(read) <= MaxFailures}

Compare ==
  \E read \in Readings :
    LET preferred == IF MayStepDown THEN Preferred(read.advskew, read.demotion) ELSE {}
        ready == {p \in preferred : Ready(p)}
    IN /\ pc = "compare"
       /\ failures' = failures + Failed(read)
       /\ waited' = Waiting(preferred)
       /\ \/ /\ \E p \in ready : (\A q \in ready : p <= q) /\ yieldTo' = p
             /\ pc' = "stepDown"
             /\ UNCHANGED <<kernelPreemptSince, peerHealths, carpState>>
          \/ /\ ready = {}
             /\ kernelPreemptSince' = IF preferred = {} THEN Unset
                                      ELSE IF kernelPreemptSince = Unset THEN 0
                                      ELSE kernelPreemptSince
             /\ peerHealths' = NoReports /\ carpState' = "UNKNOWN"
             /\ pc' = "select"
             /\ UNCHANGED yieldTo
       /\ branch' = None
       /\ UNCHANGED <<config, lastHealth, memory, recoveryStreak, preemptCooldown,
                      decision, current, stopper, kernel, restarts,
                      goodRun, sinceStepDown, overlap, foundDown>>

StepDown ==
  /\ pc = "stepDown"
  /\ Command(InterfaceDown(kernel))
  /\ sinceStepDown' = 0
  /\ pc' = "stepMark"
  /\ UNCHANGED <<config, lastHealth, memory, recoveryStreak, timers, observed,
                 locals, stopper, restarts, goodRun, waited, overlap, foundDown>>

StepMark ==
  /\ pc = "stepMark"
  /\ lastIfaceDown' = TRUE
  /\ preemptCooldown' = 0
  /\ kernelPreemptSince' = Unset
  /\ peerHealths' = NoReports /\ carpState' = "UNKNOWN" /\ yieldTo' = 0
  /\ pc' = "select"
  /\ UNCHANGED <<config, lastHealth, lastDemotion, recoveryStreak, decision, branch,
                 current, stopper, kernel, budgets, history>>

-----------------------------------------------------------------------------
(* The signal goroutine.  It handles one signal at a time: a SIGHUP offers *)
(* a configuration to the channel of capacity one (a full channel drops    *)
(* it), a SIGTERM runs Stop and nothing after it.                          *)

Running == pc \notin {"exited", "dead"}

Reload(c) ==
  /\ Running
  /\ spc = "idle"
  /\ reloadCh = <<>>
  /\ reloadCh' = <<c>>
  /\ UNCHANGED <<cfg, lastHealth, memory, recoveryStreak, timers, pc, observed,
                 locals, stopper, kernel, budgets, history>>

\* Stop looks at lastIfaceDown without a lock.
StopBegin ==
  /\ MayStop
  /\ Running
  /\ spc = "idle"
  /\ spc' = IF lastIfaceDown THEN "up" ELSE "close"
  /\ overlap' = (pc # "select")
  /\ foundDown' = lastIfaceDown
  /\ UNCHANGED <<config, lastHealth, memory, recoveryStreak, timers, pc, observed,
                 locals, scurrent, kernel, budgets, goodRun, ages>>

StopIfaceUp ==
  /\ spc = "up" /\ Running
  /\ Command(InterfaceUp(kernel))
  /\ spc' = "get"
  /\ UNCHANGED <<config, lastHealth, memory, recoveryStreak, timers, pc, observed,
                 locals, scurrent, restarts, history>>

StopGetDemotion ==
  /\ spc = "get" /\ Running
  /\ ReadDemotion(scurrent)
  /\ spc' = "write"
  /\ UNCHANGED <<config, lastHealth, memory, recoveryStreak, timers, pc, observed,
                 locals, kernel, restarts, history>>

StopWriteDemotion ==
  /\ spc = "write" /\ Running
  /\ Command(writeDemotion(kernel, DemotionDelta(0, scurrent)))
  /\ scurrent' = 0
  /\ spc' = "mark"
  /\ UNCHANGED <<config, lastHealth, memory, recoveryStreak, timers, pc, observed,
                 locals, restarts, history>>

StopMark ==
  /\ spc = "mark" /\ Running
  /\ lastIfaceDown' = FALSE
  /\ spc' = "close"
  /\ UNCHANGED <<config, lastHealth, lastDemotion, recoveryStreak, timers, pc,
                 observed, locals, scurrent, kernel, budgets, history>>

\* The state is saved and the done channel closed.
StopClose ==
  /\ spc = "close" /\ Running
  /\ spc' = "closed"
  /\ UNCHANGED <<config, lastHealth, memory, recoveryStreak, timers, pc, observed,
                 locals, scurrent, kernel, budgets, history>>

-----------------------------------------------------------------------------
(* The surroundings: CARP, time, and the fate of the process.              *)

CarpElect(role) ==
  /\ kernel.up
  /\ kernel.role # role
  /\ kernel' = [kernel EXCEPT !.role = role]
  /\ UNCHANGED <<config, lastHealth, memory, recoveryStreak, timers, pc, observed,
                 locals, stopper, budgets, history>>

Older(age, cap) == IF age = Unset \/ age >= cap THEN age ELSE age + 1

Tick ==
  /\ Running
  /\ preemptCooldown' = Older(preemptCooldown, PreemptCooldown + 1)
  /\ kernelPreemptSince' = Older(kernelPreemptSince, KernelGrace)
  /\ sinceStepDown' = Older(sinceStepDown, PreemptCooldown + 1)
  /\ waited' = [p \in Peers |-> Older(waited[p], KernelGrace)]
  /\ UNCHANGED <<config, lastHealth, memory, recoveryStreak, pc, observed, locals,
                 stopper, kernel, budgets, goodRun, overlap, foundDown>>

\* SIGKILL, a panic or the OOM killer: the process ends where it is
\* and leaves the kernel as it is.
Kill ==
  /\ Running
  /\ restarts < MaxRestarts
  /\ pc' = "dead"
  /\ UNCHANGED <<config, lastHealth, memory, recoveryStreak, timers, observed,
                 locals, stopper, kernel, budgets, history>>

\* A new process: NewRunner again, on the kernel the old one left.
Restart(c) ==
  /\ ~Running
  /\ restarts < MaxRestarts
  /\ restarts' = restarts + 1
  /\ lastHealth' = [RawScore |-> 0, MaxScore |-> 0, Score |-> 0]
  /\ lastDemotion' = Unset
  /\ lastIfaceDown' = FALSE
  /\ recoveryStreak' = 0
  /\ preemptCooldown' = PreemptCooldown + 1
  /\ kernelPreemptSince' = Unset
  /\ reloadCh' = <<>>
  /\ pc' = "check"
  /\ branch' = None /\ current' = 0 /\ yieldTo' = 0
  /\ carpState' = "UNKNOWN" /\ peerHealths' = NoReports /\ decision' = NoDecision
  /\ spc' = "idle" /\ scurrent' = 0
  /\ goodRun' = 0 /\ overlap' = FALSE /\ foundDown' = FALSE
  /\ sinceStepDown' = PreemptCooldown + 1
  /\ waited' = [p \in Peers |-> Unset]
  /\ cfg' = c
  /\ UNCHANGED <<kernel, failures>>

-----------------------------------------------------------------------------
Cycle ==
  \/ Ticker
  \/ \E h \in HealthResults : Check(h)
  \/ \E reports \in [Peers -> Reports] : Decide(reports)
  \/ Branch \/ GetDemotion \/ WriteDemotion \/ IfaceDown \/ IfaceUp \/ Mark
  \/ Compare \/ StepDown \/ StepMark

Stop ==
  \/ StopBegin \/ StopIfaceUp \/ StopGetDemotion \/ StopWriteDemotion
  \/ StopMark \/ StopClose

Surroundings ==
  \/ \E role \in {"MASTER", "BACKUP"} : CarpElect(role)
  \/ Tick
  \/ Kill
  \/ \E c \in Configs : Restart(c) \/ Reload(c)

Next == Cycle \/ ApplyReload \/ Exit \/ Stop \/ Surroundings

Spec == Init /\ [][Next]_vars

\* The Go scheduler keeps the runner goroutine going and the ticker keeps
\* firing.  That every cycle comes to its end is an assumption: commands and
\* health checks have timeouts, but a peer may stall in its TLS handshake or
\* its body, and a mail server in its session, for ever.  PeerProbe and
\* Lifecycle model those; here peers and mail server answer or fail in time.
FairSpec == Spec /\ WF_vars(Cycle)

-----------------------------------------------------------------------------
(* Properties.  `Undisturbed' limits a claim to runs in which no command   *)
(* has failed and the process is the first one since boot.                 *)

Undisturbed == failures = 0 /\ restarts = 0 /\ pc # "dead"

\* Outside Stop, and undisturbed: where what the runner remembers is all it has.
Alone == Undisturbed /\ spc = "idle"

PCs == {"select", "check", "decide", "branch", "getDemotion", "writeDemotion",
        "ifaceDown", "ifaceUp", "mark", "compare", "stepDown", "stepMark",
        "exited", "dead"}

Ages(cap) == {Unset} \cup 0..cap

\* Every variable keeps its type, in particular the streak of the recovery
\* hold never goes below zero and the timers are ages or unset.
TypeOK ==
  /\ cfg \in Configs
  /\ reloadCh \in {<<>>} \cup {<<c>> : c \in Configs}
  /\ lastHealth \in HealthRecords
  /\ lastDemotion \in Int
  /\ lastIfaceDown \in BOOLEAN
  /\ recoveryStreak \in Nat
  /\ preemptCooldown \in 0..(PreemptCooldown + 1)
  /\ kernelPreemptSince \in Ages(KernelGrace)
  /\ pc \in PCs
  /\ branch \in {None, "down", "up", "level"}
  /\ carpState \in CarpStates
  /\ peerHealths \in [Peers -> PeerReports]
  /\ decision \in Decisions
  /\ current \in Int
  /\ yieldTo \in 0..NPeers
  /\ spc \in {"idle", "up", "get", "write", "mark", "close", "closed"}
  /\ scurrent \in Int
  /\ kernel \in Kernels
  /\ failures \in 0..MaxFailures
  /\ restarts \in 0..MaxRestarts
  /\ goodRun \in 0..GoodRunCap
  /\ sinceStepDown \in 0..(PreemptCooldown + 1)
  /\ waited \in [Peers -> Ages(KernelGrace)]
  /\ overlap \in BOOLEAN /\ foundDown \in BOOLEAN

\* An interface that is up advertises d, or d less the penalty that the kernel
\* took off on the way up and that was never there.  The second is possible for
\* a shared level only: set as an unhealthy level on an interface that was down
\* already, it is not written again when it becomes a serving level.
UpWith(d) ==
  /\ kernel.up
  /\ \/ kernel.demotion = d
     \/ d \in SharedLevels /\ kernel.demotion = d - IfaceDownPenalty

\* Between cycles the kernel is what the runner remembers: the interface is
\* up exactly when lastIfaceDown is false, and the demotion factor of an
\* interface that is up is lastDemotion.  The 240 the kernel adds and subtracts
\* leaks into the value a serving node advertises only for a shared level.
Agreement ==
  Alone /\ pc = "select" =>
    /\ kernel.up = ~lastIfaceDown
    /\ kernel.up => UpWith(lastDemotion)
    /\ ~kernel.up => kernel.demotion \in {lastDemotion, lastDemotion + IfaceDownPenalty}

\* When step 1 is over the node's posture is the one that this cycle's check,
\* role, reports and configuration call for.  An UNHEALTHY node has its
\* interface down, and any other one only while an unconfirmed recovery is held.
\* Down means the unhealthy level; up means the healthy level, or the degraded
\* one when the node is DEGRADED or a MASTER that sees a healthier peer.
Posture ==
  Alone /\ pc = "compare" =>
    LET state == StateFromScore(lastHealth.Score)
        yields == /\ cfg.mode = "preempt" /\ carpState = "MASTER"
                  /\ \E p \in Peers : /\ peerHealths[p].OK
                                     /\ peerHealths[p].Score > lastHealth.Score
        held == cfg.mode = "preempt" /\ recoveryStreak < recoveryConfirm(cfg.recovery_confirm)
        levels == lv(cfg)
    IN /\ state = "UNHEALTHY" => ~kernel.up
       /\ ~kernel.up =>
            /\ state = "UNHEALTHY" \/ held
            /\ kernel.demotion \in {levels.Unhealthy, levels.Unhealthy + IfaceDownPenalty}
       /\ kernel.up =>
            UpWith(IF state = "HEALTHY" /\ ~yields THEN levels.Healthy ELSE levels.Degraded)

\* At every point of a cycle, not only between cycles, a node whose VIP
\* interface is down advertises at least the kernel's penalty or an unhealthy
\* level: a MASTER that compares effective advskews never finds a node that
\* is down attractive because of a half finished change.
DownIsCostly ==
  Alone /\ ~kernel.up =>
    kernel.demotion >= IfaceDownPenalty \/ kernel.demotion \in UnhealthyLevels

\* The runner gives the interface back in preempt mode only after as many
\* consecutive fully healthy checks as the configuration asks for, whatever
\* failed, was reloaded or restarted in between.
ReclaimEarned ==
  [][IfaceUp /\ cfg.mode = "preempt" => goodRun >= recoveryConfirm(cfg.recovery_confirm)]_vars

\* One process never gives two step-down commands within the cooldown, also
\* when the first one failed or its interface was given back in between.
CooldownKept == [][StepDown => sinceStepDown > PreemptCooldown]_vars

\* With one peer: a step-down for it, when its own kernel preempts, comes only
\* after it was seen preferred, with kernel preempt on, for the whole grace
\* period.  Several peers share one timer and may use up each other's grace.
GraceGiven ==
  NPeers = 1 /\ pc = "stepDown" /\ peerHealths[yieldTo].Preempt = 1 =>
    waited[yieldTo] >= KernelGrace

\* A stop that no cycle overlaps leaves the interface up; one that found it
\* down also leaves demotion 0, whatever level was in force.
QuietStopRestores ==
  pc = "exited" /\ Undisturbed /\ ~overlap =>
    /\ kernel.up
    /\ foundDown => kernel.demotion = 0

\* The agent as VIPControl sees it.
VIP == INSTANCE VIPControl WITH
  Cooldown <- PreemptCooldown,
  up <- kernel.up, score <- lastHealth.Score, good <- goodRun,
  mode <- cfg.mode, confirm <- recoveryConfirm(cfg.recovery_confirm),
  since <- sinceStepDown, stopping <- (spc # "idle")

\* The commands, branches and memory of the runner and of Stop implement the
\* abstract VIPControl: whatever fails, is reloaded, stopped or killed between
\* two commands, the interface only ever goes down for an UNHEALTHY check or a
\* permitted step-down and comes back only when the recovery is earned.
VIPControlled == VIP!Spec

\* A node whose checks stay below 40 takes its VIP interface down for good.
UnhealthyWithdraws ==
  <>[](Running /\ spc = "idle" /\ lastHealth.Score < 40) => <>[](~kernel.up)

\* A node whose checks all keep passing has its VIP interface up again and
\* again: no hold lasts for ever, and a step-down for a peer is undone.
FullyHealthyServes ==
  <>[](Running /\ spc = "idle" /\ FullyHealthy(lastHealth)) => []<>(kernel.up)

-----------------------------------------------------------------------------
(* The inductive invariants behind Agreement, DownIsCostly, ReclaimEarned  *)
(* and CooldownKept.                                                       *)

\* A demotion factor d is in force while the interface is down: with the
\* kernel's penalty on top when the interface went down after it was set, or
\* bare when the level was set on an interface that was already down.
DownWith(d) ==
  /\ ~kernel.up
  /\ \/ kernel.demotion = d + IfaceDownPenalty
     \/ kernel.demotion = d /\ d \in UnhealthyLevels

\* The interface has just gone down from UpWith(d).
WentDownWith(d) ==
  /\ ~kernel.up
  /\ \/ kernel.demotion = d + IfaceDownPenalty
     \/ d \in SharedLevels /\ kernel.demotion = d

\* The kernel is as remembered; a fresh process remembers no demotion.
Remembered ==
  IF lastIfaceDown THEN lastDemotion \in Nat /\ DownWith(lastDemotion)
  ELSE kernel.up /\ (lastDemotion # Unset => UpWith(lastDemotion))

\* A decision to be down carries an unhealthy level, one to be up a serving one.
DecisionSound ==
  pc \in {"branch", "getDemotion", "writeDemotion", "ifaceDown", "ifaceUp", "mark",
          "compare", "stepDown", "stepMark"} =>
    decision.DesiredDemotion \in
      IF decision.DesiredIfaceDown THEN UnhealthyLevels ELSE ServingLevels

\* Step 1 has a branch that fits the decision and the memory.
BranchSound ==
  pc \in {"getDemotion", "writeDemotion", "ifaceDown", "ifaceUp", "mark"} =>
    \/ branch = "down" /\ decision.DesiredIfaceDown /\ ~lastIfaceDown
    \/ branch = "up" /\ ~decision.DesiredIfaceDown /\ lastIfaceDown
    \/ branch = "level" /\ decision.DesiredIfaceDown = lastIfaceDown

\* Where in step 1 and step 2 the kernel is as remembered, and where it is
\* already as decided.
KernelSound ==
  LET d == decision.DesiredDemotion
  IN /\ pc # "exited"
     /\ pc \in {"select", "check", "decide", "branch", "compare", "stepDown", "ifaceUp"} => Remembered
     /\ pc = "select" => lastDemotion # Unset
     /\ pc \in {"compare", "stepDown", "stepMark"} => lastDemotion = d
     /\ pc \in {"compare", "stepDown"} => lastIfaceDown = decision.DesiredIfaceDown
     /\ pc \in {"stepDown", "stepMark"} => ~decision.DesiredIfaceDown
     /\ pc \in {"getDemotion", "writeDemotion"} =>
          IF branch = "up" THEN kernel.up ELSE Remembered
     /\ pc = "writeDemotion" => current = kernel.demotion
     /\ pc = "ifaceDown" => UpWith(d) /\ branch = "down"
     /\ pc = "ifaceUp" => branch = "up"
     /\ pc = "mark" => CASE branch = "down" -> WentDownWith(d)
                         [] branch = "up"   -> UpWith(d)
                         [] OTHER -> kernel.up = ~lastIfaceDown /\ kernel.demotion = d
     /\ pc = "stepMark" => WentDownWith(d)

\* At every control point of an undisturbed cycle the kernel's interface and
\* demotion factor are determined by the fields of Runner and the decision:
\* no command is given twice, skipped, or computed from a stale value.
KernelTracked ==
  /\ DecisionSound
  /\ Alone => BranchSound /\ KernelSound

\* The streak never runs ahead of the checks that were fully healthy in a row,
\* and a decision to reclaim was earned by the whole confirmation.
StreakEarned ==
  LET confirm == recoveryConfirm(cfg.recovery_confirm)
  IN /\ pc \notin {"decide", "dead"} => goodRun >= recoveryStreak \/ goodRun = GoodRunCap
     /\ pc = "decide" /\ FullyHealthy(lastHealth) =>
          goodRun >= recoveryStreak + 1 \/ goodRun = GoodRunCap
     /\ pc = "branch" /\ cfg.mode = "preempt" /\ ~decision.DesiredIfaceDown /\ lastIfaceDown =>
          goodRun >= confirm
     /\ pc = "ifaceUp" /\ cfg.mode = "preempt" => goodRun >= confirm

\* The recorded time of a step-down is never earlier than the command.
CooldownTracked ==
  /\ pc \notin {"stepMark", "dead"} => preemptCooldown <= sinceStepDown
  /\ pc = "stepDown" => preemptCooldown > PreemptCooldown

=============================================================================
