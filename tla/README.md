# dns-ha-agent in TLA+

Each node of a DNS cluster runs one `dns-ha-agent`.  The agent checks the local
DNS service, asks the agents of its peers how they are, and drives the CARP VIP
interface of its FreeBSD kernel: demotion factor and `ifconfig up/down`.  CARP
then decides which kernel serves the VIP.  This directory models the part of the
agent that decides and acts, checks it with TLC on small instances and proves
its safety with TLAPS, for every value of the constants.

- [Inventory](#inventory)
- [Modules](#modules)
- [Runs](#runs)
- [Fairness](#fairness)
- [Proofs](#proofs)
- [Where code and documentation disagree](#where-code-and-documentation-disagree)
- [Not modelled](#not-modelled)
- [Plan](#plan)

To repeat a run: `tlc -config MCRunner_cycle.cfg MCRunner.tla`.  To repeat the
proofs: `tlapm` on each of the eight `...Proofs.tla`, for example
`tlapm RunnerProofs.tla`.

## Inventory

| Component | State | Operations | Talks to |
|---|---|---|---|
| Runner (`agent/runner.go`) | fields of `Runner`: configuration, last demotion and interface command, recovery streak, step-down cooldown, grace timer, reload channel | `Run` (select loop), `runOnce` (one cycle), `Reload`, `Stop` | kernel by commands, peers by HTTP, notifiers; the signal goroutine calls `Reload` and `Stop` |
| Policy (`agent/policy.go`, `state.go`) | none | `EvaluatePolicy`, `applyRecoveryHold`, `StateFromScore` | called by `runOnce` |
| CARP adapter (`carp/`) | none of its own; the kernel's interface, demotion, role | `ReadState`, `SetDemotion`, `GetDemotion`, `InterfaceUp`, `InterfaceDown` | the kernel |
| Health (`health/`) | none between cycles | `RunChecks` and its four probes | the local DNS service |
| Heartbeat client (`peer/peer.go`, `probe.go`) | none between polls | `CheckPeer`, `CheckAllPeers`, `Diagnose` | peers' heartbeat servers, peers' port 53, ICMP |
| Heartbeat server (`peer/heartbeat.go`) | a pointer to what the Runner last measured | `handleHealth`, `handleMetrics` | peers; reads the kernel on each request |
| Peer tracker (`agent/peer_tracker.go`) | per peer: reachable, failures in a row, role, announced status | `Update`, `Status`, `SetStatus`, ... | called at the end of `runOnce` |
| State alerts, state file (`runner.go`, `state_file.go`) | last announced state, debounce counter, `wasMaster`, the file | the end of `runOnce`, `saveState`, `loadState` | dispatcher; file system |
| Notification (`notify/`) | map of last alert times | `Cooldown.Allow`, `Dispatch*`, `Send` of each notifier | SMTP, webhooks |
| Configuration (`config/`) | none | `Load` (parse, unknown keys, variables, aliases), `Validate` | start-up, SIGHUP |
| Main (`cmd/dns-ha-agent`) | signal channel of one place | start, signal handler, one-shot commands | `Reload` and `Stop` of Runner |
| HTTP server (`runner.go`, `httpServer`) | the server it listens with | `ListenAndServe`, `Shutdown` | two goroutines of `Run`, waited for by `Stop` |

What is hard here, and which properties are about it:

- **Two sides of one demotion factor.**  The sysctl is additive, the kernel adds
  240 while the interface is down, and the agent acts on what it remembers, not
  on what the kernel says.  A command on the wrong side of another leaves a wrong
  factor for good.  → `KernelTracked`, `DownIsCostly`, `Posture`.
- **Recovery hold, cooldown, grace.**  Three waits that interact with reloads,
  partial recoveries and each other.  → `ReclaimEarned`, `CooldownKept`,
  `GraceGiven`, and `VIPControlled` for all the ways the interface may move.
- **Failure and restart.**  Errors of commands are only logged, and a fresh
  process knows nothing of the kernel it inherits.  → `UnhealthyWithdraws`,
  `FullyHealthyServes` and its violation, `VIPControlled`.
- **Stop runs beside a cycle** without a lock.  → `QuietStopRestores`,
  `NothingLeftDown`, and `RecordKept` for the state file both write.
- **Signals, reloads and exit.**  Four goroutines, two channels of one place that
  drop what does not fit, a wait group, and configurations that only half of the
  process takes over.  → `AcceptedTermEnds`, `LatestTakesOver`, `UsableConfig`,
  `AlertTriesAll`, and the violation of `ReloadAsDocumented`.
- **Old pictures.**  A node acts on reports that are seconds old, or missing, or
  put together from several reads of which some failed.
  → `YieldsToServing`, `DownLooksWorse`, `Settles`, `NeverAbandoned`.
- **Alert logic with memory** spread over a tracker, a cooldown map, a counter
  and a file.  → `DownIsConfirmed`, `StatusIsTold`, `EdgesAlternate`,
  `CriticalKeepsRinging`, `DebounceKept`, `RecordKept`, `PersistentStateRecorded`,
  `VIPLossHasCause`, and the violation of `VIPLossReported`.
- **Waits without a deadline.**  A TLS handshake, the body of an answer and a mail
  session run inside the one goroutine that drives the VIP.  → `CheckReturns`,
  `AcceptedTermEnds`, `LatestTakesOver`.
- **Probes that take time** against something that changes meanwhile.
  → `FullyHealthyIsExact`, `DeadIsUnhealthy`, `HealthyAnswered`,
  `VerdictJustified`, `OutageClassified`.

## Modules

`Policy`, `Carp` and `Config` hold operators only.  `Runner` and `Cluster` extend
the first two, `Runner` is an instance of `VIPControl`, `Health` extends `Policy`
(for `FullyHealthy` and `StateFromScore`), `Config` extends `Policy` (for the
levels) and `Lifecycle` extends `Config`; the alert modules extend `Cooldown`.
Each `MC...` module extends one specification and names the small sets its
configurations use; `PeerProbe` needs none.  Each `...Proofs` module extends the
specification it proves theorems about, and `RunnerControlProofs` extends
`RunnerProofs`.  Operators marked *Variant* are
mutated forms of the definition below them.  No specification uses them; a
property is of use only if some variant breaks it.

**Policy** — `EvaluatePolicy`, `applyRecoveryHold`, `StateFromScore`,
`demotionLevels`, with the integers and comparisons of the code, including that a
configured 0 is read as "omitted".

**Carp** — a kernel is a record of interface, demotion factor and role.
`InterfaceDown` adds 240 and `InterfaceUp` takes it away, each only when it
changes something; `writeDemotion` adds what is written.  This side of the module
is external: it is what `carp/` and the comments there rely on.

**Runner** — one agent and its kernel.  `pc` walks through the select loop and
steps 1 and 2 of `runOnce` command by command; `spc` is the signal goroutine.

| Action | Code |
|---|---|
| `Ticker`, `ApplyReload`, `Exit` | the three cases of the select in `Run`; several may be ready |
| `Check` | `RunChecks` and `ReadState` |
| `Decide` | `CheckAllPeers`, `EvaluatePolicy`, `applyRecoveryHold` |
| `Branch` | which of the three cases of step 1 |
| `GetDemotion`, `WriteDemotion` | the read and the write inside `SetDemotion` |
| `IfaceDown`, `IfaceUp`, `Mark` | the commands of step 1 and the assignments after them |
| `Compare`, `StepDown`, `StepMark` | step 2: loop over the peers, grace timer, step-down |
| `Reload`, `StopBegin` ... `StopClose` | what a signal starts, command by command |
| `CarpElect`, `Tick`, `Kill`, `Restart` | the surroundings |

Any command or read may fail (`Command`, `ReadDemotion`, `Readings`); the runner
goes on as if nothing had happened, as in the code.  Peers' answers and CARP's
elections are free: whatever holds here holds for any peers.

**VIPControl** — what `Runner` promises about the interface, without commands,
memory or goroutines: `Withdraw` on an UNHEALTHY check, `StepDown` of a HEALTHY
node once per cooldown, `Reclaim` when the recovery is earned, `Release` at a
stop, and nothing else moves it.  `VIPControlled` in `Runner` says that `Runner`
implements it, with `up` as the kernel's interface and `good` and `since` as the
history of checks and step-downs.  A command that fails is a stuttering step, a
cycle beside Stop the one exception that `Withdraw` names.

**Cluster** — N agents and N kernels.  A cycle is coarser here (check, the polls,
step 1, step 2) because Runner covers what happens inside these steps, and
reports are real.  A poll is two steps of the peer's `handleHealth`: `Ask` takes
the score of its last check, `Answer` reads its kernel, and any cycle may come in
between.  A read that fails is a 0 in the answer, as in the code.  `Silence` is a
lost heartbeat or a peer that died.  `TakeOver` and `KernelPreempt` are CARP.

**PeerAlerts**, **StateAlerts**, **Cooldown** — the end of `runOnce`.  PeerAlerts
treats one iteration of the loop over the peers as one step, since nothing else
touches the tracker.  StateAlerts splits the announcement, the record and the
VIP check, since the process may die between them, and `saveState` into opening,
writing and renaming the temporary file, since a cycle and Stop may both be in
it: `fd` says where the file that a writer has open has been moved to.  `role` is
the history behind `wasMaster`: "master" when the last HEALTHY cycle read MASTER,
"claimed" when it was a BACKUP with nobody in its way and so predicted MASTER.

**Config** — from a configuration file to what the agent runs with: the stages of
`Load` in their order, the variable, the alias, all of `Validate`, the lists with
their older single-valued keys, and the report of `-t`.  A text is a name for what `Validate` tells
apart; numbers are numbers.

**Lifecycle** — one process from start to exit.

| Action | Code |
|---|---|
| `Signal`, `Receive`, `LoadFile`, `Reload` | `signal.Notify`, and the loop of the handler in `main` |
| `StopBegin`, `StopUp`, `StopClose`, `StopJoin` | `Stop`: interface, `close(done)`, `wg.Wait` |
| `ServerStore`, `ServerListen`, `Shutdown` | the two goroutines of the heartbeat server |
| `Ticker`, `ApplyReload`, `Exit` | the select in `Run` |
| `Cycle`, `Send`, `EndOfCycle` | a cycle: one command to the interface by name, then an alert notifier by notifier |
| `Hang` | what has no deadline in a cycle: a peer before the command, a mail server after it |

What a cycle decides is free here, since Runner has the details.  `built` is the
configuration the heartbeat server and the notifiers were made from, which no
reload replaces.  `stray` is history: the interfaces that are down and out of hand.

**Health** — `RunChecks` probe by probe; **PeerProbe** — `CheckPeer` phase by
phase, one phase per deadline or answer: dial, handshake, headers, body, then the
fallback probes.  The handshake and the body have no deadline.  In both the other side may change
between any two steps.

## Runs

Bounds are constants of the modules or definitions of the `MC` modules; each
history counter saturates at a named bound.

| Run | Shows | Instance |
|---|---|---|
| `cycle` | `TypeOK`, `KernelTracked`, `Posture`, `DownIsCostly`, `GraceGiven`, `ReclaimEarned`, `CooldownKept`; refinement `VIPControlled`; liveness `UnhealthyWithdraws`, `FullyHealthyServes` | one peer with four kinds of answer, scores 0, 60, 90, 100, reloads between preempt with confirmation 2 and sticky with other levels, whose 50 is both its degraded and its unhealthy one |
| `disturbed` | `VIPControlled` under failures; `QuietStopRestores` | one failure, one kill and restart, Stop, at every point; scores 0, 90, 100; no kernel preempt, cooldown 0 |
| `killed` | violates `FullyHealthyServes` | one kill |
| `peers` | `TypeOK`, `DownIsConfirmed`, `StatusIsTold`, `EdgesAlternate`, `CriticalKeepsRinging` | two peers, threshold 2, restarts |
| `state_record` | `TypeOK`, `DebounceKept`, `RecordKept`, `VIPLossHasCause`, `PersistentStateRecorded` | both modes and roles, HEALTHY and UNHEALTHY, demotion 50 with a peer above or level with the node, confirmation 2, one Stop per process, one restart, one failing write or read |
| `state_viploss` | violates `VIPLossReported` | no failures needed |
| `cluster_pair` | `TypeOK`, `YieldsToServing`, `DownLooksWorse` | two nodes within reach of each other, confirmation 2, lost heartbeats, one failing read in a heartbeat server, node 1's kernel preempts, one kill and restart |
| `cluster_live` | `Settles`, `NeverAbandoned` | two nodes, confirmation 2, also a node with one failing check |
| `health_score` | `TypeOK`, `FullyHealthyIsExact`, `DeadIsUnhealthy`, `HealthyAnswered` | two addresses and domains; six configurations: default, heavy, odd weights, no DNS query, a weight of 0, all checks off |
| `probe_verdict` | `OutageClassified`, `VerdictJustified`, `CheckReturns` | HTTP and HTTPS, every state of host, agent, DNS server and firewall |
| `lifecycle` | `TypeOK`, `UsableConfig`, `NothingLeftDown`, `AlertTriesAll`; liveness `AcceptedTermEnds`, `LatestTakesOver` | three files that are accepted and eleven that are refused, one for each stage of `Load` and each part of `Validate`; three signals, one failure, two interfaces, peers and a mail server that may hang |
| `reload_doc` | violates `ReloadAsDocumented` | one reload |

Why the bounds are enough for the cases that matter:

- *Levels.*  One configuration has three levels of its own; the other one omits
  the degraded level, so that its unhealthy level is a serving one as well, and a
  reload between the two reaches the leak that `UpWith` describes.
- *Scores* 0, 60, 90, 100 are one for each branch of `StateFromScore` and the
  one the hold tells apart from HEALTHY.  Confirmation 2 is the least for which
  a streak can be interrupted; 1 and a change of mode come in by the reload.
- *One peer* in `Runner`: step 2 acts on the first peer that is ready, and the
  answers are free, so that more peers add combinations of answers, not steps.
  The exception is the shared grace timer (see below).  The proofs hold for any
  number.
- *Cooldown and grace* of 2 ticks have a before, a boundary and an after.
- *One failure and one restart* reach every point of a cycle.  Several are
  covered by the proofs.
- *Two nodes* in `Cluster`: yielding is between a MASTER and one peer, and the
  proofs hold for any number and any advskews.  The near pair of advskews differs
  by less than a demotion level, the far pair by more; both are within reach.
- *One failing read* in `Cluster` is enough to make any single answer wrong, at
  every point of both cycles; what more of them could add is one more wrong
  answer, which is judged by itself.
- *Two health states* in `state_record`: the debounce and the record compare a
  state with one earlier state.  HEALTHY must be one of them, as the default of
  a file that cannot be read.
- *Three signals* in `Lifecycle`: one being handled, one in the channel and one
  that is dropped; with two reloads, one in the reload channel and one dropped.
- *Threshold 2* in `PeerAlerts` has a blip and an outage; three kinds of answer
  are an answer, a failure that is announced once and one that keeps ringing.

`QuietStopRestores`, `KernelTracked` and `Posture` are about *undisturbed* runs: no
command has failed and no process has died (`Undisturbed`, `Alone`).  What happens
otherwise is in the list of disagreements below, so the restriction is one of the
code.

`CHECK_DEADLOCK FALSE` is set where the agent may be stopped for good.

## Fairness

Three calls of a cycle have no deadline: the TLS handshake with a peer
(`probe.go:80`), the body of its answer (`peer.go:133`, `peer.go:146`) and
`smtp.SendMail` (`email.go:33`).  `PeerProbe` and `Lifecycle` model them, and their
liveness properties name the hang as the exception.  The other modules assume that
a cycle ends: every poll is answered, refused or cut off by a timeout and no mail
server stalls for ever.  That is an assumption about the surroundings, which the
code does not enforce.

- `Runner`: weak fairness of `Cycle`, under that assumption.  The ticker fires
  for ever, and commands and health checks have timeouts (`util/exec.go`).
  Nothing is assumed of time, signals, CARP or peers' answers.  Neither liveness
  property needs them.
- `Cluster`: weak fairness of each agent's cycle, under the same assumption, of its
  two timers, and of the kernels' elections: a BACKUP that hears no MASTER takes
  over.  No heartbeat is lost for ever in `cluster_live` (`Lossy = FALSE`), and the
  health a liveness property asks for is a premise.
- `PeerAlerts`: weak fairness of the poll of each peer (`CheckAllPeers` visits
  all of them), under the same assumption, and of time.
- `StateAlerts`: weak fairness of the cycle, under the same assumption.  Time is not
  needed: the state is recorded even when the alert is suppressed.
- `Lifecycle`: weak fairness of the handler, of the server's goroutines and of the
  work of the runner.  `Hang` is any of the three calls that never returns, and
  nothing is assumed after it; everything else waits only for the channels that are
  modelled, or has a timeout.  Strong fairness of `ApplyReload` and `Exit`: Go's
  select chooses at random among the cases that are ready, so that the ticker
  cannot win for ever.
- `PeerProbe`: weak fairness of `Check`, whose steps are enabled only where the
  code has an answer or a deadline.  The handshake and the body are not, while the
  agent hangs.

## Proofs

Every safety property that a run checks is also a theorem: all invariants, all
action properties and the refinement.  The proofs hold for any sets of
configurations, peers, files and nodes and any bounds on failures, restarts and
time; what they assume of the constants is in the table further down.  Nothing is
assumed of how the levels of two configurations, or the advskews of two nodes,
relate: where the code depends on it, the property says how.

| Module | Theorem | States |
|---|---|---|
| `RunnerProofs` | `TypeCorrect` | `[]TypeOK` |
| | `KernelIsTracked` | `[]KernelTracked` |
| | `AgreementHolds` | `[]Agreement` |
| | `DownIsCostlyHolds` | `[]DownIsCostly` |
| | `ReclaimIsEarned` | `ReclaimEarned` |
| | `CooldownIsKept` | `CooldownKept` |
| `RunnerControlProofs` | `Refinement` | `VIPControlled`: `Runner` implements `VIPControl` |
| | `PostureHolds` | `[]Posture` |
| | `QuietStopHolds` | `[]QuietStopRestores` |
| | `GraceIsGiven` | `[]GraceGiven` |
| `ClusterProofs` | `ClusterTypeCorrect` | `[]TypeOK` |
| | `OnlyYieldsToServing` | `[]YieldsToServing` |
| | `DownLooksWorseHolds` | `[]DownLooksWorse` |
| `PeerAlertsProofs` | `PeerTypeCorrect` | `[]TypeOK` |
| | `OutageIsConfirmed` | `[]DownIsConfirmed` |
| | `RememberedIsTold` | `[]StatusIsTold` |
| | `EdgesDoAlternate` | `EdgesAlternate` |
| `StateAlertsProofs` | `StateTypeCorrect` | `[]TypeOK` |
| | `DebounceHolds` | `[]DebounceKept` |
| | `RecordIsKept` | `[]RecordKept` |
| | `VIPLossHasItsCause` | `VIPLossHasCause` |
| `LifecycleProofs` | `LifecycleTypeCorrect` | `[]TypeOK` |
| | `ConfigIsUsable` | `[]UsableConfig` |
| | `NothingIsLeftDown` | `[]NothingLeftDown` |
| | `AlertIsTriedByAll` | `[]AlertTriesAll` |
| `PeerProbeProofs` | `VerdictIsJustified` | `[]VerdictJustified` |
| | `OutageIsClassified` | `[]OutageClassified` |
| `HealthProofs` | `HealthTypeCorrect` | `[]TypeOK` |
| | `ResultsAreCoherent` | `[]Coherent`: what `Runner` assumes of a health result |
| | `FullyHealthyExact` | `[]FullyHealthyIsExact` |
| | `DeadServiceUnhealthy` | `[]DeadIsUnhealthy` |
| | `HealthyHasAnswered` | `[]HealthyAnswered` |

*Assumptions.*

| Name | Says, and why it is justified |
|---|---|
| `HealthAssumption` (Runner) | a result has no more points than the maximum, and its score is the rounded percentage: `ResultsAreCoherent` proves both of `Health` |
| `ConfigAssumption`, `ParameterAssumption` (Runner) | types; the history counter counts far enough |
| `LevelsValidated` (Cluster) | the levels are ordered as `Validate` asks (`validate.go:104-109`) |
| `ClusterAssumption`, `HealthParameters`, `ProbeParameters`, `StateAlertParameters`, `AlertParameters`, `ResultsAssumption` | types; there is at least one peer to track; an answer has a role and no severity, a failure no role |
| `LifecycleAssumption` | some file is accepted; the interface an accepted file names exists on the node |

**Runner, `KernelTracked`.**  `Agreement` speaks of the select loop only and is not
inductive: whether the kernel agrees again at the end of a cycle depends on what
each command found.  `KernelTracked` says what holds in between.  `DecisionSound`:
a decision to be down carries an unhealthy level, one to be up a serving one.
`BranchSound`: the branch taken fits the decision and the memory.  `KernelSound`:
at each control point the kernel is as `Remembered`, or as decided so far, with
`DownWith` telling apart a level set before the interface went down (plus 240)
and after (bare).  The second costs a node its 240 on the way up when the same
number is then its serving level, since nothing is written (`runner.go:403`): that
can only be a level in `SharedLevels`, and `UpWith` and `WentDownWith` carry it
through the cycles.  `AloneBackward` and `UndisturbedBackward` let the inductions
ignore disturbed states: none of them leads back to an undisturbed one.
`Agreement` and `DownIsCostly` follow from `KernelTracked` and the types.
`Agreement` has no run of its own: at the select loop it is a part of
`KernelTracked`.

**Runner, the waits.**  `ReclaimEarned` compares a count of fully healthy checks,
kept as history, with the confirmation of the configuration in force.
`StreakEarned` strengthens it: the streak never runs ahead of the history, and the
debt of a pending `IfaceUp` is already paid when the decision is made.  A reload
cannot come in between, because the select loop takes it only between cycles.
`CooldownTracked`: the recorded step-down is never older than the last command,
except between `StepDown` and `StepMark`, where no second command can be given.
`GraceTracked`: with one peer the timer never runs ahead of the time that peer has
been preferred; a step-down without grace stops the timer late, so the invariant
leaves those two control points out.

**Runner implements VIPControl.**  Each action is shown to be an action of
`VIPControl` or a stutter.  What that needs of the state is `Scored`: a decision,
a withdrawal and a command in progress are tied to the score of the check they
came from (`DecisionScored`, `WithdrawalScored`, `CommandScored`).  A reclaim also
uses `StreakEarned` and a step-down `CooldownTracked`.

**Runner, `Posture` and `QuietStopRestores`.**  `DecisionCurrent` ties the decision,
from `Decide` to the comparison, to this cycle's score, role, reports, streak and
configuration, none of which changes on the way; with `KernelSound` it gives
`Posture`.  `StopTracked` follows Stop command by command while the runner waits in
the select, and `foundDown` records what Stop found.

**Cluster.**  `Ordered`.  `Priorities`: unless an agent was started on an interface
that was down, each kernel is `Known` to its agent, and one that is down has the
penalty or the unhealthy level.  `Reported` (`LooksDown`): a report of a node that
was down says so by its demotion, whatever that node has become since.  For a node
and a peer `WithinReach` of it that is enough for step 2 not to prefer the peer.  A
peer whose advskew is lower by more than its demotion raises it is preferred even
when down; `quarry.near` leaves such a step-down to the list below.
The type invariant needs a bound on the dead nodes beside the restarts (`Typed`),
over finite sets.

The proof found what the runs did not: with advskews other than those of the
instances, `YieldsToServing` is false when the *advskew* of a node that is down
cannot be read, since the report then says 0.  That is what `handleHealth` does, and
`blind` covers both reads now.

**PeerAlerts.**  `Tracked`, peer by peer.  `BeliefTracked`: below the threshold the
tracker's count is the true number of failures in a row, and the last edge declared
agrees with what it believes.  `StatusTracked`: a remembered status belongs to the
last poll of a peer declared down, and its key in the cooldown map is used.
`CooldownMap` is the lemma about `Cooldown` that both need.

**StateAlerts.**  `Debounce`: the counter of the code is the true number of cycles
in the state, and a dispatch was due.  `Recorded`, while no write has failed:
`Announced` (what the process remembers was announced), `Alone` (one writer finds
its temporary file as it left it) and `Overlapped` (with two writers the file is
bad only while one of them still has it open or a rename is still to come).  The
last is the reason why a race cannot leave an empty file for good.
`RoleExpected` ties `wasMaster` to the role and the reports of the last HEALTHY cycle
(`PredictedRole`, `RoleRemembered`), across UNHEALTHY cycles, changes of the mode and
restarts, and gives `VIPLossHasCause`.

**Lifecycle.**  `UsableConfig` comes from `Validate` alone: `NoneFailing` says that an
empty `Failing` means that each test holds, `FirstOfEntries` where an entry of a
list with defaults comes from, `LevelsRise` that the defaults of `demotionLevels`
keep the order but for the one exception.  `NothingLeftDown` is not inductive, for
it speaks of the select only.  `Kept` says at every control point that an interface that is down is `stray`, or
remembered, or about to be raised by Stop from what it read before; `Raised` and
`Lowered` are the two commands, failing or not.  `Ending` gives the order of the last
steps.  `Dispatch`: the notifiers already tried and those still
pending are exactly the ones `NewRunner` built.

**PeerProbe.**  `Backed`: each answer collected so far is backed by a fact that was
true of the peer during the check; `Consistent`: while the peer stays as it is, the
answers agree with it.  A refused or accepted connection proves that the host was
up, whatever it is by the time of the diagnosis.  A check that ends in the body
has run no probe and so carries no verdict.

**Health.**  `Tallied`: the raw score is the sum of what the checks behind have
earned (`Earned`), so that `EarnedBound`, no check earns more than its weight, and
all of it only without a failure or a slow answer, settles both directions of
`FullyHealthyIsExact`.  `Witnessed` ties a score of 0 to a dead service and a passed
query to a service that answered.  `ScoreFacts` has the arithmetic of the rounded
percentage.

The modules with theorems use no RECURSIVE operator, so that the provers see every
definition.  Each inductive invariant was also checked by TLC on the instances of
the runs before it was proved.

*Only model-checked.*  Liveness: `UnhealthyWithdraws`, `FullyHealthyServes`,
`CriticalKeepsRinging`, `PersistentStateRecorded`, `Settles`, `NeverAbandoned`,
`CheckReturns`, `AcceptedTermEnds` and `LatestTakesOver`.  Liveness under fairness
and ENABLED are beyond the prover and stay with TLC.  So do the three violations.

## Where code and documentation disagree

Three runs exhibit one each; PROJECT.json quotes the lines.

- `killed`: a process that replaces one killed with the interface down never
  brings it up (`runner.go:98`).
- `state_viploss`: the predicted role hides the very loss the VIP alert is about
  (`runner.go:524`).
- `reload_doc`: a reload leaves the notifiers as they were built at the start
  (`runner.go:128-146`), while the heartbeat client sends a changed token at once
  (`runner.go:304-307`); `architecture.md:166` has it the other way round.

Others were met while modelling.  The models follow the code, and the properties
carry the exception:

- A failed `ifconfig down` is remembered as done and never repeated
  (`runner.go:393`): with `MaxFailures = 1` TLC finds `UnhealthyWithdraws`
  violated.  `architecture.md:77`.  → that run has no failures.
- A level that is unhealthy in one configuration and serving in another, or after
  the defaults in the same one, is not written again after the interface has come
  up (`runner.go:403`): the comment at `runner.go:365-374` has the kernel take off the
  240 it added, but for a level set on an interface that was down already it takes off
  what was never there.  The node serves with its level less 240 until the level
  changes.  → `UpWith` in `Agreement`, `KernelTracked` and `Posture`.
- Nothing relates the advskews of the nodes to the demotion levels: with
  advskews far enough apart for the levels in use (0 and 100 with an unhealthy
  level of 60, say), a MASTER prefers a peer that is down, and steps down for it
  (`runner.go:443-457`); `architecture.md:61`.  → `WithinReach` in `YieldsToServing` and
  `DownLooksWorse`.
- The VIP loss alert may come from a node that never was MASTER: `wasMaster` may
  hold a prediction (`runner.go:524`, `runner.go:747`), which a healthy peer of equal
  priority ends one cycle later; `usage.md:596` says "This node was MASTER and is
  now BACKUP".  → `role = "claimed"` in `VIPLossHasCause`.
- A cycle that overlaps Stop may take the interface down last (`runner.go:241`);
  `architecture.md:164` promises that it is restored.  → `~overlap` in
  `QuietStopRestores`, `stray` in `NothingLeftDown`, `stopping` in `Withdraw`.
- A reload that renames the VIP interface while it is down leaves the old one down
  and brings up the new one (`runner.go:359`).  → `stray` in `NothingLeftDown`.
- Two reloads during one cycle: the newer configuration is dropped
  (`runner.go:164`), with a warning in the log only.  → `dropped` in
  `LatestTakesOver`.
- An omitted degraded level is 50 after `Validate` has compared it as 0, so that an
  unhealthy level of 20 is the lower one (`runner.go:81`, `validate.go:104`).
  → the exception in `UsableConfig`.  An omitted unhealthy level, by
  `config.md:106` 255, is refused by the same comparison.
- `vip_loss_alert: false` with the old `master_loss_alert: true` gives true
  (`config.go:298`); the comment above it says that the new key wins.
  → `applyDeprecatedAliases`.
- When Stop and a cycle save the state at the same time, the older state may be
  the one that stays, and a process killed meanwhile may leave an empty file
  (`state_file.go:34`).  → `raced` in `RecordKept`.
- A heartbeat server that cannot read its advskew or its demotion reports 0
  (`heartbeat.go:84`), and a MASTER may step down for a node that is down.  → `blind` in
  `YieldsToServing` and `DownLooksWorse`.
- Shutdown may run before the server is stored (`runner.go:802`); Stop then waits
  for ever, and the process ends only because `main` does not wait for Stop.
  → `AcceptedTermEnds` holds, its variant `ExitAfterStop` does not.
- `recovery_confirm: 0` is read as 3 (`runner.go:325`); `usage.md:490` says it
  disables the wait.  → `recoveryConfirm` in `ReclaimEarned`.
- Stopping a DEGRADED node keeps its demotion (`runner.go:241`);
  `architecture.md:164` says demotion 0.  → second part of `QuietStopRestores`.
- The grace timer is one for all peers (`runner.go:462`), so that one peer may use
  up another one's grace; the comment at `runner.go:495-496` means to prevent a
  stale timer.  → `NPeers = 1` in `GraceGiven`.
- A first failed poll with a dead DNS service raises an alert (`runner.go:673`);
  `peer_tracker.go:5-6` promises silence below the threshold.  → the `critical`
  kind in `DownIsConfirmed`.
- A classification that changes back within the cooldown is suppressed
  (`runner.go:654-659` says that a change fires at once).  → `StatusIsTold` says
  "told", not "told again".
- A process that dies between the alert and the file (`runner.go:711`) announces
  the transition again; `architecture.md:165` says it does not.  → `~torn` in
  `RecordKept`.
- An agent started on an interface that is down advertises a serving level, and a
  healthy MASTER steps down for it (`runner.go:98`; `architecture.md:61`).
  → `~orphaned` in `Cluster`.
- A service that hangs keeps its process and its TCP port, which by the default
  weights is 50, DEGRADED, with the interface up (`score.go:156`);
  `README.md:10-12` lists "DNS not resolving" as unhealthy.  → `DeadIsUnhealthy`
  says "dead".
- A weight of 0 counts 25 (`runner.go:66`); `config.md:99` says no score.
  → `weightOrDefault` in `Counting`.
- The TLS handshake (`probe.go:80`) and the body of an answer (`peer.go:133`,
  `peer.go:146`) have no deadline; the comment at `probe.go:61` names the timeouts of
  the dial and of the headers only.  → `Unbounded` in `CheckReturns`, `Hang` in
  `AcceptedTermEnds` and `LatestTakesOver`.
- A state is "recorded" when the process remembers it; a failing write of the file is
  ignored (`runner.go:711`).  → `PersistentStateRecorded` is about the memory,
  `RecordKept` about the file.

## Not modelled

- Text: alert wording, templates, metrics, `status` and `check` output, the
  `Action` string of a decision, logging.  None of it is read back.
- Parsing of `ifconfig` and `sysctl` output, DNS messages and YAML, with the tables
  of known keys: a result or the stage that refuses it is a choice of the models.
- The SMTP and HTTP exchanges of a notifier: it returns, fails or hangs.
- `authMiddleware` and TLS material: requests with a known token are answered.
- The one-shot commands `check` and `status`, which change nothing.
- The CARP protocol beyond its outcome, and split brain.
- A signal in the moments before `Run` has started its goroutines.

## Plan

Done: `Policy`, `Carp`, `Runner`, `Cluster` with the heartbeat server, the alert
modules with the state file, `Health`, `PeerProbe`, `Config`, `Lifecycle` and the
abstract `VIPControl`; theorems for every safety property.  What is left:

1. Consequences of `VIPControl` alone, such as that between two reclaims there is a
   withdrawal or a step-down, which `Refinement` then carries over to `Runner`.
2. `Config`: every file that Load accepts passes `-t` and the reverse, as a theorem
   for any file (`AcceptedIsValid` is one half).
3. Lemmas about `EvaluatePolicy` for all scores: a worse score never gets a better
   priority, and the hold never takes down a node that is up.
Runs stay at one per question.
