------------------------------ MODULE Cluster -------------------------------
(***************************************************************************)
(* Several nodes, each with an agent and a kernel, that share one VIP.     *)
(* The agents see each other only through the heartbeat (CheckPeer and     *)
(* handleHealth, internal/peer): the raw score of the last check and the   *)
(* kernel's advskew, demotion and preempt setting at the time of the poll. *)
(* By the time an agent acts, its picture of the others is old.            *)
(*                                                                         *)
(* A cycle of an agent is four steps here: check, one poll per peer, step  *)
(* 1 of runOnce with all its commands, and step 2 with the step-down.  The *)
(* interleavings inside these steps and failing commands are the subject   *)
(* of Runner.  The CARP protocol itself is outside the repository: one     *)
(* MASTER at a time, a BACKUP takes over when there is none, and one whose *)
(* kernel preempts takes over from a MASTER of lower priority.             *)
(***************************************************************************)
EXTENDS Policy, Carp, FiniteSets

CONSTANTS
  N,              \* number of nodes
  Skews,          \* Skews[n]: advskew of node n
  KernelPreempts, \* nodes with net.inet.carp.preempt=1
  Mode, Confirm, Carp, \* policy.mode, agent.recovery_confirm, carp.demotion_*
  HealthResults,  \* results a check may return
  Lossy,          \* whether a heartbeat may get lost
  MaxMisreads,    \* bound on kernel reads that fail in a heartbeat server
  MaxRestarts     \* bound on agent restarts

Nodes == 1..N
lv == demotionLevels(Carp)
confirm == recoveryConfirm(Confirm)

ASSUME ClusterAssumption ==
  /\ N \in Nat \ {0} /\ Skews \in [Nodes -> Nat] /\ KernelPreempts \subseteq Nodes
  /\ Mode \in PolicyModes /\ Confirm \in Nat /\ Carp \in Levels
  /\ HealthResults # {} /\ HealthResults \subseteq HealthRecords
  /\ Lossy \in BOOLEAN /\ MaxMisreads \in Nat /\ MaxRestarts \in Nat

\* What Validate asks of the levels as they are written.
ASSUME LevelsValidated ==
  Carp.Healthy <= Carp.Degraded /\ Carp.Degraded < Carp.Unhealthy

\* Nothing in the code relates the advskews of the nodes to the levels.  Peer p
\* is within reach of n when what a node that is down adds to its advskew, the
\* unhealthy level or the kernel's penalty, puts p behind n even when n is
\* DEGRADED.  Farther apart, n prefers p whatever state p is in.
WithinReach(n, p) ==
  /\ Skews[n] + lv.Degraded <= Skews[p] + lv.Unhealthy
  /\ Skews[n] + lv.Degraded <= Skews[p] + lv.Healthy + IfaceDownPenalty

VARIABLES
  \* fields of each node's Runner
  lastHealth, lastDemotion, lastIfaceDown, recoveryStreak,
  cooling,     \* preemptCooldown is not over
  grace,       \* kernelPreemptSince: "unset", "waiting" or "over"
  \* each node's cycle: control point, CARP snapshot, reports by peer, and the
  \* score in the answer the next peer is putting together
  phase, carpState, reports, asked,
  kernel,
  misreads, restarts,
  \* history: of the last step-down, the two facts of the report it acted on and
  \* whether the peer was within reach; and whether an agent was ever started
  \* while its node's VIP interface was down
  quarry, orphaned

memory == <<lastDemotion, lastIfaceDown, recoveryStreak>>
timers == <<cooling, grace>>
cycle  == <<phase, carpState, reports, asked>>
budgets == <<misreads, restarts>>
past   == <<quarry, orphaned>>
vars   == <<lastHealth, memory, timers, cycle, kernel, budgets, past>>

\* A report carries two facts as history: whether the peer's interface was up
\* when its kernel was read, and whether a read of its priority failed.
NoReport == [OK |-> FALSE, Score |-> 0, Advskew |-> 0, Demotion |-> 0, Preempt |-> 0,
             up |-> FALSE, blind |-> FALSE]
NotChecked == [RawScore |-> 0, MaxScore |-> 0, Score |-> 0]
NoQuarry == [up |-> TRUE, blind |-> FALSE, near |-> TRUE]
Unset == -1
Broken == -2    \* the peer died while it was answering

Init ==
  /\ lastHealth = [n \in Nodes |-> NotChecked]
  /\ lastDemotion = [n \in Nodes |-> Unset]
  /\ lastIfaceDown = [n \in Nodes |-> FALSE]
  /\ recoveryStreak = [n \in Nodes |-> 0]
  /\ cooling = [n \in Nodes |-> FALSE]
  /\ grace = [n \in Nodes |-> "unset"]
  /\ phase = [n \in Nodes |-> "idle"]
  /\ carpState = [n \in Nodes |-> "UNKNOWN"]
  /\ reports = [n \in Nodes |-> <<>>]
  /\ asked = [n \in Nodes |-> Unset]
  /\ kernel = [n \in Nodes |-> [up |-> TRUE, demotion |-> 0, role |-> "BACKUP"]]
  /\ misreads = 0 /\ restarts = 0
  /\ quarry = NoQuarry
  /\ orphaned = FALSE

-----------------------------------------------------------------------------
Check(n, h) ==
  /\ phase[n] = "idle"
  /\ lastHealth' = [lastHealth EXCEPT ![n] = h]
  /\ carpState' = [carpState EXCEPT ![n] = ReadState(kernel[n])]
  /\ phase' = [phase EXCEPT ![n] = "poll"]
  /\ UNCHANGED <<memory, timers, reports, asked, kernel, budgets, past>>

\* The peers of n, in the order of its configuration.
PeerAt(n, i) == IF i < n THEN i ELSE i + 1

\* The peer CheckAllPeers is at: it polls one after the other.
NextPeer(n) == PeerAt(n, Len(reports[n]) + 1)

Polling(n) == phase[n] = "poll" /\ Len(reports[n]) < N - 1

\* handleHealth takes the raw score of the last check, not the held state,
Ask(n) ==
  /\ Polling(n) /\ asked[n] = Unset
  /\ phase[NextPeer(n)] # "dead"
  /\ asked' = [asked EXCEPT ![n] = lastHealth[NextPeer(n)].Score]
  /\ UNCHANGED <<lastHealth, memory, timers, phase, carpState, reports, kernel, budgets, past>>

\* and then reads the kernel.  The error of a read is ignored and the value 0
\* (a failure that leaves a 0 a 0 shows nothing and is not counted).
KernelReads(p) ==
  [Advskew |-> Skews[p], Demotion |-> kernel[p].demotion,
   Preempt |-> IF p \in KernelPreempts THEN 1 ELSE 0]

Heartbeat(p, score, failed) ==
  LET Value(f) == IF f \in failed THEN 0 ELSE KernelReads(p)[f]
  IN [OK |-> TRUE, Score |-> score, Advskew |-> Value("Advskew"),
      Demotion |-> Value("Demotion"), Preempt |-> Value("Preempt"),
      up |-> kernel[p].up, blind |-> failed \cap {"Advskew", "Demotion"} # {}]

Answer(n) ==
  LET p == NextPeer(n)
  IN /\ Polling(n) /\ asked[n] \in Nat
     /\ \E failed \in SUBSET {f \in DOMAIN KernelReads(p) : KernelReads(p)[f] # 0} :
          /\ misreads' = misreads + Cardinality(failed)
          /\ misreads' <= MaxMisreads
          /\ reports' = [reports EXCEPT ![n] = Append(@, Heartbeat(p, asked[n], failed))]
     /\ asked' = [asked EXCEPT ![n] = Unset]
     /\ UNCHANGED <<lastHealth, memory, timers, phase, carpState, kernel, restarts, past>>

\* No answer: the peer is dead or has died meanwhile, or the network lost it.
Silence(n) ==
  /\ Polling(n)
  /\ asked[n] = Broken \/ (asked[n] = Unset /\ (Lossy \/ phase[NextPeer(n)] = "dead"))
  /\ reports' = [reports EXCEPT ![n] = Append(@, NoReport)]
  /\ asked' = [asked EXCEPT ![n] = Unset]
  /\ UNCHANGED <<lastHealth, memory, timers, phase, carpState, kernel, budgets, past>>

\* SetDemotion when the wish differs from the memory.
Demoted(k, target, last) == IF target = last THEN k ELSE [k EXCEPT !.demotion = target]

\* The commands of step 1, in their order.
Driven(k, decision, wasDown, last) ==
  LET target == decision.DesiredDemotion
  IN IF decision.DesiredIfaceDown /\ ~wasDown THEN InterfaceDown(Demoted(k, target, last))
     ELSE IF ~decision.DesiredIfaceDown /\ wasDown THEN Demoted(InterfaceUp(k), target, last)
     ELSE Demoted(k, target, last)

Wanted(n) ==
  applyRecoveryHold(Mode, EvaluatePolicy(Mode, lastHealth[n].Score, carpState[n], reports[n], lv),
                    lastIfaceDown[n], lastHealth[n], confirm, recoveryStreak[n], lv)

Apply(n) ==
  LET wanted == Wanted(n)
  IN /\ phase[n] = "poll"
     /\ Len(reports[n]) = N - 1
     /\ kernel' = [kernel EXCEPT ![n] = Driven(@, wanted.decision, lastIfaceDown[n], lastDemotion[n])]
     /\ lastDemotion' = [lastDemotion EXCEPT ![n] = wanted.decision.DesiredDemotion]
     /\ lastIfaceDown' = [lastIfaceDown EXCEPT ![n] = wanted.decision.DesiredIfaceDown]
     /\ recoveryStreak' = [recoveryStreak EXCEPT ![n] = wanted.streak]
     /\ phase' = [phase EXCEPT ![n] = "compare"]
     /\ UNCHANGED <<lastHealth, timers, carpState, reports, asked, budgets, past>>

-----------------------------------------------------------------------------
\* Variant: a node steps down only when it is down already.
MayStepDownInverted(n) ==
  /\ Mode = "preempt"
  /\ lastIfaceDown[n]
  /\ carpState[n] = "MASTER"
  /\ StateFromScore(lastHealth[n].Score) = "HEALTHY"

\* After step 1 lastIfaceDown is what the decision wants.
MayStepDown(n) ==
  /\ Mode = "preempt"
  /\ ~lastIfaceDown[n]
  /\ carpState[n] = "MASTER"
  /\ StateFromScore(lastHealth[n].Score) = "HEALTHY"

\* Variant: the demotion of both sides is left out of the comparison.
PreferredByAdvskew(n) ==
  {i \in DOMAIN reports[n] :
     /\ reports[n][i].OK /\ reports[n][i].Score >= 80
     /\ reports[n][i].Advskew < Skews[n]
     /\ ~cooling[n]}

Preferred(n) ==
  {i \in DOMAIN reports[n] :
     /\ reports[n][i].OK /\ reports[n][i].Score >= 80
     /\ reports[n][i].Advskew + reports[n][i].Demotion < Skews[n] + kernel[n].demotion
     /\ ~cooling[n]}

Ready(n, i) == reports[n][i].Preempt # 1 \/ grace[n] = "over"

\* Step 2, and the end of the cycle.
Compare(n) ==
  LET preferred == IF MayStepDown(n) THEN Preferred(n) ELSE {}
      ready == {i \in preferred : Ready(n, i)}
  IN /\ phase[n] = "compare"
     /\ \/ \E i \in ready :
             /\ \A j \in ready : i <= j
             /\ kernel' = [kernel EXCEPT ![n] = InterfaceDown(@)]
             /\ lastIfaceDown' = [lastIfaceDown EXCEPT ![n] = TRUE]
             /\ cooling' = [cooling EXCEPT ![n] = TRUE]
             /\ grace' = [grace EXCEPT ![n] = "unset"]
             /\ quarry' = [up |-> reports[n][i].up, blind |-> reports[n][i].blind,
                            near |-> WithinReach(n, PeerAt(n, i))]
        \/ /\ ready = {}
           /\ grace' = [grace EXCEPT ![n] = IF preferred = {} THEN "unset"
                                            ELSE IF @ = "unset" THEN "waiting" ELSE @]
           /\ UNCHANGED <<kernel, lastIfaceDown, cooling, quarry>>
     /\ phase' = [phase EXCEPT ![n] = "idle"]
     /\ carpState' = [carpState EXCEPT ![n] = "UNKNOWN"]
     /\ reports' = [reports EXCEPT ![n] = <<>>]
     /\ UNCHANGED <<lastHealth, lastDemotion, recoveryStreak, asked, budgets, orphaned>>

CooldownOver(n) ==
  /\ cooling[n]
  /\ cooling' = [cooling EXCEPT ![n] = FALSE]
  /\ UNCHANGED <<lastHealth, memory, grace, cycle, kernel, budgets, past>>

GraceOver(n) ==
  /\ grace[n] = "waiting"
  /\ grace' = [grace EXCEPT ![n] = "over"]
  /\ UNCHANGED <<lastHealth, memory, cooling, cycle, kernel, budgets, past>>

-----------------------------------------------------------------------------
(* The agent dies and is started again; the kernel keeps what it was told. *)

Kill(n) ==
  /\ phase[n] # "dead"
  /\ restarts + Cardinality({m \in Nodes : phase[m] = "dead"}) < MaxRestarts
  /\ phase' = [phase EXCEPT ![n] = "dead"]
  /\ asked' = [m \in Nodes |-> IF m = n \/ asked[m] = Unset \/ NextPeer(m) # n THEN asked[m]
                               ELSE Broken]
  /\ UNCHANGED <<lastHealth, memory, timers, carpState, reports, kernel, budgets, past>>

Restart(n) ==
  /\ phase[n] = "dead"
  /\ restarts' = restarts + 1
  /\ orphaned' = (orphaned \/ ~kernel[n].up)
  /\ lastHealth' = [lastHealth EXCEPT ![n] = NotChecked]
  /\ lastDemotion' = [lastDemotion EXCEPT ![n] = Unset]
  /\ lastIfaceDown' = [lastIfaceDown EXCEPT ![n] = FALSE]
  /\ recoveryStreak' = [recoveryStreak EXCEPT ![n] = 0]
  /\ cooling' = [cooling EXCEPT ![n] = FALSE]
  /\ grace' = [grace EXCEPT ![n] = "unset"]
  /\ phase' = [phase EXCEPT ![n] = "idle"]
  /\ carpState' = [carpState EXCEPT ![n] = "UNKNOWN"]
  /\ reports' = [reports EXCEPT ![n] = <<>>]
  /\ asked' = [asked EXCEPT ![n] = Unset]
  /\ UNCHANGED <<kernel, misreads, quarry>>

-----------------------------------------------------------------------------
(* The CARP protocol between the kernels.                                  *)

Masters == {n \in Nodes : kernel[n].role = "MASTER"}
Effective(n) == Skews[n] + kernel[n].demotion

\* Without a MASTER, the BACKUP of the highest priority times out first.
TakeOver(n) ==
  /\ kernel[n].role = "BACKUP"
  /\ Masters = {}
  /\ \A m \in Nodes : kernel[m].role = "BACKUP" => Effective(n) <= Effective(m)
  /\ kernel' = [kernel EXCEPT ![n].role = "MASTER"]
  /\ UNCHANGED <<lastHealth, memory, timers, cycle, budgets, past>>

KernelPreempt(n) ==
  /\ n \in KernelPreempts
  /\ kernel[n].role = "BACKUP"
  /\ Masters # {} /\ \A m \in Masters : Effective(n) < Effective(m)
  /\ kernel' = [m \in Nodes |-> IF m = n THEN [kernel[m] EXCEPT !.role = "MASTER"]
                                ELSE IF m \in Masters THEN [kernel[m] EXCEPT !.role = "BACKUP"]
                                ELSE kernel[m]]
  /\ UNCHANGED <<lastHealth, memory, timers, cycle, budgets, past>>

-----------------------------------------------------------------------------
Cycle(n) ==
  \/ \E h \in HealthResults : Check(n, h)
  \/ Ask(n) \/ Answer(n) \/ Silence(n)
  \/ Apply(n) \/ Compare(n)

Next ==
  \E n \in Nodes : \/ Cycle(n) \/ CooldownOver(n) \/ GraceOver(n)
                   \/ Kill(n) \/ Restart(n) \/ TakeOver(n) \/ KernelPreempt(n)

Spec == Init /\ [][Next]_vars

\* Every agent keeps cycling, timers run out, and the kernels elect a MASTER.
\* That a cycle ends is an assumption, as in Runner: every poll is answered,
\* refused or cut off by a timeout, and no alert hangs in the mail server.
FairSpec ==
  /\ Spec
  /\ \A n \in Nodes : /\ WF_vars(Cycle(n))
                      /\ WF_vars(CooldownOver(n)) /\ WF_vars(GraceOver(n))
                      /\ WF_vars(KernelPreempt(n))
  /\ WF_vars(\E n \in Nodes : TakeOver(n))

-----------------------------------------------------------------------------
(* Properties.                                                             *)

Reports == [OK : BOOLEAN, Score : Nat, Advskew : Nat, Demotion : Int,
            Preempt : {0, 1}, up : BOOLEAN, blind : BOOLEAN]

\* Every variable keeps its type; the streaks stay above zero.
TypeOK ==
  /\ lastHealth \in [Nodes -> HealthRecords]
  /\ lastDemotion \in [Nodes -> Int]
  /\ lastIfaceDown \in [Nodes -> BOOLEAN]
  /\ recoveryStreak \in [Nodes -> Nat]
  /\ cooling \in [Nodes -> BOOLEAN]
  /\ grace \in [Nodes -> {"unset", "waiting", "over"}]
  /\ phase \in [Nodes -> {"idle", "poll", "compare", "dead"}]
  /\ carpState \in [Nodes -> CarpStates]
  /\ reports \in [Nodes -> Seq(Reports)]
  /\ asked \in [Nodes -> Nat \cup {Unset, Broken}]
  /\ kernel \in [Nodes -> Kernels]
  /\ misreads \in 0..MaxMisreads /\ restarts \in 0..MaxRestarts
  /\ quarry \in [up : BOOLEAN, blind : BOOLEAN, near : BOOLEAN] /\ orphaned \in BOOLEAN

\* Among nodes within reach, a node steps down only for a peer whose VIP
\* interface was up when it was polled: the demotion a held, unhealthy or
\* stepped down node advertises keeps every MASTER from yielding to it, at any
\* age of the report, in any order of the cycles and with a score that is older
\* than the rest of the answer.  Two exceptions: an agent was started on an
\* interface that was down, or the very answer came from a server that could
\* not read its advskew or its demotion.
YieldsToServing == ~orphaned /\ ~quarry.blind /\ quarry.near => quarry.up

\* No report makes a node that is down look better than a serving node it is
\* within reach of, whatever that node's own level is, with the same exceptions.
DownLooksWorse ==
  ~orphaned =>
    \A n \in Nodes : \A i \in DOMAIN reports[n] :
      LET r == reports[n][i]
      IN r.OK /\ ~r.up /\ ~r.blind =>
           \A m \in Nodes : WithinReach(m, PeerAt(n, i)) =>
             Skews[m] + lv.Degraded <= r.Advskew + r.Demotion

\* The node that has the highest priority when all are equally healthy.
Best(n) == \A m \in Nodes \ {n} : Skews[n] < Skews[m]

AllFullyHealthy == \A n \in Nodes : FullyHealthy(lastHealth[n])

\* In preempt mode a cluster that stays fully healthy settles: the node of
\* highest priority becomes MASTER and stays it, so the step-downs come to an end.
Settles ==
  Mode = "preempt" /\ <>[]AllFullyHealthy =>
    \A n \in Nodes : Best(n) => <>[](kernel[n].role = "MASTER")

\* As long as some node stays fully healthy, the VIP is served again and again:
\* the cluster never ends up with every node waiting for another one.
NeverAbandoned ==
  (\E n \in Nodes : <>[]FullyHealthy(lastHealth[n])) => []<>(Masters # {})
=============================================================================
