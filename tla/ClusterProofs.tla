--------------------------- MODULE ClusterProofs ----------------------------
(***************************************************************************)
(* Theorems about Cluster, for any number of nodes, any advskews, levels   *)
(* and health results, any number of failing reads and of restarts.        *)
(***************************************************************************)
EXTENDS Cluster, FiniteSetTheorems, TLAPS

Serving == {lv.Healthy, lv.Degraded}

-----------------------------------------------------------------------------
(* The decisions of one agent.                                             *)

LEMMA LevelFacts ==
  /\ lv.Healthy \in Nat /\ lv.Degraded \in Nat /\ lv.Unhealthy \in Nat
  /\ lv.Healthy <= lv.Degraded
  /\ confirm \in Nat \ {0}
<1>1. Carp.Healthy \in 0..255 /\ Carp.Degraded \in 0..255 /\ Carp.Unhealthy \in 0..255
  BY ClusterAssumption DEF Levels
<1>2. lv.Healthy \in Nat /\ lv.Degraded \in Nat /\ lv.Unhealthy \in Nat
  BY <1>1 DEF lv, demotionLevels
<1>3. confirm \in Nat \ {0}
  BY ClusterAssumption DEF confirm, recoveryConfirm, DefaultRecoveryConfirm
<1>4. lv.Healthy <= lv.Degraded
  BY <1>1, LevelsValidated DEF lv, demotionLevels
<1> QED
  BY <1>2, <1>3, <1>4

\* A node that is to be down has the unhealthy level, one that is to serve has a
\* serving level; the policy and the hold agree on that.
LEMMA WantedFacts ==
  ASSUME NEW n \in Nodes, recoveryStreak[n] \in Nat
  PROVE  /\ Wanted(n).decision.DesiredIfaceDown \in BOOLEAN
         /\ Wanted(n).decision.DesiredIfaceDown =>
              Wanted(n).decision.DesiredDemotion = lv.Unhealthy
         /\ ~Wanted(n).decision.DesiredIfaceDown =>
              Wanted(n).decision.DesiredDemotion \in Serving
         /\ Wanted(n).streak \in Nat
<1> DEFINE d == EvaluatePolicy(Mode, lastHealth[n].Score, carpState[n], reports[n], lv)
           next == NextStreak(Mode, d, lastIfaceDown[n], lastHealth[n], confirm, recoveryStreak[n])
           held == HoldApplies(Mode, d, lastIfaceDown[n], confirm) /\ next < confirm
<1>1. /\ d.DesiredIfaceDown \in BOOLEAN
      /\ d.DesiredIfaceDown => d.DesiredDemotion = lv.Unhealthy
      /\ ~d.DesiredIfaceDown => d.DesiredDemotion \in Serving
  BY DEF EvaluatePolicy, Serving
<1>2. next \in Nat
  BY DEF NextStreak
<1>3. /\ HoldDecision(lv).DesiredIfaceDown = TRUE
      /\ HoldDecision(lv).DesiredDemotion = lv.Unhealthy
  BY DEF HoldDecision
<1>4. Wanted(n) = [decision |-> IF held THEN HoldDecision(lv) ELSE d, streak |-> next, held |-> held]
  BY DEF Wanted, applyRecoveryHold
<1>5. Wanted(n).decision = (IF held THEN HoldDecision(lv) ELSE d) /\ Wanted(n).streak = next
  BY <1>4
<1> HIDE DEF d, next, held
<1>6. CASE held
  BY <1>2, <1>3, <1>5, <1>6
<1>7. CASE ~held
  BY <1>1, <1>2, <1>5, <1>7
<1> QED
  BY <1>6, <1>7

\* The commands of step 1 leave a kernel that is up exactly when it should be.
LEMMA DrivenType ==
  ASSUME NEW k \in Kernels, NEW d, d.DesiredDemotion \in Int, NEW wasDown, NEW last
  PROVE  Driven(k, d, wasDown, last) \in Kernels
<1>1. \A kk \in Kernels : /\ Demoted(kk, d.DesiredDemotion, last) \in Kernels
                          /\ InterfaceDown(kk) \in Kernels /\ InterfaceUp(kk) \in Kernels
  BY DEF Kernels, Demoted, InterfaceDown, InterfaceUp, IfaceDownPenalty, Roles
<1> QED
  BY <1>1 DEF Driven

-----------------------------------------------------------------------------
(* The order of the peers.                                                 *)

LEMMA PeerInRange ==
  ASSUME NEW n \in Nodes, NEW i \in 1..(N - 1)
  PROVE  PeerAt(n, i) \in Nodes
BY ClusterAssumption DEF Nodes, PeerAt

LEMMA NextPeerInRange ==
  ASSUME TypeOK, NEW n \in Nodes, Polling(n)
  PROVE  NextPeer(n) \in Nodes
<1>1. Len(reports[n]) \in Nat /\ Len(reports[n]) < N - 1 /\ N \in Nat
  BY ClusterAssumption DEF TypeOK, Polling
<1>2. Len(reports[n]) + 1 \in 1..(N - 1)
  BY <1>1
<1> QED
  BY <1>2, PeerInRange DEF NextPeer

-----------------------------------------------------------------------------
(* The bounds.                                                             *)

Dead == {m \in Nodes : phase[m] = "dead"}

LEMMA DeadFinite == IsFiniteSet(Dead) /\ Cardinality(Dead) \in Nat
<1>1. IsFiniteSet(Nodes)
  BY ClusterAssumption, FS_Interval DEF Nodes
<1>2. Dead \in SUBSET Nodes
  BY DEF Dead
<1> QED
  BY <1>1, <1>2, FS_Subset, FS_CardinalityType

\* The reads of a heartbeat server that may fail are three.
LEMMA ReadsFinite ==
  ASSUME NEW p, NEW failed \in SUBSET DOMAIN KernelReads(p)
  PROVE  Cardinality(failed) \in Nat
<1>1. DOMAIN KernelReads(p) = {"Advskew", "Demotion", "Preempt"}
  BY DEF KernelReads
<1>2. IsFiniteSet({"Advskew"}) /\ IsFiniteSet({"Demotion"}) /\ IsFiniteSet({"Preempt"})
  BY FS_Singleton
<1>3. IsFiniteSet({"Advskew"} \cup {"Demotion"})
  BY <1>2, FS_Union
<1>4. IsFiniteSet(({"Advskew"} \cup {"Demotion"}) \cup {"Preempt"})
  BY <1>2, <1>3, FS_Union
<1>5. failed \in SUBSET (({"Advskew"} \cup {"Demotion"}) \cup {"Preempt"})
  BY <1>1
<1> QED
  BY <1>4, <1>5, FS_Subset, FS_CardinalityType

-----------------------------------------------------------------------------
(* Type correctness.  Kill leaves room for the restarts to come.           *)

Typed == TypeOK /\ restarts + Cardinality(Dead) <= MaxRestarts

\* Steps that leave every agent alive or dead as it is leave the room as it is.
LEMMA RoomKept ==
  ASSUME Typed, restarts' = restarts, \A m \in Nodes : phase'[m] = "dead" <=> phase[m] = "dead"
  PROVE  (restarts + Cardinality(Dead) <= MaxRestarts)'
<1>1. Dead' = Dead
  BY DEF Dead
<1> QED
  BY <1>1 DEF Typed

\* An answer is a report.
LEMMA HeartbeatType ==
  ASSUME TypeOK, NEW p \in Nodes, NEW score \in Nat, NEW failed
  PROVE  Heartbeat(p, score, failed) \in Reports
<1> DEFINE Value(f) == IF f \in failed THEN 0 ELSE KernelReads(p)[f]
<1>1. Skews[p] \in Nat /\ kernel[p].demotion \in Int /\ kernel[p].up \in BOOLEAN
  BY ClusterAssumption DEF TypeOK, Kernels
<1>2. /\ KernelReads(p)["Advskew"] = Skews[p] /\ KernelReads(p)["Demotion"] = kernel[p].demotion
      /\ KernelReads(p)["Preempt"] \in {0, 1}
  BY DEF KernelReads
<1>3. Value("Advskew") \in Nat /\ Value("Demotion") \in Int /\ Value("Preempt") \in {0, 1}
  BY <1>1, <1>2
<1>4. Heartbeat(p, score, failed) =
        [OK |-> TRUE, Score |-> score, Advskew |-> Value("Advskew"),
         Demotion |-> Value("Demotion"), Preempt |-> Value("Preempt"),
         up |-> kernel[p].up, blind |-> failed \cap {"Advskew", "Demotion"} # {}]
  BY DEF Heartbeat
<1>5. (failed \cap {"Advskew", "Demotion"} # {}) \in BOOLEAN
  OBVIOUS
<1> HIDE DEF Value
<1> QED
  BY <1>1, <1>3, <1>4, <1>5 DEF Reports

\* The first half of a cycle: the check and the polls.
LEMMA PollTyped ==
  ASSUME Typed, NEW n \in Nodes,
         (\E h \in HealthResults : Check(n, h)) \/ Ask(n) \/ Answer(n) \/ Silence(n)
  PROVE  Typed'
<1> USE DEF Typed
<1>1. ASSUME NEW h \in HealthResults, Check(n, h) PROVE Typed'
  <2>1. h \in HealthRecords
    BY ClusterAssumption
  <2>2. ReadState(kernel[n]) \in CarpStates
    BY DEF TypeOK, Kernels, Roles, ReadState, CarpStates
  <2>3. /\ lastHealth' \in [Nodes -> HealthRecords] /\ carpState' \in [Nodes -> CarpStates]
        /\ phase' \in [Nodes -> {"idle", "poll", "compare", "dead"}]
    BY <1>1, <2>1, <2>2 DEF Check, TypeOK
  <2>4. TypeOK'
    BY <1>1, <2>3 DEF Check, TypeOK, memory, timers, budgets, past
  <2>5. restarts' = restarts /\ \A m \in Nodes : phase'[m] = "dead" <=> phase[m] = "dead"
    BY <1>1 DEF Check, budgets, TypeOK
  <2> QED
    BY <2>4, <2>5, RoomKept
<1>2. CASE Ask(n)
  <2>1. NextPeer(n) \in Nodes
    BY <1>2, NextPeerInRange DEF Ask
  <2>2. lastHealth[NextPeer(n)].Score \in Nat
    BY <2>1 DEF TypeOK, HealthRecords
  <2>3. asked' \in [Nodes -> Nat \cup {Unset, Broken}]
    BY <1>2, <2>2 DEF Ask, TypeOK
  <2>4. TypeOK'
    BY <1>2, <2>3 DEF Ask, TypeOK, memory, timers, budgets, past
  <2> QED
    BY <1>2, <2>4, RoomKept DEF Ask, budgets
<1>3. CASE Answer(n)
  <2> DEFINE p == NextPeer(n)
  <2>1. p \in Nodes
    BY <1>3, NextPeerInRange DEF Answer
  <2>2. PICK failed \in SUBSET {f \in DOMAIN KernelReads(p) : KernelReads(p)[f] # 0} :
          /\ misreads' = misreads + Cardinality(failed)
          /\ misreads' <= MaxMisreads
          /\ reports' = [reports EXCEPT ![n] = Append(@, Heartbeat(p, asked[n], failed))]
    BY <1>3 DEF Answer
  <2>3. failed \in SUBSET DOMAIN KernelReads(p)
    BY <2>2
  <2>4. Cardinality(failed) \in Nat
    BY <2>3, ReadsFinite
  <2>5. misreads' \in 0..MaxMisreads
    <3>1. misreads \in 0..MaxMisreads /\ MaxMisreads \in Nat
      BY ClusterAssumption DEF TypeOK
    <3> QED
      BY <2>2, <2>4, <3>1
  <2>6. Heartbeat(p, asked[n], failed) \in Reports
    BY <1>3, <2>1, HeartbeatType DEF Answer
  <2>7. reports' \in [Nodes -> Seq(Reports)]
    <3>1. reports[n] \in Seq(Reports) /\ reports \in [Nodes -> Seq(Reports)]
      BY DEF TypeOK
    <3>2. Append(reports[n], Heartbeat(p, asked[n], failed)) \in Seq(Reports)
      BY <2>6, <3>1
    <3> QED
      BY <2>2, <3>1, <3>2
  <2>8. asked' \in [Nodes -> Nat \cup {Unset, Broken}]
    BY <1>3 DEF Answer, TypeOK
  <2>9. /\ lastHealth' = lastHealth /\ memory' = memory /\ timers' = timers /\ phase' = phase
        /\ carpState' = carpState /\ kernel' = kernel /\ restarts' = restarts /\ past' = past
    BY <1>3 DEF Answer
  <2>10. TypeOK'
    BY <2>5, <2>7, <2>8, <2>9 DEF TypeOK, memory, timers, past
  <2> QED
    BY <2>9, <2>10, RoomKept
<1>4. CASE Silence(n)
  <2>1. NoReport \in Reports
    BY DEF NoReport, Reports
  <2>2. reports' \in [Nodes -> Seq(Reports)]
    <3>1. reports[n] \in Seq(Reports) /\ reports \in [Nodes -> Seq(Reports)]
      BY DEF TypeOK
    <3>2. Append(reports[n], NoReport) \in Seq(Reports)
      BY <2>1, <3>1
    <3> QED
      BY <1>4, <3>1, <3>2 DEF Silence
  <2>3. asked' \in [Nodes -> Nat \cup {Unset, Broken}]
    BY <1>4 DEF Silence, TypeOK
  <2>4. TypeOK'
    BY <1>4, <2>2, <2>3 DEF Silence, TypeOK, memory, timers, budgets, past
  <2> QED
    BY <1>4, <2>4, RoomKept DEF Silence, budgets
<1> QED
  BY <1>1, <1>2, <1>3, <1>4

\* The second half of a cycle: step 1 and step 2.
LEMMA ActTyped ==
  ASSUME Typed, NEW n \in Nodes, Apply(n) \/ Compare(n)
  PROVE  Typed'
<1> USE DEF Typed
<1>1. CASE Apply(n)
  <2> DEFINE d == Wanted(n).decision
  <2>1. /\ d.DesiredIfaceDown \in BOOLEAN /\ d.DesiredDemotion \in Int /\ Wanted(n).streak \in Nat
    BY WantedFacts, LevelFacts DEF TypeOK, Serving
  <2>2. Driven(kernel[n], d, lastIfaceDown[n], lastDemotion[n]) \in Kernels
    BY <2>1, DrivenType DEF TypeOK
  <2> HIDE DEF d
  <2>3. /\ kernel' = [kernel EXCEPT ![n] = Driven(@, d, lastIfaceDown[n], lastDemotion[n])]
        /\ lastDemotion' = [lastDemotion EXCEPT ![n] = d.DesiredDemotion]
        /\ lastIfaceDown' = [lastIfaceDown EXCEPT ![n] = d.DesiredIfaceDown]
        /\ recoveryStreak' = [recoveryStreak EXCEPT ![n] = Wanted(n).streak]
        /\ phase[n] = "poll" /\ phase' = [phase EXCEPT ![n] = "compare"]
    BY <1>1 DEF Apply, d
  <2>4. /\ kernel' \in [Nodes -> Kernels] /\ lastDemotion' \in [Nodes -> Int]
        /\ lastIfaceDown' \in [Nodes -> BOOLEAN] /\ recoveryStreak' \in [Nodes -> Nat]
        /\ phase' \in [Nodes -> {"idle", "poll", "compare", "dead"}]
    BY <2>1, <2>2, <2>3 DEF TypeOK
  <2>5. TypeOK'
    BY <1>1, <2>4 DEF Apply, TypeOK, timers, budgets, past
  <2>6. restarts' = restarts /\ \A m \in Nodes : phase'[m] = "dead" <=> phase[m] = "dead"
    BY <1>1, <2>3 DEF Apply, budgets, TypeOK
  <2> QED
    BY <2>5, <2>6, RoomKept
<1>2. CASE Compare(n)
  <2>1. /\ phase[n] = "compare" /\ phase' = [phase EXCEPT ![n] = "idle"]
        /\ carpState' = [carpState EXCEPT ![n] = "UNKNOWN"]
        /\ reports' = [reports EXCEPT ![n] = <<>>]
        /\ lastHealth' = lastHealth /\ lastDemotion' = lastDemotion
        /\ recoveryStreak' = recoveryStreak /\ asked' = asked /\ orphaned' = orphaned
        /\ misreads' = misreads /\ restarts' = restarts
    BY <1>2 DEF Compare, budgets
  <2>2. phase' \in [Nodes -> {"idle", "poll", "compare", "dead"}]
        /\ carpState' \in [Nodes -> CarpStates]
    BY <2>1 DEF TypeOK, CarpStates
  <2>3. reports' \in [Nodes -> Seq(Reports)]
    BY <2>1 DEF TypeOK
  <2>4. \/ /\ \E i \in DOMAIN reports[n] :
                quarry' = [up |-> reports[n][i].up, blind |-> reports[n][i].blind,
                          near |-> WithinReach(n, PeerAt(n, i))]
           /\ kernel' = [kernel EXCEPT ![n] = InterfaceDown(@)]
           /\ lastIfaceDown' = [lastIfaceDown EXCEPT ![n] = TRUE]
           /\ cooling' = [cooling EXCEPT ![n] = TRUE]
           /\ grace' = [grace EXCEPT ![n] = "unset"]
        \/ /\ \E g \in {"unset", "waiting", grace[n]} : grace' = [grace EXCEPT ![n] = g]
           /\ UNCHANGED <<kernel, lastIfaceDown, cooling, quarry>>
    BY <1>2 DEF Compare, Preferred
  <2>5. /\ kernel' \in [Nodes -> Kernels] /\ lastIfaceDown' \in [Nodes -> BOOLEAN]
        /\ cooling' \in [Nodes -> BOOLEAN] /\ grace' \in [Nodes -> {"unset", "waiting", "over"}]
    <3>1. InterfaceDown(kernel[n]) \in Kernels
      BY DEF TypeOK, Kernels, InterfaceDown, IfaceDownPenalty, Roles
    <3>2. CASE UNCHANGED <<kernel, lastIfaceDown, cooling, quarry>>
      BY <2>4, <3>2 DEF TypeOK
    <3>3. CASE /\ kernel' = [kernel EXCEPT ![n] = InterfaceDown(@)]
               /\ lastIfaceDown' = [lastIfaceDown EXCEPT ![n] = TRUE]
               /\ cooling' = [cooling EXCEPT ![n] = TRUE]
               /\ grace' = [grace EXCEPT ![n] = "unset"]
      BY <3>1, <3>3 DEF TypeOK
    <3> QED
      BY <2>4, <3>2, <3>3
  <2>6. quarry' \in [up : BOOLEAN, blind : BOOLEAN, near : BOOLEAN]
    <3>1. \A i \in DOMAIN reports[n] : reports[n][i] \in Reports
      BY DEF TypeOK
    <3>2. \A r \in Reports : r.up \in BOOLEAN /\ r.blind \in BOOLEAN
      BY DEF Reports
    <3>3. quarry \in [up : BOOLEAN, blind : BOOLEAN, near : BOOLEAN]
      BY DEF TypeOK
    <3>4. CASE UNCHANGED quarry
      BY <3>3, <3>4
    <3>5. ASSUME NEW i \in DOMAIN reports[n],
                 quarry' = [up |-> reports[n][i].up, blind |-> reports[n][i].blind,
                            near |-> WithinReach(n, PeerAt(n, i))]
          PROVE  quarry' \in [up : BOOLEAN, blind : BOOLEAN, near : BOOLEAN]
      <4>1. WithinReach(n, PeerAt(n, i)) \in BOOLEAN
        BY DEF WithinReach
      <4> QED
        BY <3>1, <3>2, <3>5, <4>1
    <3> QED
      BY <2>4, <3>4, <3>5
  <2>7. TypeOK'
    BY <2>1, <2>2, <2>3, <2>5, <2>6 DEF TypeOK
  <2>8. \A m \in Nodes : phase'[m] = "dead" <=> phase[m] = "dead"
    BY <2>1 DEF TypeOK
  <2> QED
    BY <2>1, <2>7, <2>8, RoomKept
<1> QED
  BY <1>1, <1>2

\* Timers and the CARP protocol.
LEMMA OutsideTyped ==
  ASSUME Typed, NEW n \in Nodes,
         CooldownOver(n) \/ GraceOver(n) \/ TakeOver(n) \/ KernelPreempt(n)
  PROVE  Typed'
<1> USE DEF Typed
<1>1. \A k \in Kernels : \A r \in Roles : [k EXCEPT !.role = r] \in Kernels
  BY DEF Kernels
<1>2. "MASTER" \in Roles /\ "BACKUP" \in Roles
  BY DEF Roles
<1>3. CASE CooldownOver(n)
  <2>1. cooling' \in [Nodes -> BOOLEAN]
    BY <1>3 DEF CooldownOver, TypeOK
  <2>2. TypeOK'
    BY <1>3, <2>1 DEF CooldownOver, TypeOK, memory, cycle, budgets, past
  <2> QED
    BY <1>3, <2>2, RoomKept DEF CooldownOver, cycle, budgets
<1>4. CASE GraceOver(n)
  <2>1. grace' \in [Nodes -> {"unset", "waiting", "over"}]
    BY <1>4 DEF GraceOver, TypeOK
  <2>2. TypeOK'
    BY <1>4, <2>1 DEF GraceOver, TypeOK, memory, cycle, budgets, past
  <2> QED
    BY <1>4, <2>2, RoomKept DEF GraceOver, cycle, budgets
<1>5. CASE TakeOver(n)
  <2>1. kernel' = [kernel EXCEPT ![n] = [kernel[n] EXCEPT !.role = "MASTER"]]
    BY <1>5 DEF TakeOver
  <2>2. kernel' \in [Nodes -> Kernels]
    BY <1>1, <1>2, <2>1 DEF TypeOK
  <2>3. TypeOK'
    BY <1>5, <2>2 DEF TakeOver, TypeOK, memory, timers, cycle, budgets, past
  <2> QED
    BY <1>5, <2>3, RoomKept DEF TakeOver, cycle, budgets
<1>6. CASE KernelPreempt(n)
  <2>1. kernel' = [m \in Nodes |-> IF m = n THEN [kernel[m] EXCEPT !.role = "MASTER"]
                                   ELSE IF m \in Masters THEN [kernel[m] EXCEPT !.role = "BACKUP"]
                                   ELSE kernel[m]]
    BY <1>6 DEF KernelPreempt
  <2>2. kernel' \in [Nodes -> Kernels]
    BY <1>1, <1>2, <2>1 DEF TypeOK
  <2>3. TypeOK'
    BY <1>6, <2>2 DEF KernelPreempt, TypeOK, memory, timers, cycle, budgets, past
  <2> QED
    BY <1>6, <2>3, RoomKept DEF KernelPreempt, cycle, budgets
<1> QED
  BY <1>3, <1>4, <1>5, <1>6

\* An agent that dies uses up one restart, at once or later.
LEMMA LifeTyped ==
  ASSUME Typed, NEW n \in Nodes, Kill(n) \/ Restart(n)
  PROVE  Typed'
<1> USE DEF Typed
<1>1. restarts \in Nat /\ MaxRestarts \in Nat /\ Cardinality(Dead) \in Nat
  BY ClusterAssumption, DeadFinite DEF TypeOK
<1>2. CASE Kill(n)
  <2>1. /\ phase[n] # "dead" /\ phase' = [phase EXCEPT ![n] = "dead"]
        /\ restarts' = restarts /\ restarts + Cardinality(Dead) < MaxRestarts
    BY <1>2 DEF Kill, budgets, Dead
  <2>2. Dead' = Dead \cup {n} /\ n \notin Dead
    BY <2>1 DEF Dead, TypeOK
  <2>3. Cardinality(Dead') = Cardinality(Dead) + 1
    BY <2>2, DeadFinite, FS_AddElement
  <2>4. phase' \in [Nodes -> {"idle", "poll", "compare", "dead"}]
    BY <2>1 DEF TypeOK
  <2>5. asked' \in [Nodes -> Nat \cup {Unset, Broken}]
    BY <1>2 DEF Kill, TypeOK
  <2>6. TypeOK'
    BY <1>2, <2>4, <2>5 DEF Kill, TypeOK, memory, timers, budgets, past
  <2> QED
    BY <1>1, <2>1, <2>3, <2>6
<1>3. CASE Restart(n)
  <2>1. /\ phase[n] = "dead" /\ phase' = [phase EXCEPT ![n] = "idle"]
        /\ restarts' = restarts + 1
    BY <1>3 DEF Restart
  <2>2. Dead' = Dead \ {n} /\ n \in Dead
    BY <2>1 DEF Dead, TypeOK
  <2>3. Cardinality(Dead') = Cardinality(Dead) - 1 /\ Cardinality(Dead') \in Nat
    <3>1. IsFiniteSet(Dead')
      BY <2>2, DeadFinite, FS_RemoveElement
    <3> QED
      BY <2>2, <3>1, DeadFinite, FS_RemoveElement, FS_CardinalityType
  <2>4. restarts' \in 0..MaxRestarts /\ restarts' + Cardinality(Dead') <= MaxRestarts
    BY <1>1, <2>1, <2>3
  <2>5. /\ lastHealth' \in [Nodes -> HealthRecords] /\ lastDemotion' \in [Nodes -> Int]
        /\ lastIfaceDown' \in [Nodes -> BOOLEAN] /\ recoveryStreak' \in [Nodes -> Nat]
    <3>1. NotChecked \in HealthRecords
      BY DEF NotChecked, HealthRecords
    <3> QED
      BY <1>3, <3>1 DEF Restart, TypeOK, Unset
  <2>6. /\ cooling' \in [Nodes -> BOOLEAN] /\ grace' \in [Nodes -> {"unset", "waiting", "over"}]
        /\ phase' \in [Nodes -> {"idle", "poll", "compare", "dead"}]
        /\ carpState' \in [Nodes -> CarpStates] /\ orphaned' \in BOOLEAN
    BY <1>3 DEF Restart, TypeOK, CarpStates
  <2>7. reports' \in [Nodes -> Seq(Reports)] /\ asked' \in [Nodes -> Nat \cup {Unset, Broken}]
    BY <1>3 DEF Restart, TypeOK
  <2>8. TypeOK'
    BY <1>3, <2>4, <2>5, <2>6, <2>7 DEF Restart, TypeOK
  <2> QED
    BY <2>4, <2>8
<1> QED
  BY <1>2, <1>3

\* The types and the room for restarts hold throughout.
LEMMA TypedInvariant == Spec => []Typed
<1>1. Init => Typed
  <2> SUFFICES ASSUME Init PROVE Typed
    OBVIOUS
  <2>1. lastHealth \in [Nodes -> HealthRecords] /\ kernel \in [Nodes -> Kernels]
    BY DEF Init, NotChecked, HealthRecords, Kernels, Roles
  <2>2. /\ lastDemotion \in [Nodes -> Int] /\ lastIfaceDown \in [Nodes -> BOOLEAN]
        /\ recoveryStreak \in [Nodes -> Nat] /\ cooling \in [Nodes -> BOOLEAN]
        /\ grace \in [Nodes -> {"unset", "waiting", "over"}]
        /\ phase \in [Nodes -> {"idle", "poll", "compare", "dead"}]
        /\ carpState \in [Nodes -> CarpStates]
    BY DEF Init, Unset, CarpStates
  <2>3. reports \in [Nodes -> Seq(Reports)] /\ asked \in [Nodes -> Nat \cup {Unset, Broken}]
    BY DEF Init
  <2>4. quarry \in [up : BOOLEAN, blind : BOOLEAN, near : BOOLEAN] /\ orphaned \in BOOLEAN
    BY DEF Init, NoQuarry
  <2>5. misreads \in 0..MaxMisreads /\ restarts \in 0..MaxRestarts /\ restarts = 0
        /\ MaxRestarts \in Nat
    BY ClusterAssumption DEF Init
  <2>6. Dead = {}
    BY DEF Init, Dead
  <2>7. Cardinality(Dead) = 0
    BY <2>6, FS_EmptySet
  <2>8. TypeOK
    BY <2>1, <2>2, <2>3, <2>4, <2>5 DEF TypeOK
  <2> QED
    BY <2>5, <2>7, <2>8 DEF Typed
<1>2. Typed /\ [Next]_vars => Typed'
  <2> SUFFICES ASSUME Typed, [Next]_vars PROVE Typed'
    OBVIOUS
  <2>1. CASE UNCHANGED vars
    <3>1. TypeOK'
      BY <2>1 DEF vars, memory, timers, cycle, budgets, past, Typed, TypeOK
    <3>2. restarts' = restarts /\ phase' = phase
      BY <2>1 DEF vars, cycle, budgets
    <3> QED
      BY <3>1, <3>2, RoomKept DEF Typed
  <2> QED
    BY <2>1, PollTyped, ActTyped, OutsideTyped, LifeTyped DEF Next, Cycle
<1> QED
  BY <1>1, <1>2, PTL DEF Spec

\* Every variable keeps its type, for any number of nodes; the bounds on failing
\* reads and restarts are kept.
THEOREM ClusterTypeCorrect == Spec => []TypeOK
<1>1. Typed => TypeOK
  BY DEF Typed
<1> QED
  BY <1>1, TypedInvariant, PTL

-----------------------------------------------------------------------------
(* Priorities.  An agent knows whether its interface is down unless it was *)
(* started on one that was.  While the interface is up, the kernel's       *)
(* demotion is at most the degraded level; while it is down, the demotion  *)
(* is a level and the kernel's penalty, or the unhealthy level written     *)
(* over both.                                                              *)

UpPriority(k, last) ==
  /\ k.demotion <= lv.Degraded
  /\ last # Unset => last \in Serving /\ \/ k.demotion = last
                                         \/ last = lv.Unhealthy /\ k.demotion = last - IfaceDownPenalty

DownPriority(k, last) ==
  /\ last \in Serving \cup {lv.Unhealthy}
  /\ k.demotion = last + IfaceDownPenalty \/ (last = lv.Unhealthy /\ k.demotion = last)

\* What the agent remembers of its kernel.
Known(k, down, last) ==
  /\ down <=> ~k.up
  /\ k.up => UpPriority(k, last)
  /\ ~k.up => DownPriority(k, last)

\* A report of a node that was down carries its advskew and such a demotion.
LooksDown(n, i, r) ==
  r.OK /\ ~r.up /\ ~r.blind =>
    /\ r.Advskew = Skews[PeerAt(n, i)]
    /\ r.Demotion \in {lv.Unhealthy} \cup {l + IfaceDownPenalty : l \in Serving \cup {lv.Unhealthy}}

Priorities ==
  ~orphaned =>
    /\ \A n \in Nodes : Known(kernel[n], lastIfaceDown[n], lastDemotion[n])
    /\ \A n \in Nodes : phase[n] = "compare" => lastDemotion[n] # Unset

Reported ==
  ~orphaned => \A n \in Nodes : \A i \in DOMAIN reports[n] : LooksDown(n, i, reports[n][i])

Polled == \A n \in Nodes : Len(reports[n]) <= N - 1

Ordered == Priorities /\ Reported /\ Polled /\ YieldsToServing

\* Taking the interface down adds the penalty to what the kernel had.
LEMMA DownKnown ==
  ASSUME NEW k \in Kernels, NEW last \in Int, last # Unset, k.up, UpPriority(k, last)
  PROVE  Known(InterfaceDown(k), TRUE, last)
<1>1. InterfaceDown(k).up = FALSE /\ InterfaceDown(k).demotion = k.demotion + 240
  BY DEF InterfaceDown, IfaceDownPenalty
<1>2. k.demotion \in Int
  BY DEF Kernels
<1>3. last \in Serving /\ (k.demotion = last \/ (last = lv.Unhealthy /\ k.demotion = last - 240))
  BY DEF UpPriority, IfaceDownPenalty
<1>4. DownPriority(InterfaceDown(k), last)
  BY <1>1, <1>2, <1>3 DEF DownPriority, IfaceDownPenalty
<1> QED
  BY <1>1, <1>4 DEF Known

\* The commands of step 1, from any kernel the agent knows.
LEMMA DrivenKnown ==
  ASSUME NEW k \in Kernels, NEW down \in BOOLEAN, NEW last \in Int, Known(k, down, last), NEW d,
         d.DesiredIfaceDown \in BOOLEAN,
         d.DesiredIfaceDown => d.DesiredDemotion = lv.Unhealthy,
         ~d.DesiredIfaceDown => d.DesiredDemotion \in Serving
  PROVE  /\ Known(Driven(k, d, down, last), d.DesiredIfaceDown, d.DesiredDemotion)
         /\ d.DesiredDemotion # Unset
<1> DEFINE target == d.DesiredDemotion
<1>1. /\ lv.Healthy \in Nat /\ lv.Degraded \in Nat /\ lv.Unhealthy \in Nat
      /\ \A l \in Serving : l \in Nat /\ l <= lv.Degraded
  BY LevelFacts DEF Serving
<1>2. target \in Nat /\ target # Unset
  BY <1>1 DEF Unset
<1>3. k.demotion \in Int /\ k.up \in BOOLEAN
  BY DEF Kernels
<1>4. \A kk \in Kernels : /\ Demoted(kk, target, last) \in Kernels
                          /\ Demoted(kk, target, last).up = kk.up
                          /\ Demoted(kk, target, last).demotion =
                               IF target = last THEN kk.demotion ELSE target
  BY <1>2 DEF Demoted, Kernels
<1>5. \A kk \in Kernels :
        /\ kk.up => InterfaceDown(kk).up = FALSE /\ InterfaceDown(kk).demotion = kk.demotion + 240
        /\ ~kk.up => InterfaceUp(kk).up = TRUE /\ InterfaceUp(kk).demotion = kk.demotion - 240
        /\ InterfaceUp(kk) \in Kernels
  BY DEF InterfaceDown, InterfaceUp, IfaceDownPenalty, Kernels, Roles
<1>6. CASE d.DesiredIfaceDown /\ ~down
  <2>1. k.up /\ UpPriority(k, last) /\ target = lv.Unhealthy
    BY <1>3, <1>6 DEF Known
  <2>2. Driven(k, d, down, last) = InterfaceDown(Demoted(k, target, last))
    BY <1>6 DEF Driven
  <2>3. /\ Driven(k, d, down, last).up = FALSE
        /\ Driven(k, d, down, last).demotion = (IF target = last THEN k.demotion ELSE target) + 240
    BY <1>4, <1>5, <2>1, <2>2
  <2>4. target = last => k.demotion = target \/ k.demotion = target - 240
    BY <1>2, <2>1 DEF UpPriority, IfaceDownPenalty
  <2>5. Driven(k, d, down, last).demotion \in {target + 240, target}
    BY <1>2, <1>3, <2>3, <2>4
  <2>6. DownPriority(Driven(k, d, down, last), target)
    BY <2>1, <2>5 DEF DownPriority, IfaceDownPenalty
  <2> QED
    BY <1>2, <1>6, <2>3, <2>6 DEF Known
<1>7. CASE ~d.DesiredIfaceDown /\ down
  <2>1. ~k.up /\ DownPriority(k, last) /\ target \in Serving
    BY <1>3, <1>7 DEF Known
  <2>2. Driven(k, d, down, last) = Demoted(InterfaceUp(k), target, last)
    BY <1>7 DEF Driven
  <2>3. /\ Driven(k, d, down, last).up = TRUE
        /\ Driven(k, d, down, last).demotion = IF target = last THEN k.demotion - 240 ELSE target
    BY <1>4, <1>5, <2>1, <2>2
  <2>4. k.demotion - 240 = last \/ (last = lv.Unhealthy /\ k.demotion - 240 = last - 240)
    BY <1>3, <2>1 DEF DownPriority, IfaceDownPenalty
  <2>5. /\ Driven(k, d, down, last).demotion <= lv.Degraded
        /\ \/ Driven(k, d, down, last).demotion = target
           \/ target = lv.Unhealthy /\ Driven(k, d, down, last).demotion = target - 240
    BY <1>1, <1>2, <2>1, <2>3, <2>4
  <2>6. UpPriority(Driven(k, d, down, last), target)
    BY <2>1, <2>5 DEF UpPriority, IfaceDownPenalty
  <2> QED
    BY <1>2, <1>7, <2>3, <2>6 DEF Known
<1>8. CASE d.DesiredIfaceDown /\ down
  <2>1. ~k.up /\ DownPriority(k, last) /\ target = lv.Unhealthy
    BY <1>3, <1>8 DEF Known
  <2>2. Driven(k, d, down, last) = Demoted(k, target, last)
    BY <1>8 DEF Driven
  <2>3. /\ Driven(k, d, down, last).up = FALSE
        /\ Driven(k, d, down, last).demotion = IF target = last THEN k.demotion ELSE target
    BY <1>3, <1>4, <2>1, <2>2
  <2>4. DownPriority(Driven(k, d, down, last), target)
    BY <2>1, <2>3 DEF DownPriority
  <2> QED
    BY <1>2, <1>8, <2>3, <2>4 DEF Known
<1>9. CASE ~d.DesiredIfaceDown /\ ~down
  <2>1. k.up /\ UpPriority(k, last) /\ target \in Serving
    BY <1>3, <1>9 DEF Known
  <2>2. Driven(k, d, down, last) = Demoted(k, target, last)
    BY <1>9 DEF Driven
  <2>3. /\ Driven(k, d, down, last).up = TRUE
        /\ Driven(k, d, down, last).demotion = IF target = last THEN k.demotion ELSE target
    BY <1>3, <1>4, <2>1, <2>2
  <2>4. UpPriority(Driven(k, d, down, last), target)
    BY <1>1, <1>2, <2>1, <2>3 DEF UpPriority
  <2> QED
    BY <1>2, <1>9, <2>3, <2>4 DEF Known
<1> QED
  BY <1>2, <1>6, <1>7, <1>8, <1>9

\* The role does not matter to what the agent knows.
LEMMA KnownSame ==
  ASSUME NEW k, NEW kk, kk.up = k.up, kk.demotion = k.demotion, NEW down, NEW last,
         Known(k, down, last)
  PROVE  Known(kk, down, last)
BY DEF Known, UpPriority, DownPriority

\* Appending to the reports of n an acceptable report.
LEMMA AppendReported ==
  ASSUME TypeOK, Reported, Polled, NEW n \in Nodes, Polling(n), NEW r \in Reports,
         reports' = [reports EXCEPT ![n] = Append(@, r)], orphaned' = orphaned,
         ~orphaned => LooksDown(n, Len(reports[n]) + 1, r)
  PROVE  Reported' /\ Polled'
<1>1. reports[n] \in Seq(Reports) /\ Len(reports[n]) < N - 1 /\ N \in Nat
  BY ClusterAssumption DEF TypeOK, Polling
<1>2. \A m \in Nodes : reports'[m] = IF m = n THEN Append(reports[n], r) ELSE reports[m]
  BY DEF TypeOK
<1>3. /\ Len(Append(reports[n], r)) = Len(reports[n]) + 1
      /\ DOMAIN Append(reports[n], r) = 1..(Len(reports[n]) + 1)
      /\ \A i \in DOMAIN reports[n] : Append(reports[n], r)[i] = reports[n][i]
      /\ Append(reports[n], r)[Len(reports[n]) + 1] = r
      /\ DOMAIN reports[n] = 1..Len(reports[n])
  BY <1>1
<1>4. Polled'
  BY <1>1, <1>2, <1>3 DEF Polled
<1>5. ASSUME ~orphaned, NEW m \in Nodes, NEW i \in DOMAIN reports'[m]
      PROVE  LooksDown(m, i, reports'[m][i])
  <2>1. CASE m # n
    BY <1>2, <1>5, <2>1 DEF Reported
  <2>2. CASE m = n
    <3>1. i \in DOMAIN reports[n] \/ i = Len(reports[n]) + 1
      BY <1>1, <1>2, <1>3, <2>2
    <3> QED
      BY <1>2, <1>3, <1>5, <2>2, <3>1 DEF Reported
  <2> QED
    BY <2>1, <2>2
<1>6. Reported'
  BY <1>5 DEF Reported, LooksDown
<1> QED
  BY <1>4, <1>6

\* Forgetting the reports of n.
LEMMA ClearReported ==
  ASSUME TypeOK, Reported, Polled, NEW n \in Nodes,
         reports' = [reports EXCEPT ![n] = <<>>], ~orphaned' => ~orphaned
  PROVE  Reported' /\ Polled'
<1>1. \A m \in Nodes : reports'[m] = IF m = n THEN <<>> ELSE reports[m]
  BY DEF TypeOK
<1>2. Len(<<>>) = 0 /\ DOMAIN <<>> = {} /\ 0 <= N - 1
  BY ClusterAssumption
<1>3. Polled'
  BY <1>1, <1>2 DEF Polled
<1>4. Reported'
  BY <1>1, <1>2 DEF Reported, LooksDown
<1> QED
  BY <1>3, <1>4

\* Steps that touch neither the priorities nor the reports.
LEMMA FrameOrdered ==
  ASSUME TypeOK, Ordered,
         \A m \in Nodes : kernel'[m].up = kernel[m].up /\ kernel'[m].demotion = kernel[m].demotion,
         lastIfaceDown' = lastIfaceDown, lastDemotion' = lastDemotion,
         \A m \in Nodes : phase'[m] = "compare" => phase[m] = "compare",
         reports' = reports, quarry' = quarry, orphaned' = orphaned
  PROVE  Ordered'
<1>1. Priorities'
  BY KnownSame DEF Ordered, Priorities
<1>2. Reported' /\ Polled' /\ YieldsToServing'
  BY DEF Ordered, Reported, Polled, LooksDown, YieldsToServing
<1> QED
  BY <1>1, <1>2 DEF Ordered

\* An answer from a node that is down shows a demotion of a node that is down.
LEMMA AnswerOrdered ==
  ASSUME TypeOK, Ordered, NEW n \in Nodes, Answer(n)
  PROVE  Ordered'
<1> DEFINE p == NextPeer(n)
<1>1. Polling(n) /\ p \in Nodes /\ p = PeerAt(n, Len(reports[n]) + 1) /\ asked[n] \in Nat
  BY NextPeerInRange DEF Answer, NextPeer
<1>2. PICK failed : reports' = [reports EXCEPT ![n] = Append(@, Heartbeat(p, asked[n], failed))]
  BY DEF Answer
<1>3. /\ kernel' = kernel /\ lastIfaceDown' = lastIfaceDown /\ lastDemotion' = lastDemotion
      /\ phase' = phase /\ quarry' = quarry /\ orphaned' = orphaned
  BY DEF Answer, memory, past
<1> DEFINE r == Heartbeat(p, asked[n], failed)
<1>4. r \in Reports
  BY <1>1, HeartbeatType
<1>5. /\ r.up = kernel[p].up
      /\ ~r.blind => r.Advskew = Skews[p] /\ r.Demotion = kernel[p].demotion
  BY DEF Heartbeat, KernelReads
<1> HIDE DEF p, r
<1>6. ASSUME ~orphaned PROVE LooksDown(n, Len(reports[n]) + 1, r)
  <2>1. ~kernel[p].up => DownPriority(kernel[p], lastDemotion[p])
    BY <1>1, <1>6 DEF Ordered, Priorities, Known
  <2>2. ~kernel[p].up => kernel[p].demotion \in
          {lv.Unhealthy} \cup {l + IfaceDownPenalty : l \in Serving \cup {lv.Unhealthy}}
    BY <2>1 DEF DownPriority
  <2> QED
    BY <1>1, <1>5, <2>2 DEF LooksDown
<1>7. Reported' /\ Polled'
  BY <1>1, <1>2, <1>3, <1>4, <1>6, AppendReported DEF Ordered, r
<1>8. Priorities' /\ YieldsToServing'
  BY <1>3 DEF Ordered, Priorities, YieldsToServing, Known, UpPriority, DownPriority
<1> QED
  BY <1>7, <1>8 DEF Ordered

LEMMA SilenceOrdered ==
  ASSUME TypeOK, Ordered, NEW n \in Nodes, Silence(n)
  PROVE  Ordered'
<1>1. /\ kernel' = kernel /\ lastIfaceDown' = lastIfaceDown /\ lastDemotion' = lastDemotion
      /\ phase' = phase /\ quarry' = quarry /\ orphaned' = orphaned
      /\ Polling(n) /\ reports' = [reports EXCEPT ![n] = Append(@, NoReport)]
  BY DEF Silence, memory, past
<1>2. NoReport \in Reports /\ LooksDown(n, Len(reports[n]) + 1, NoReport)
  BY DEF NoReport, Reports, LooksDown
<1>3. Reported' /\ Polled'
  BY <1>1, <1>2, AppendReported DEF Ordered
<1>4. Priorities' /\ YieldsToServing'
  BY <1>1 DEF Ordered, Priorities, YieldsToServing, Known, UpPriority, DownPriority
<1> QED
  BY <1>3, <1>4 DEF Ordered

\* Step 1.
LEMMA ApplyOrdered ==
  ASSUME TypeOK, Ordered, NEW n \in Nodes, Apply(n)
  PROVE  Ordered'
<1> DEFINE d == Wanted(n).decision
           k == Driven(kernel[n], d, lastIfaceDown[n], lastDemotion[n])
<1>1. /\ d.DesiredIfaceDown \in BOOLEAN
      /\ d.DesiredIfaceDown => d.DesiredDemotion = lv.Unhealthy
      /\ ~d.DesiredIfaceDown => d.DesiredDemotion \in Serving
  BY WantedFacts DEF TypeOK
<1>2. kernel[n] \in Kernels /\ lastIfaceDown[n] \in BOOLEAN /\ lastDemotion[n] \in Int
  BY DEF TypeOK
<1> HIDE DEF d
<1>3. ASSUME ~orphaned PROVE Known(k, d.DesiredIfaceDown, d.DesiredDemotion) /\ d.DesiredDemotion # Unset
  <2>1. Known(kernel[n], lastIfaceDown[n], lastDemotion[n])
    BY <1>3 DEF Ordered, Priorities
  <2> QED
    BY <1>1, <1>2, <2>1, DrivenKnown
<1>4. /\ kernel' = [kernel EXCEPT ![n] = k]
      /\ lastDemotion' = [lastDemotion EXCEPT ![n] = d.DesiredDemotion]
      /\ lastIfaceDown' = [lastIfaceDown EXCEPT ![n] = d.DesiredIfaceDown]
      /\ phase' = [phase EXCEPT ![n] = "compare"]
      /\ reports' = reports /\ quarry' = quarry /\ orphaned' = orphaned
  BY DEF Apply, past, d
<1> HIDE DEF k
<1>5. \A m \in Nodes : /\ kernel'[m] = IF m = n THEN k ELSE kernel[m]
                       /\ lastDemotion'[m] = IF m = n THEN d.DesiredDemotion ELSE lastDemotion[m]
                       /\ lastIfaceDown'[m] = IF m = n THEN d.DesiredIfaceDown ELSE lastIfaceDown[m]
                       /\ phase'[m] = IF m = n THEN "compare" ELSE phase[m]
  BY <1>4 DEF TypeOK
<1>6. ASSUME ~orphaned, NEW m \in Nodes
      PROVE  /\ Known(kernel'[m], lastIfaceDown'[m], lastDemotion'[m])
             /\ phase'[m] = "compare" => lastDemotion'[m] # Unset
  BY <1>3, <1>5, <1>6 DEF Ordered, Priorities
<1>7. Priorities'
  BY <1>4, <1>6 DEF Priorities, Known, UpPriority, DownPriority
<1>8. Reported' /\ Polled' /\ YieldsToServing'
  BY <1>4 DEF Ordered, Reported, Polled, LooksDown, YieldsToServing
<1> QED
  BY <1>7, <1>8 DEF Ordered

\* The arithmetic of a step-down: a node that was down is not preferred.
LEMMA DownNotPreferred ==
  ASSUME TypeOK, Ordered, ~orphaned, NEW n \in Nodes, NEW i \in Preferred(n), MayStepDown(n),
         ~reports[n][i].blind, WithinReach(n, PeerAt(n, i))
  PROVE  reports[n][i].up
<1> DEFINE r == reports[n][i]
           p == PeerAt(n, i)
<1>1. SUFFICES ASSUME ~r.up PROVE FALSE
  OBVIOUS
<1>2. i \in DOMAIN reports[n] /\ r.OK /\ r.Advskew + r.Demotion < Skews[n] + kernel[n].demotion
  BY DEF Preferred
<1>3. i \in 1..(N - 1)
  <2>1. reports[n] \in Seq(Reports) /\ Len(reports[n]) <= N - 1 /\ N \in Nat
    BY ClusterAssumption DEF TypeOK, Ordered, Polled
  <2> QED
    BY <1>2, <2>1
<1>4. p \in Nodes
  BY <1>3, PeerInRange
<1>5. /\ r.Advskew = Skews[p]
      /\ r.Demotion \in {lv.Unhealthy} \cup {l + IfaceDownPenalty : l \in Serving \cup {lv.Unhealthy}}
  BY <1>1, <1>2 DEF Ordered, Reported, LooksDown
<1>6. kernel[n].up /\ kernel[n].demotion <= lv.Degraded /\ kernel[n].demotion \in Int
  BY DEF MayStepDown, TypeOK, Kernels, Ordered, Priorities, Known, UpPriority
<1>7. /\ Skews[n] \in Nat /\ Skews[p] \in Nat
      /\ Skews[n] + lv.Degraded <= Skews[p] + lv.Unhealthy
      /\ Skews[n] + lv.Degraded <= Skews[p] + lv.Healthy + 240
  BY <1>4, ClusterAssumption DEF WithinReach, IfaceDownPenalty
<1>8. r.Demotion \in {lv.Unhealthy, lv.Unhealthy + 240, lv.Healthy + 240, lv.Degraded + 240}
  BY <1>5 DEF Serving, IfaceDownPenalty
<1> HIDE DEF r, p
<1> QED
  BY <1>2, <1>5, <1>6, <1>7, <1>8, LevelFacts

\* Step 2.
LEMMA CompareOrdered ==
  ASSUME TypeOK, Ordered, NEW n \in Nodes, Compare(n)
  PROVE  Ordered'
<1>1. /\ phase[n] = "compare" /\ phase' = [phase EXCEPT ![n] = "idle"]
      /\ reports' = [reports EXCEPT ![n] = <<>>]
      /\ lastDemotion' = lastDemotion /\ orphaned' = orphaned
  BY DEF Compare
<1>2. Reported' /\ Polled'
  BY <1>1, ClearReported DEF Ordered
<1>3. \A m \in Nodes : phase'[m] = "compare" => phase[m] = "compare"
  BY <1>1 DEF TypeOK
<1>4. CASE UNCHANGED <<kernel, lastIfaceDown, cooling, quarry>>
  <2>1. Priorities' /\ YieldsToServing'
    BY <1>1, <1>3, <1>4
    DEF Ordered, Priorities, YieldsToServing, Known, UpPriority, DownPriority
  <2> QED
    BY <1>2, <2>1 DEF Ordered
<1>5. ASSUME NEW i \in Preferred(n), MayStepDown(n),
             kernel' = [kernel EXCEPT ![n] = InterfaceDown(@)],
             lastIfaceDown' = [lastIfaceDown EXCEPT ![n] = TRUE],
             quarry' = [up |-> reports[n][i].up, blind |-> reports[n][i].blind,
                          near |-> WithinReach(n, PeerAt(n, i))]
      PROVE  Ordered'
  <2>1. \A m \in Nodes : /\ kernel'[m] = IF m = n THEN InterfaceDown(kernel[n]) ELSE kernel[m]
                         /\ lastIfaceDown'[m] = IF m = n THEN TRUE ELSE lastIfaceDown[m]
    BY <1>5 DEF TypeOK
  <2>2. ASSUME ~orphaned PROVE Known(InterfaceDown(kernel[n]), TRUE, lastDemotion[n])
    <3>1. kernel[n] \in Kernels /\ kernel[n].up \in BOOLEAN /\ lastDemotion[n] \in Int
      BY DEF TypeOK, Kernels
    <3>2. kernel[n].up /\ UpPriority(kernel[n], lastDemotion[n]) /\ lastDemotion[n] # Unset
      BY <1>1, <1>5, <2>2, <3>1 DEF MayStepDown, Ordered, Priorities, Known
    <3> QED
      BY <3>1, <3>2, DownKnown
  <2>3. ASSUME ~orphaned, NEW m \in Nodes
        PROVE  /\ Known(kernel'[m], lastIfaceDown'[m], lastDemotion'[m])
               /\ phase'[m] = "compare" => lastDemotion'[m] # Unset
    BY <1>1, <1>3, <2>1, <2>2, <2>3 DEF Ordered, Priorities
  <2>4. Priorities'
    BY <1>1, <2>3 DEF Priorities, Known, UpPriority, DownPriority
  <2>5. YieldsToServing'
    BY <1>1, <1>5, DownNotPreferred DEF YieldsToServing
  <2> QED
    BY <1>2, <2>4, <2>5 DEF Ordered
<1> QED
  BY <1>4, <1>5 DEF Compare

\* A new agent believes its interface to be up; when it is not, it is orphaned.
LEMMA RestartOrdered ==
  ASSUME TypeOK, Ordered, NEW n \in Nodes, Restart(n)
  PROVE  Ordered'
<1>1. /\ orphaned' = (orphaned \/ ~kernel[n].up)
      /\ lastDemotion' = [lastDemotion EXCEPT ![n] = Unset]
      /\ lastIfaceDown' = [lastIfaceDown EXCEPT ![n] = FALSE]
      /\ phase' = [phase EXCEPT ![n] = "idle"]
      /\ reports' = [reports EXCEPT ![n] = <<>>]
      /\ kernel' = kernel /\ quarry' = quarry
  BY DEF Restart
<1>2. Reported' /\ Polled'
  BY <1>1, ClearReported DEF Ordered
<1>3. YieldsToServing'
  BY <1>1 DEF Ordered, YieldsToServing
<1>4. \A m \in Nodes : /\ lastDemotion'[m] = IF m = n THEN Unset ELSE lastDemotion[m]
                       /\ lastIfaceDown'[m] = IF m = n THEN FALSE ELSE lastIfaceDown[m]
                       /\ phase'[m] = IF m = n THEN "idle" ELSE phase[m]
  BY <1>1 DEF TypeOK
<1>5. ASSUME ~orphaned', NEW m \in Nodes
      PROVE  /\ Known(kernel[m], lastIfaceDown'[m], lastDemotion'[m])
             /\ phase'[m] = "compare" => lastDemotion'[m] # Unset
  <2>1. kernel[n].up /\ Known(kernel[n], lastIfaceDown[n], lastDemotion[n])
    BY <1>1, <1>5 DEF Ordered, Priorities
  <2>2. Known(kernel[n], FALSE, Unset)
    BY <2>1 DEF Known, UpPriority
  <2>3. CASE m = n
    BY <1>4, <2>2, <2>3
  <2>4. CASE m # n
    <3>1. ~orphaned
      BY <1>1, <1>5
    <3> QED
      BY <1>4, <2>4, <3>1 DEF Ordered, Priorities
  <2> QED
    BY <2>3, <2>4
<1>6. Priorities'
  BY <1>1, <1>5 DEF Priorities, Known, UpPriority, DownPriority
<1> QED
  BY <1>2, <1>3, <1>6 DEF Ordered

\* An election changes the role of a kernel and nothing else.
LEMMA RoleOnly ==
  ASSUME NEW k \in Kernels
  PROVE  \A role \in {"MASTER", "BACKUP"} :
           [k EXCEPT !.role = role].up = k.up /\ [k EXCEPT !.role = role].demotion = k.demotion
BY DEF Kernels

\* Every step keeps the priorities in order.
LEMMA OrderedStep == TypeOK /\ Ordered /\ [Next]_vars => Ordered'
<1> SUFFICES ASSUME TypeOK, Ordered, [Next]_vars PROVE Ordered'
  OBVIOUS
<1>1. CASE UNCHANGED vars
  BY <1>1, FrameOrdered DEF vars, memory, cycle, past
<1>2. ASSUME NEW n \in Nodes,
             (\E h \in HealthResults : Check(n, h)) \/ Ask(n) \/ CooldownOver(n) \/ GraceOver(n)
      PROVE  Ordered'
  <2>1. /\ kernel' = kernel /\ lastIfaceDown' = lastIfaceDown /\ lastDemotion' = lastDemotion
        /\ reports' = reports /\ quarry' = quarry /\ orphaned' = orphaned
    BY <1>2 DEF Check, Ask, CooldownOver, GraceOver, memory, cycle, past
  <2>2. \A m \in Nodes : phase'[m] = "compare" => phase[m] = "compare"
    BY <1>2 DEF Check, Ask, CooldownOver, GraceOver, cycle, TypeOK
  <2> QED
    BY <2>1, <2>2, FrameOrdered
<1>3. ASSUME NEW n \in Nodes, Kill(n) PROVE Ordered'
  <2>1. /\ kernel' = kernel /\ lastIfaceDown' = lastIfaceDown /\ lastDemotion' = lastDemotion
        /\ reports' = reports /\ quarry' = quarry /\ orphaned' = orphaned
    BY <1>3 DEF Kill, memory, past
  <2>2. \A m \in Nodes : phase'[m] = "compare" => phase[m] = "compare"
    BY <1>3 DEF Kill, TypeOK
  <2> QED
    BY <2>1, <2>2, FrameOrdered
<1>4. ASSUME NEW n \in Nodes, TakeOver(n) \/ KernelPreempt(n) PROVE Ordered'
  <2>1. /\ lastIfaceDown' = lastIfaceDown /\ lastDemotion' = lastDemotion /\ phase' = phase
        /\ reports' = reports /\ quarry' = quarry /\ orphaned' = orphaned
    BY <1>4 DEF TakeOver, KernelPreempt, memory, cycle, past
  <2>2. ASSUME NEW m \in Nodes
        PROVE  kernel'[m].up = kernel[m].up /\ kernel'[m].demotion = kernel[m].demotion
    <3>1. kernel[m] \in Kernels /\ kernel \in [Nodes -> Kernels]
      BY DEF TypeOK
    <3>2. CASE TakeOver(n)
      <4>1. kernel' = [kernel EXCEPT ![n] = [kernel[n] EXCEPT !.role = "MASTER"]]
        BY <3>2 DEF TakeOver
      <4>2. kernel'[m] \in {kernel[m], [kernel[m] EXCEPT !.role = "MASTER"]}
        BY <3>1, <4>1
      <4> QED
        BY <3>1, <4>2, RoleOnly
    <3>3. CASE KernelPreempt(n)
      <4>1. kernel'[m] \in {kernel[m], [kernel[m] EXCEPT !.role = "MASTER"],
                            [kernel[m] EXCEPT !.role = "BACKUP"]}
        BY <3>3 DEF KernelPreempt
      <4> QED
        BY <3>1, <4>1, RoleOnly
    <3> QED
      BY <1>4, <3>2, <3>3
  <2> QED
    BY <2>1, <2>2, FrameOrdered
<1> QED
  BY <1>1, <1>2, <1>3, <1>4, AnswerOrdered, SilenceOrdered, ApplyOrdered, CompareOrdered,
     RestartOrdered DEF Next, Cycle

\* The priorities are in order throughout.
LEMMA OrderedInvariant == Spec => [](TypeOK /\ Ordered)
<1>1. Init => Ordered
  <2> SUFFICES ASSUME Init PROVE Ordered
    OBVIOUS
  <2>1. Polled /\ Reported
    <3>1. \A n \in Nodes : reports[n] = <<>>
      BY DEF Init
    <3>2. Len(<<>>) = 0 /\ DOMAIN <<>> = {} /\ 0 <= N - 1
      BY ClusterAssumption
    <3> QED
      BY <3>1, <3>2 DEF Polled, Reported
  <2>2. YieldsToServing
    BY DEF Init, NoQuarry, YieldsToServing
  <2>3. ASSUME NEW n \in Nodes PROVE Known(kernel[n], lastIfaceDown[n], lastDemotion[n])
    <3>1. /\ kernel[n].up = TRUE /\ kernel[n].demotion = 0
          /\ lastIfaceDown[n] = FALSE /\ lastDemotion[n] = Unset
      BY DEF Init
    <3> QED
      BY <3>1, LevelFacts DEF Known, UpPriority
  <2>4. \A n \in Nodes : phase[n] # "compare"
    BY DEF Init
  <2> QED
    BY <2>1, <2>2, <2>3, <2>4 DEF Ordered, Priorities
<1> QED
  BY <1>1, OrderedStep, ClusterTypeCorrect, PTL DEF Spec

\* handleHealth, EvaluatePolicy, the recovery hold and step 2 together: in a
\* cluster of any size and with any advskews no MASTER steps down for a node
\* within its reach whose interface was down, however old the report is, unless
\* the peer could not read its own priority or some agent was started on an
\* interface that was down.
THEOREM OnlyYieldsToServing == Spec => []YieldsToServing
<1>1. TypeOK /\ Ordered => YieldsToServing
  BY DEF Ordered
<1> QED
  BY <1>1, OrderedInvariant, PTL

\* The demotion a held, unhealthy or stepped down node reports never makes it
\* look better than a serving node within reach of it, with the same exceptions.
THEOREM DownLooksWorseHolds == Spec => []DownLooksWorse
<1>1. TypeOK /\ Ordered => DownLooksWorse
  <2> SUFFICES ASSUME TypeOK, Ordered, ~orphaned, NEW n \in Nodes, NEW i \in DOMAIN reports[n],
                      reports[n][i].OK, ~reports[n][i].up, ~reports[n][i].blind, NEW m \in Nodes,
                      WithinReach(m, PeerAt(n, i))
               PROVE  Skews[m] + lv.Degraded <= reports[n][i].Advskew + reports[n][i].Demotion
    BY DEF DownLooksWorse
  <2> DEFINE r == reports[n][i]
             p == PeerAt(n, i)
  <2>1. i \in 1..(N - 1)
    <3>1. reports[n] \in Seq(Reports) /\ Len(reports[n]) <= N - 1 /\ N \in Nat
      BY ClusterAssumption DEF TypeOK, Ordered, Polled
    <3> QED
      BY <3>1
  <2>2. p \in Nodes
    BY <2>1, PeerInRange
  <2>3. /\ r.Advskew = Skews[p]
        /\ r.Demotion \in {lv.Unhealthy} \cup {l + IfaceDownPenalty : l \in Serving \cup {lv.Unhealthy}}
    BY DEF Ordered, Reported, LooksDown
  <2>4. /\ Skews[m] \in Nat /\ Skews[p] \in Nat
        /\ Skews[m] + lv.Degraded <= Skews[p] + lv.Unhealthy
        /\ Skews[m] + lv.Degraded <= Skews[p] + lv.Healthy + 240
    BY <2>2, ClusterAssumption DEF WithinReach, IfaceDownPenalty
  <2>5. r.Demotion \in {lv.Unhealthy, lv.Unhealthy + 240, lv.Healthy + 240, lv.Degraded + 240}
    BY <2>3 DEF Serving, IfaceDownPenalty
  <2> HIDE DEF r, p
  <2>6. Skews[m] + lv.Degraded <= r.Advskew + r.Demotion
    BY <2>3, <2>4, <2>5, LevelFacts
  <2> QED
    BY <2>6 DEF r
<1> QED
  BY <1>1, OrderedInvariant, PTL
=============================================================================
