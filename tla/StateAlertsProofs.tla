------------------------- MODULE StateAlertsProofs --------------------------
(***************************************************************************)
(* Theorems about StateAlerts, for any confirmation, any cooldown and any  *)
(* number of restarts and failures.                                        *)
(***************************************************************************)
EXTENDS StateAlerts, TLAPS

Alerts == [key : Keys, sent : BOOLEAN, delivered : BOOLEAN]
Contents == HealthStates \cup {Absent, Empty}

-----------------------------------------------------------------------------
(* Facts about the operators.                                              *)

\* The confirmation is positive: 0 is replaced by the default.
LEMMA ConfirmPositive == notifyConfirm \in Nat \ {0}
BY StateAlertParameters DEF notifyConfirm, DefaultNotifyConfirm

\* The cooldown's map of ages, after an alert and after a tick.
LEMMA AllowType ==
  ASSUME NEW sent \in [Keys -> Ages(Duration)], NEW k \in Keys
  PROVE  AfterAllow(sent, k, Duration) \in [Keys -> Ages(Duration)]
BY StateAlertParameters DEF AfterAllow, Ages

LEMMA AgedType ==
  ASSUME NEW sent \in [Keys -> Ages(Duration)]
  PROVE  Forgotten(Aged(sent, Duration), Duration) \in [Keys -> Ages(Duration)]
<1>1. Duration \in Nat
  BY StateAlertParameters
<1>2. \A age \in Ages(Duration) : Older(age, Duration) \in Ages(Duration)
  BY <1>1 DEF Older, Ages, Never
<1>3. Aged(sent, Duration) \in [Keys -> Ages(Duration)]
  BY <1>2 DEF Aged
<1>4. Never \in Ages(Duration)
  BY DEF Ages
<1> QED
  BY <1>3, <1>4 DEF Forgotten

\* Loading gives a health state whatever the file contains, and gives back a
\* health state that was written.
LEMMA LoadType ==
  \A x : loadState(x) \in HealthStates /\ (x \in HealthStates => loadState(x) = x)
BY DEF loadState, HealthStates

\* A finished cycle is a cycle.
LEMMA OverType ==
  ASSUME NEW s \in States
  PROVE  Over(s) \in Cycles /\ Over(s).state = s
<1>1. (CHOOSE m \in Modes : TRUE) \in Modes /\ (CHOOSE c \in Carps : TRUE) \in Carps
  BY StateAlertParameters
<1>2. (CHOOSE d \in Demotions : TRUE) \in Demotions
  BY StateAlertParameters
<1> QED
  BY <1>1, <1>2 DEF Over, Cycles, Predicts

\* What a cycle carries.
LEMMA CycleFields ==
  ASSUME NEW c \in Cycles
  PROVE  /\ c.state \in States /\ c.state \in HealthStates
         /\ c.carp \in CarpStates
         /\ c.best \in Nat \/ c.best = NoPeer
         /\ c.skewRead \in BOOLEAN
         /\ Predicted(c) \in CarpStates
<1>1. /\ c.state \in States /\ c.state \in HealthStates
      /\ c.carp \in CarpStates /\ c.skewRead \in BOOLEAN
      /\ c.best \in Nat \/ c.best = NoPeer
  BY StateAlertParameters DEF Cycles
<1>2. Predicted(c) \in {"MASTER", c.carp}
  BY DEF Predicted
<1> QED
  BY <1>1, <1>2 DEF CarpStates

\* The alert of the VIP loss is not one of a state change.
LEMMA KeyKinds == VIPLoss \in Keys /\ VIPLoss \notin Transitions /\ Transitions \subseteq Keys
BY DEF VIPLoss, Keys, Transitions, HealthStates

LEMMA NoAlertType == NoAlert \in Alerts /\ ~NoAlert.sent
BY KeyKinds DEF NoAlert, Alerts

-----------------------------------------------------------------------------
(* Type correctness needs that a state change is dispatched only towards   *)
(* another state, and that the debounce knows the state of the cycle.      *)

\* The debounce counts exactly how long the state of the cycles has held.
Debounce ==
  /\ confirmState = cycle.state /\ confirmCount = heldFor
  /\ pc = "dispatch" => cycle.state # lastState /\ heldFor >= notifyConfirm
  /\ DebounceKept

Typed == TypeOK /\ Debounce

\* The steps of the disk keep the types of the files and descriptors.
LEMMA OpenType ==
  ASSUME TypeOK, NEW w \in Writers, OpenTmp(w)
  PROVE  {file', tmp'} \subseteq Contents /\ fd' \in [Writers -> {"closed", "tmp", "file"}]
BY DEF OpenTmp, TypeOK, Contents

LEMMA WriteType ==
  ASSUME TypeOK, NEW w \in Writers, NEW s \in HealthStates, WriteTmp(w, s)
  PROVE  {file', tmp'} \subseteq Contents /\ fd' \in [Writers -> {"closed", "tmp", "file"}]
BY DEF WriteTmp, TypeOK, Contents

LEMMA RenameType ==
  ASSUME TypeOK, RenameTmp
  PROVE  {file', tmp'} \subseteq Contents /\ fd' \in [Writers -> {"closed", "tmp", "file"}]
BY DEF RenameTmp, TypeOK, Contents, disk

LEMMA FailType ==
  ASSUME TypeOK, DiskFails
  PROVE  /\ {file', tmp'} \subseteq Contents /\ fd' \in [Writers -> {"closed", "tmp", "file"}]
         /\ failures' \in 1..MaxFailures /\ restarts' = restarts
         /\ file' = file /\ tmp' = tmp
<1>1. failures \in 0..MaxFailures /\ MaxFailures \in Nat
  BY StateAlertParameters DEF TypeOK
<1>2. failures' \in 1..MaxFailures
  BY <1>1 DEF DiskFails
<1> QED
  BY <1>2 DEF DiskFails, TypeOK, Contents

\* A cycle that begins keeps the types and the debounce.
LEMMA ObserveTyped ==
  ASSUME Typed, NEW c \in Cycles, Observe(c)
  PROVE  Typed'
<1>1. /\ c.state \in HealthStates /\ Predicted(c) \in CarpStates /\ notifyConfirm \in Nat \ {0}
  BY CycleFields, ConfirmPositive
<1>2. confirmCount \in 0..notifyConfirm /\ confirmCount = heldFor /\ confirmState = cycle.state
  BY DEF Typed, TypeOK, Debounce
<1>3. confirmCount' = CountOf(c.state) /\ confirmState' = c.state /\ cycle' = c
  BY DEF Observe
<1>4. CountOf(c.state) \in 0..notifyConfirm
  BY <1>1, <1>2 DEF CountOf
<1>5. heldFor' = CountOf(c.state)
  <2>1. heldFor' = IF c.state = cycle.state
                   THEN IF heldFor < notifyConfirm THEN heldFor + 1 ELSE heldFor ELSE 1
    BY DEF Observe
  <2> QED
    BY <1>1, <1>2, <2>1 DEF CountOf
<1>6. failures' \in 0..MaxFailures
  <2>1. failures \in 0..MaxFailures /\ MaxFailures \in Nat
    BY StateAlertParameters DEF Typed, TypeOK
  <2>2. failures' = failures \/ (failures < MaxFailures /\ failures' = failures + 1)
    BY DEF Observe
  <2> QED
    BY <2>1, <2>2
<1>7. pc' = IF c.state # lastState /\ confirmCount' >= notifyConfirm THEN "dispatch" ELSE "vip"
  BY DEF Observe
<1>8. alert' = NoAlert /\ notificationCarp' = Predicted(c)
  BY DEF Observe
<1>9. /\ lastState' = lastState /\ wasMaster' = wasMaster /\ lastSent' = lastSent
      /\ file' = file /\ tmp' = tmp /\ fd' = fd
      /\ stop' = stop /\ stopState' = stopState /\ restarts' = restarts
      /\ announced' = announced /\ raced' = raced /\ torn' = torn /\ role' = role
  BY DEF Observe, disk, stopping
<1>10. TypeOK'
  BY <1>1, <1>3, <1>4, <1>5, <1>6, <1>7, <1>8, <1>9, NoAlertType DEF Typed, TypeOK, Alerts
<1>11. Debounce'
  BY <1>3, <1>5, <1>7, <1>8, <1>9, NoAlertType DEF Debounce, DebounceKept, notifyConfirm
<1> QED
  BY <1>10, <1>11 DEF Typed

\* The dispatch of a state change goes towards another state.
LEMMA DispatchTyped ==
  ASSUME Typed, Dispatch
  PROVE  Typed'
<1> DEFINE key == <<lastState, cycle.state>>
<1>1. cycle \in Cycles /\ cycle.state \in HealthStates /\ lastState \in HealthStates
  BY CycleFields DEF Typed, TypeOK
<1>2. cycle.state # lastState /\ heldFor >= notifyConfirm
  BY DEF Typed, Debounce, Dispatch
<1>3. key \in Keys
  BY <1>1, <1>2 DEF Keys, Transitions
<1>4. /\ alert' = [key |-> key, sent |-> TRUE, delivered |-> Allow(lastSent, key, Duration)]
      /\ lastSent' = AfterAllow(lastSent, key, Duration)
      /\ announced' = cycle.state /\ pc' = "save"
  BY DEF Dispatch
<1>5. /\ lastState' = lastState /\ confirmState' = confirmState /\ confirmCount' = confirmCount
      /\ wasMaster' = wasMaster /\ file' = file /\ tmp' = tmp /\ fd' = fd
      /\ cycle' = cycle /\ notificationCarp' = notificationCarp
      /\ stop' = stop /\ stopState' = stopState /\ restarts' = restarts /\ failures' = failures
      /\ heldFor' = heldFor /\ raced' = raced /\ torn' = torn /\ role' = role
  BY DEF Dispatch, fields, disk, locals, stopping, budgets
<1>6. lastSent' \in [Keys -> Ages(Duration)]
  BY <1>3, <1>4, AllowType DEF Typed, TypeOK
<1>7. Allow(lastSent, key, Duration) \in BOOLEAN
  BY DEF Allow
<1> HIDE DEF key
<1>8. alert' \in Alerts
  BY <1>3, <1>4, <1>7 DEF Alerts
<1>9. TypeOK'
  BY <1>1, <1>4, <1>5, <1>6, <1>8 DEF Typed, TypeOK, Alerts
<1>10. Debounce'
  BY <1>2, <1>4, <1>5 DEF Typed, Debounce, DebounceKept, notifyConfirm
<1> QED
  BY <1>9, <1>10 DEF Typed

\* The three steps of saveState in a cycle.
LEMMA SaveTyped ==
  ASSUME Typed, Save \/ SaveWrite \/ SaveRename
  PROVE  Typed'
<1>1. cycle \in Cycles /\ cycle.state \in HealthStates /\ lastState \in HealthStates
      /\ "cycle" \in Writers /\ failures \in 0..MaxFailures /\ restarts \in 0..MaxRestarts
      /\ MaxFailures \in Nat
  BY CycleFields, StateAlertParameters DEF Typed, TypeOK, Writers
<1>2. /\ lastState' \in {lastState, cycle.state} /\ confirmState' = confirmState
      /\ confirmCount' = confirmCount /\ wasMaster' = wasMaster /\ lastSent' = lastSent
      /\ cycle' = cycle /\ notificationCarp' = notificationCarp
      /\ stop' = stop /\ stopState' = stopState
      /\ heldFor' = heldFor /\ announced' = announced /\ torn' = torn
      /\ alert' \in {alert, NoAlert} /\ role' = role
      /\ pc' \in {"write", "rename", "vip"}
  BY DEF Save, TakeOver, SaveWrite, SaveRename, fields, locals, stopping, history
<1>3. raced' \in BOOLEAN
  BY DEF Typed, TypeOK, Save, SaveWrite, SaveRename, history
<1>4. OpenTmp("cycle") \/ WriteTmp("cycle", lastState) \/ RenameTmp \/ DiskFails
  BY DEF Save, SaveWrite, SaveRename
<1>5. {file', tmp'} \subseteq Contents /\ fd' \in [Writers -> {"closed", "tmp", "file"}]
  BY <1>1, <1>4, OpenType, WriteType, RenameType, FailType DEF Typed
<1>6. failures' \in 0..MaxFailures /\ restarts' = restarts
  <2>1. DiskFails \/ (failures' = failures /\ restarts' = restarts)
    BY DEF Save, SaveWrite, SaveRename, budgets
  <2>2. 1..MaxFailures \subseteq 0..MaxFailures
    BY <1>1
  <2> QED
    BY <1>1, <2>1, <2>2, FailType DEF Typed
<1>7. TypeOK'
  BY <1>1, <1>2, <1>3, <1>5, <1>6, NoAlertType DEF Typed, TypeOK, Alerts, Contents
<1>8. Debounce'
  BY <1>2, NoAlertType DEF Typed, Debounce, DebounceKept, notifyConfirm
<1> QED
  BY <1>7, <1>8 DEF Typed

\* The end of a cycle.
LEMMA CheckVIPTyped ==
  ASSUME Typed, CheckVIP
  PROVE  Typed'
<1>1. cycle \in Cycles /\ cycle.state \in States
  BY CycleFields DEF Typed, TypeOK
<1>2. /\ pc' = "idle" /\ cycle' = Over(cycle.state) /\ notificationCarp' = "UNKNOWN"
      /\ lastState' = lastState /\ confirmState' = confirmState /\ confirmCount' = confirmCount
      /\ file' = file /\ tmp' = tmp /\ fd' = fd
      /\ stop' = stop /\ stopState' = stopState /\ restarts' = restarts
      /\ heldFor' = heldFor /\ announced' = announced /\ raced' = raced /\ torn' = torn
  BY DEF CheckVIP, disk, stopping, history
<1>3. cycle' \in Cycles /\ cycle'.state = cycle.state
  BY <1>1, <1>2, OverType
<1>4. wasMaster' \in BOOLEAN
  BY DEF CheckVIP, MasterAfter, Typed, TypeOK
<1>8. role' \in {"master", "claimed", "neither"}
  BY DEF CheckVIP, Typed, TypeOK
<1>9. failures' \in 0..MaxFailures
  <2>1. failures \in 0..MaxFailures /\ MaxFailures \in Nat
    BY StateAlertParameters DEF Typed, TypeOK
  <2>2. failures' = failures \/ (failures < MaxFailures /\ failures' = failures + 1)
    BY DEF CheckVIP, AlertVIPLoss
  <2> QED
    BY <2>1, <2>2
<1>5. /\ lastSent' \in [Keys -> Ages(Duration)]
      /\ alert' \in Alerts /\ (alert'.sent => alert'.key = VIPLoss)
  <2>1. lastSent \in [Keys -> Ages(Duration)] /\ VIPLoss \in Keys
        /\ Allow(lastSent, VIPLoss, Duration) \in BOOLEAN
    BY KeyKinds DEF Typed, TypeOK, Allow
  <2>2. \/ /\ alert' = NoAlert /\ lastSent' = lastSent
        \/ /\ alert' = [key |-> VIPLoss, sent |-> TRUE,
                        delivered |-> Allow(lastSent, VIPLoss, Duration)]
           /\ lastSent' = AfterAllow(lastSent, VIPLoss, Duration)
    BY DEF CheckVIP, AlertVIPLoss
  <2>3. lastSent' \in [Keys -> Ages(Duration)]
    BY <2>1, <2>2, AllowType
  <2>4. CASE alert' = NoAlert
    BY <2>3, <2>4, NoAlertType
  <2>5. CASE alert' = [key |-> VIPLoss, sent |-> TRUE,
                       delivered |-> Allow(lastSent, VIPLoss, Duration)]
    BY <2>1, <2>3, <2>5 DEF Alerts
  <2> QED
    BY <2>2, <2>4, <2>5
<1>6. TypeOK'
  BY <1>2, <1>3, <1>4, <1>5, <1>8, <1>9 DEF Typed, TypeOK, Alerts, CarpStates
<1>7. Debounce'
  BY <1>2, <1>3, <1>5, KeyKinds DEF Typed, Debounce, DebounceKept, notifyConfirm
<1> QED
  BY <1>6, <1>7 DEF Typed

\* Stop, beside the cycle.
LEMMA StopTyped ==
  ASSUME Typed, StopBegin \/ StopSave
  PROVE  Typed'
<1>1. lastState \in HealthStates /\ stopState \in HealthStates /\ "stop" \in Writers
  BY DEF Typed, TypeOK, Writers
<1>2. /\ lastState' = lastState /\ confirmState' = confirmState /\ confirmCount' = confirmCount
      /\ wasMaster' = wasMaster /\ lastSent' = lastSent /\ pc' = pc
      /\ cycle' = cycle /\ notificationCarp' = notificationCarp
      /\ restarts' = restarts /\ failures' = failures
      /\ heldFor' = heldFor /\ announced' = announced /\ torn' = torn /\ alert' = alert
      /\ role' = role
      /\ stop' \in {"open", "write", "rename", "done"} /\ stopState' \in {stopState, lastState}
  BY DEF StopBegin, StopSave, fields, locals, budgets, history
<1>3. raced' \in BOOLEAN
  BY DEF Typed, TypeOK, StopBegin, StopSave, history
<1>4. {file', tmp'} \subseteq Contents /\ fd' \in [Writers -> {"closed", "tmp", "file"}]
  <2>1. CASE StopBegin
    BY <2>1 DEF StopBegin, disk, Typed, TypeOK, Contents
  <2>2. CASE StopSave
    BY <1>1, <2>2, OpenType, WriteType, RenameType DEF StopSave, Typed
  <2> QED
    BY <2>1, <2>2
<1>5. TypeOK'
  BY <1>1, <1>2, <1>3, <1>4 DEF Typed, TypeOK, Contents
<1>6. Debounce'
  BY <1>2 DEF Typed, Debounce, DebounceKept, notifyConfirm
<1> QED
  BY <1>5, <1>6 DEF Typed

\* A new process.
LEMMA RestartTyped ==
  ASSUME Typed, Restart
  PROVE  Typed'
<1>1. /\ lastState' = loadState(file) /\ confirmState' = "HEALTHY" /\ confirmCount' = 0
      /\ wasMaster' = FALSE /\ lastSent' = [k \in Keys |-> Never]
      /\ pc' = "idle" /\ cycle' = Over("HEALTHY") /\ notificationCarp' = "UNKNOWN"
      /\ fd' = [w \in Writers |-> "closed"] /\ stop' = "no" /\ stopState' = "HEALTHY"
      /\ heldFor' = 0 /\ alert' = NoAlert /\ raced' = FALSE /\ role' = "neither"
      /\ file' = file /\ tmp' = tmp /\ failures' = failures /\ announced' = announced
  BY DEF Restart
<1>2. cycle' \in Cycles /\ cycle'.state = "HEALTHY"
  BY <1>1, OverType, StateAlertParameters
<1>3. lastState' \in HealthStates /\ "HEALTHY" \in HealthStates
  BY <1>1, LoadType DEF HealthStates
<1>4. lastSent' \in [Keys -> Ages(Duration)] /\ 0 \in 0..notifyConfirm
  BY <1>1, ConfirmPositive DEF Ages
<1>5. torn' \in BOOLEAN
  BY DEF Restart, Typed, TypeOK
<1>6. restarts' \in 0..MaxRestarts
  <2>1. restarts \in 0..MaxRestarts /\ MaxRestarts \in Nat
    BY StateAlertParameters DEF Typed, TypeOK
  <2> QED
    BY <2>1 DEF Restart
<1>7. fd' \in [Writers -> {"closed", "tmp", "file"}]
  BY <1>1
<1>8. TypeOK'
  BY <1>1, <1>2, <1>3, <1>4, <1>5, <1>6, <1>7, NoAlertType DEF Typed, TypeOK, Alerts, CarpStates
<1>9. Debounce'
  BY <1>1, <1>2, NoAlertType DEF Debounce, DebounceKept
<1> QED
  BY <1>8, <1>9 DEF Typed

\* The types and the debounce hold at the start and after every step.
LEMMA TypedInvariant == Spec => []Typed
<1>1. Init => Typed
  <2> SUFFICES ASSUME Init PROVE Typed
    OBVIOUS
  <2>1. cycle \in Cycles /\ cycle.state = "HEALTHY"
    BY OverType, StateAlertParameters DEF Init
  <2>2. lastState \in HealthStates /\ "HEALTHY" \in HealthStates
    BY LoadType DEF Init, HealthStates
  <2>3. lastSent \in [Keys -> Ages(Duration)] /\ 0 \in 0..notifyConfirm
    BY ConfirmPositive DEF Init, Ages
  <2>4. 0 \in 0..MaxRestarts /\ 0 \in 0..MaxFailures
    BY StateAlertParameters
  <2>5. fd \in [Writers -> {"closed", "tmp", "file"}]
    BY DEF Init
  <2>6. TypeOK
    BY <2>1, <2>2, <2>3, <2>4, <2>5, NoAlertType DEF Init, TypeOK, Alerts, CarpStates
  <2>7. Debounce
    BY <2>1, NoAlertType DEF Init, Debounce, DebounceKept
  <2> QED
    BY <2>6, <2>7 DEF Typed
<1>2. Typed /\ [Next]_vars => Typed'
  <2> SUFFICES ASSUME Typed, [Next]_vars PROVE Typed'
    OBVIOUS
  <2>1. CASE Tick
    <3>1. lastSent' \in [Keys -> Ages(Duration)]
      BY <2>1, AgedType DEF Tick, Typed, TypeOK
    <3> QED
      BY <2>1, <3>1 DEF Tick, fields, disk, locals, stopping, budgets, history,
         Typed, TypeOK, Debounce, DebounceKept, notifyConfirm
  <2>2. CASE UNCHANGED vars
    BY <2>2 DEF vars, fields, disk, locals, stopping, budgets, history,
       Typed, TypeOK, Debounce, DebounceKept, notifyConfirm
  <2> QED
    BY <2>1, <2>2, ObserveTyped, DispatchTyped, SaveTyped, CheckVIPTyped, StopTyped,
       RestartTyped DEF Next, Step
<1> QED
  BY <1>1, <1>2, PTL DEF Spec

\* Every variable keeps its type: whatever a crash leaves in the state file, the
\* process starts in a health state, and every alert has a key of its own kind.
THEOREM StateTypeCorrect == Spec => []TypeOK
<1>1. Typed => TypeOK
  BY DEF Typed
<1> QED
  BY <1>1, TypedInvariant, PTL

\* runOnce announces a state change only after notify.confirm cycles in that
\* state, for any confirmation.
THEOREM DebounceHolds == Spec => []DebounceKept
<1>1. Typed => DebounceKept
  BY DEF Typed, Debounce
<1> QED
  BY <1>1, TypedInvariant, PTL

-----------------------------------------------------------------------------
(* The record of the announced state, as long as no write has failed.      *)

\* Which state the process remembers, and what it has announced.
Announced ==
  ~torn =>
    /\ pc # "save" => lastState = announced
    /\ pc = "save" => announced = cycle.state

\* One writer at a time: outside of its own write the cycle finds the recorded
\* state in the file, and each writer finds its temporary file as it left it.
Alone ==
  ~raced =>
    /\ stop \in {"open", "write", "rename"} =>
         pc \notin {"write", "rename"} /\ stopState = lastState
    /\ pc \notin {"write", "rename"} => loadState(file) = lastState
    /\ stop = "write" => fd["stop"] = "tmp" /\ tmp = Empty
    /\ stop = "rename" => tmp = stopState
    /\ pc = "write" => fd["cycle"] = "tmp" /\ tmp = Empty
    /\ pc = "rename" => tmp = lastState

\* Two writers: the temporary file exists only while one of them has not tried
\* to rename it yet, it is empty only while a writer still has it open, and the
\* state file is bad only while a writer has it open or a rename is to come.
Overlapped ==
  raced =>
    /\ stop # "no"
    /\ tmp # Absent => pc \in {"write", "rename"} \/ stop \in {"write", "rename"}
    /\ \/ tmp \in {Absent, lastState, stopState}
       \/ tmp = Empty /\ pc = "write" /\ fd["cycle"] = "tmp"
       \/ tmp = Empty /\ stop = "write" /\ fd["stop"] = "tmp"
    /\ \/ file \in {lastState, stopState}
       \/ pc = "write" /\ fd["cycle"] = "file"
       \/ stop = "write" /\ fd["stop"] = "file"
       \/ tmp # Absent

Recorded == failures = 0 => Announced /\ Alone /\ Overlapped

\* The invariant is enough for the record.
LEMMA RecordedImplies == TypeOK /\ Recorded => RecordKept
BY DEF TypeOK, Recorded, Announced, Alone, Overlapped, RecordKept

\* The states of the files are not states of health.
LEMMA Markers == Absent \notin HealthStates /\ Empty \notin HealthStates /\ Absent # Empty
BY DEF Absent, Empty, HealthStates

\* saveState in a cycle: the temporary file is opened.
LEMMA SaveRecorded ==
  ASSUME TypeOK, Recorded, failures = 0, failures' = 0, Save
  PROVE  Recorded'
<1>1. /\ pc = "save" /\ lastState' = cycle.state /\ announced' = announced /\ torn' = torn
      /\ cycle' = cycle /\ stop' = stop /\ stopState' = stopState
      /\ raced' = (raced \/ stop \in {"open", "write", "rename"})
  BY DEF Save, TakeOver, stopping, locals
<1>2. OpenTmp("cycle") /\ pc' = "write"
  BY DEF Save, DiskFails
<1>3. tmp' = Empty /\ fd'["cycle"] = "tmp"
  BY <1>2 DEF OpenTmp, TypeOK, Writers
<1>4. stop \in {"no", "open", "write", "rename", "done"}
  BY DEF TypeOK
<1>5. Announced'
  BY <1>1, <1>2 DEF Recorded, Announced
<1>6. Alone'
  BY <1>1, <1>2, <1>3 DEF Alone
<1>7. Overlapped'
  BY <1>1, <1>2, <1>3, Markers DEF Recorded, Overlapped
<1> QED
  BY <1>5, <1>6, <1>7 DEF Recorded

\* saveState in a cycle: the state is written to where the open file is now.
LEMMA SaveWriteRecorded ==
  ASSUME TypeOK, Recorded, failures = 0, failures' = 0, SaveWrite
  PROVE  Recorded'
<1>1. /\ pc = "write" /\ lastState' = lastState /\ announced' = announced /\ torn' = torn
      /\ stop' = stop /\ stopState' = stopState /\ raced' = raced
  BY DEF SaveWrite, fields, stopping, history
<1>2. WriteTmp("cycle", lastState) /\ pc' = "rename"
  BY DEF SaveWrite, DiskFails
<1>3. /\ tmp' = IF fd["cycle"] = "tmp" THEN lastState ELSE tmp
      /\ file' = IF fd["cycle"] = "file" THEN lastState ELSE file
      /\ fd'["cycle"] = "closed" /\ fd'["stop"] = fd["stop"]
  BY <1>2 DEF WriteTmp, TypeOK, Writers
<1>4. lastState \in HealthStates
  BY DEF TypeOK
<1>5. Announced'
  BY <1>1, <1>2 DEF Recorded, Announced
<1>6. Alone'
  BY <1>1, <1>2, <1>3 DEF Recorded, Alone
<1>7. Overlapped'
  BY <1>1, <1>2, <1>3, <1>4, Markers DEF Recorded, Overlapped
<1> QED
  BY <1>5, <1>6, <1>7 DEF Recorded

\* A rename, of either writer.
LEMMA RenameFiles ==
  ASSUME TypeOK, RenameTmp
  PROVE  \/ tmp = Absent /\ file' = file /\ tmp' = tmp /\ fd' = fd
         \/ /\ tmp # Absent /\ file' = tmp /\ tmp' = Absent
            /\ \A w \in Writers : fd[w] = "tmp" => fd'[w] = "file"
BY DEF RenameTmp, disk, TypeOK

\* saveState in a cycle: the rename.
LEMMA SaveRenameRecorded ==
  ASSUME TypeOK, Recorded, failures = 0, SaveRename
  PROVE  Recorded'
<1>1. /\ pc = "rename" /\ pc' = "vip" /\ lastState' = lastState /\ announced' = announced
      /\ torn' = torn /\ stop' = stop /\ stopState' = stopState /\ raced' = raced
  BY DEF SaveRename, fields, stopping, history
<1>2. \/ tmp = Absent /\ file' = file /\ tmp' = tmp /\ fd' = fd
      \/ /\ tmp # Absent /\ file' = tmp /\ tmp' = Absent
         /\ \A w \in Writers : fd[w] = "tmp" => fd'[w] = "file"
  BY RenameFiles DEF SaveRename
<1>3. "stop" \in Writers /\ lastState \in HealthStates /\ stopState \in HealthStates
  BY DEF Writers, TypeOK
<1>4. Announced'
  BY <1>1 DEF Recorded, Announced
<1>5. Alone'
  BY <1>1, <1>2, <1>3, Markers, LoadType DEF Recorded, Alone
<1>6. Overlapped'
  <2> SUFFICES ASSUME raced PROVE Overlapped'
    BY <1>1 DEF Overlapped
  <2>1. Overlapped
    BY DEF Recorded
  <2> QED
    BY <1>1, <1>2, <1>3, <2>1, Markers DEF Overlapped
<1> QED
  BY <1>4, <1>5, <1>6 DEF Recorded

\* Stop begins: when the cycle is writing, from here on the writers overlap.
LEMMA StopBeginRecorded ==
  ASSUME TypeOK, Recorded, failures = 0, StopBegin
  PROVE  Recorded'
<1>1. /\ stop = "no" /\ stop' = "open" /\ stopState' = lastState
      /\ raced' = (raced \/ pc \in {"write", "rename"})
      /\ lastState' = lastState /\ announced' = announced /\ torn' = torn /\ cycle' = cycle
      /\ pc' = pc /\ file' = file /\ tmp' = tmp /\ fd' = fd
  BY DEF StopBegin, fields, disk, locals
<1>2. Announced'
  BY <1>1 DEF Recorded, Announced
<1>3. Alone'
  BY <1>1 DEF Recorded, Alone
<1>4. lastState \in HealthStates /\ ~raced
  BY <1>1 DEF TypeOK, Recorded, Overlapped
<1>5. Overlapped'
  BY <1>1, <1>4, Markers DEF Recorded, Alone, Overlapped
<1> QED
  BY <1>2, <1>3, <1>5 DEF Recorded

\* The three steps of saveState in Stop.
LEMMA StopSaveRecorded ==
  ASSUME TypeOK, Recorded, failures = 0, StopSave
  PROVE  Recorded'
<1>1. /\ stopState' = stopState /\ raced' = raced
      /\ lastState' = lastState /\ announced' = announced /\ torn' = torn /\ cycle' = cycle
      /\ pc' = pc
  BY DEF StopSave, fields, locals, history
<1>2. Announced /\ Alone /\ Overlapped
  BY DEF Recorded
<1>3. Announced'
  BY <1>1, <1>2 DEF Announced
<1>4. "stop" \in Writers /\ "cycle" \in Writers /\ "stop" # "cycle"
      /\ lastState \in HealthStates /\ stopState \in HealthStates
  BY DEF Writers, TypeOK
<1>5. CASE stop = "open" /\ OpenTmp("stop") /\ stop' = "write"
  <2>1. tmp' = Empty /\ file' = file /\ fd'["stop"] = "tmp" /\ fd'["cycle"] = fd["cycle"]
    BY <1>4, <1>5 DEF OpenTmp, TypeOK
  <2>2. Alone'
    BY <1>1, <1>2, <1>5, <2>1 DEF Alone
  <2>3. Overlapped'
    BY <1>1, <1>2, <1>5, <2>1, Markers DEF Overlapped
  <2> QED
    BY <1>3, <2>2, <2>3 DEF Recorded
<1>6. CASE stop = "write" /\ WriteTmp("stop", stopState) /\ stop' = "rename"
  <2>1. /\ tmp' = IF fd["stop"] = "tmp" THEN stopState ELSE tmp
        /\ file' = IF fd["stop"] = "file" THEN stopState ELSE file
        /\ fd'["cycle"] = fd["cycle"]
    BY <1>4, <1>6 DEF WriteTmp, TypeOK
  <2>2. Alone'
    BY <1>1, <1>2, <1>6, <2>1 DEF Alone
  <2>3. Overlapped'
    BY <1>1, <1>2, <1>4, <1>6, <2>1, Markers DEF Overlapped
  <2> QED
    BY <1>3, <2>2, <2>3 DEF Recorded
<1>7. CASE stop = "rename" /\ RenameTmp /\ stop' = "done"
  <2>1. \/ tmp = Absent /\ file' = file /\ tmp' = tmp /\ fd' = fd
        \/ /\ tmp # Absent /\ file' = tmp /\ tmp' = Absent
           /\ fd["cycle"] = "tmp" => fd'["cycle"] = "file"
    BY <1>4, <1>7, RenameFiles
  <2>2. Alone'
    BY <1>1, <1>2, <1>4, <1>7, <2>1, Markers, LoadType DEF Alone
  <2>3. Overlapped'
    BY <1>1, <1>2, <1>4, <1>7, <2>1, Markers DEF Overlapped
  <2> QED
    BY <1>3, <2>2, <2>3 DEF Recorded
<1> QED
  BY <1>5, <1>6, <1>7 DEF StopSave

\* A new process: what it finds in the file is what the last one announced,
\* unless that one died in the middle of saving.
LEMMA RestartRecorded ==
  ASSUME TypeOK, Recorded, failures = 0, Restart
  PROVE  Recorded'
<1>1. /\ lastState' = loadState(file) /\ file' = file /\ announced' = announced
      /\ pc' = "idle" /\ stop' = "no" /\ raced' = FALSE
      /\ torn' = (torn \/ raced \/ pc \in {"save", "write", "rename"})
  BY DEF Restart
<1>2. Announced'
  BY <1>1 DEF Recorded, Announced, Alone
<1>3. Alone' /\ Overlapped'
  BY <1>1 DEF Alone, Overlapped
<1> QED
  BY <1>2, <1>3 DEF Recorded

\* Every step keeps the record.
LEMMA RecordedStep == TypeOK /\ TypeOK' /\ Recorded /\ [Next]_vars => Recorded'
<1> SUFFICES ASSUME TypeOK, TypeOK', Recorded, [Next]_vars, failures' = 0 PROVE Recorded'
  BY DEF Recorded
<1>1. failures = 0
  <2>1. failures \in Nat
    BY StateAlertParameters DEF TypeOK
  <2>2. failures' \in {failures, failures + 1}
    BY DEF Next, Step, Observe, Dispatch, Save, SaveWrite, SaveRename, CheckVIP, AlertVIPLoss,
       Tick, StopBegin, StopSave, Restart, DiskFails, budgets, vars
  <2> QED
    BY <2>1, <2>2
<1>2. ASSUME NEW c \in Cycles, Observe(c) PROVE Recorded'
  <2>1. /\ pc = "idle" /\ pc' \in {"dispatch", "vip"} /\ lastState' = lastState
        /\ file' = file /\ tmp' = tmp /\ fd' = fd
        /\ stop' = stop /\ stopState' = stopState
        /\ announced' = announced /\ raced' = raced /\ torn' = torn
    BY <1>2 DEF Observe, disk, stopping
  <2> QED
    BY <1>1, <2>1 DEF Recorded, Announced, Alone, Overlapped
<1>3. CASE Dispatch
  <2>1. /\ pc = "dispatch" /\ pc' = "save" /\ lastState' = lastState /\ cycle' = cycle
        /\ file' = file /\ tmp' = tmp /\ fd' = fd
        /\ stop' = stop /\ stopState' = stopState
        /\ announced' = cycle.state /\ raced' = raced /\ torn' = torn
    BY <1>3 DEF Dispatch, fields, disk, locals, stopping
  <2> QED
    BY <1>1, <2>1 DEF Recorded, Announced, Alone, Overlapped
<1>4. CASE CheckVIP
  <2>1. /\ pc = "vip" /\ pc' = "idle" /\ lastState' = lastState
        /\ file' = file /\ tmp' = tmp /\ fd' = fd
        /\ stop' = stop /\ stopState' = stopState
        /\ announced' = announced /\ raced' = raced /\ torn' = torn
    BY <1>4 DEF CheckVIP, disk, stopping, history
  <2> QED
    BY <1>1, <2>1 DEF Recorded, Announced, Alone, Overlapped
<1>5. CASE Tick \/ UNCHANGED vars
  <2>1. /\ pc' = pc /\ lastState' = lastState /\ cycle' = cycle
        /\ file' = file /\ tmp' = tmp /\ fd' = fd
        /\ stop' = stop /\ stopState' = stopState
        /\ announced' = announced /\ raced' = raced /\ torn' = torn
    BY <1>5 DEF Tick, vars, fields, disk, locals, stopping, history
  <2> QED
    BY <1>1, <2>1 DEF Recorded, Announced, Alone, Overlapped
<1> QED
  BY <1>1, <1>2, <1>3, <1>4, <1>5, SaveRecorded, SaveWriteRecorded, SaveRenameRecorded,
     StopBeginRecorded, StopSaveRecorded, RestartRecorded DEF Next, Step

\* Between cycles the file restores the announced state, across any number of
\* restarts; and when Stop and a cycle were in saveState together, the file
\* holds what one of the two had to write, never an empty or an older state.
THEOREM RecordIsKept == Spec => []RecordKept
<1>1. Init => Recorded
  BY DEF Init, Recorded, Announced, Alone, Overlapped, loadState, Absent, HealthStates
<1> QED
  BY <1>1, RecordedStep, RecordedImplies, StateTypeCorrect, PTL DEF Spec

-----------------------------------------------------------------------------
(* The VIP loss alert.                                                     *)

\* A HEALTHY cycle expects the role it reads, or MASTER when nothing is in its way.
LEMMA PredictedRole ==
  ASSUME NEW c \in Cycles, c.state = "HEALTHY"
  PROVE  /\ Predicted(c) = "MASTER" <=> c.carp = "MASTER" \/ Unopposed(c)
         /\ Predicted(c) = "BACKUP" => c.carp = "BACKUP" /\ ~Unopposed(c)
<1>1. /\ Advskew \in Nat /\ Effectives \subseteq Nat /\ Demotions \subseteq Nat
      /\ c.best \in Effectives \cup {NoPeer} /\ c.demotion \in Demotions
  BY StateAlertParameters DEF Cycles
<1>2. myEffective(c, TRUE) = Advskew + c.demotion
  BY DEF myEffective
<1>3. NoPeer \notin Effectives
  BY <1>1 DEF NoPeer
<1>4. (c.best = NoPeer \/ c.best > Advskew + c.demotion) <=>
        (c.best \in Effectives => c.best > Advskew + c.demotion)
  BY <1>1, <1>3
<1>5. Predicts(c) /\ c.skewRead /\ (c.best = NoPeer \/ c.best > myEffective(c, TRUE)) <=>
        Unopposed(c)
  BY <1>2, <1>4 DEF Predicts, Unopposed
<1>6. Predicted(c) = IF Unopposed(c) THEN "MASTER" ELSE c.carp
  BY <1>5 DEF Predicted
<1> QED
  BY <1>6

\* Inside a cycle the expected role is the prediction made at its beginning, and
\* what is remembered is the role of the last HEALTHY cycle, read or claimed.
RoleExpected ==
  /\ pc # "idle" => notificationCarp = Predicted(cycle)
  /\ wasMaster <=> role \in {"master", "claimed"}

\* The end of a cycle remembers the role of a HEALTHY one.
LEMMA RoleRemembered ==
  ASSUME TypeOK, RoleExpected, CheckVIP
  PROVE  RoleExpected'
<1>1. /\ cycle \in Cycles /\ wasMaster \in BOOLEAN /\ notificationCarp = Predicted(cycle)
      /\ wasMaster <=> role \in {"master", "claimed"}
  BY DEF TypeOK, RoleExpected, CheckVIP
<1>2. /\ pc' = "idle"
      /\ wasMaster' = IF cycle.state = "HEALTHY" THEN notificationCarp = "MASTER" ELSE wasMaster
      /\ role' = IF cycle.state # "HEALTHY" THEN role
                 ELSE IF cycle.carp = "MASTER" THEN "master"
                 ELSE IF Unopposed(cycle) THEN "claimed" ELSE "neither"
  BY DEF CheckVIP, MasterAfter
<1>3. CASE cycle.state = "HEALTHY"
  <2>1. notificationCarp = "MASTER" <=> cycle.carp = "MASTER" \/ Unopposed(cycle)
    BY <1>1, <1>3, PredictedRole
  <2>2. role' \in {"master", "claimed"} <=> cycle.carp = "MASTER" \/ Unopposed(cycle)
    BY <1>2, <1>3
  <2>3. wasMaster' <=> notificationCarp = "MASTER"
    BY <1>2, <1>3
  <2> QED
    BY <1>2, <2>1, <2>2, <2>3 DEF RoleExpected
<1>4. CASE cycle.state # "HEALTHY"
  BY <1>1, <1>2, <1>4 DEF RoleExpected
<1> QED
  BY <1>3, <1>4

LEMMA RoleStep == TypeOK /\ RoleExpected /\ [Next]_vars => RoleExpected'
<1> SUFFICES ASSUME TypeOK, RoleExpected, [Next]_vars PROVE RoleExpected'
  OBVIOUS
<1>1. ASSUME NEW c \in Cycles, Observe(c) PROVE RoleExpected'
  <2>1. notificationCarp' = Predicted(c) /\ cycle' = c /\ wasMaster' = wasMaster /\ role' = role
    BY <1>1 DEF Observe
  <2> QED
    BY <2>1 DEF RoleExpected
<1>2. CASE Dispatch \/ Save \/ SaveWrite \/ SaveRename
  <2>1. /\ pc # "idle" /\ cycle' = cycle /\ notificationCarp' = notificationCarp
        /\ wasMaster' = wasMaster /\ role' = role
    BY <1>2 DEF Dispatch, Save, TakeOver, SaveWrite, SaveRename, fields, locals
  <2> QED
    BY <2>1 DEF RoleExpected
<1>3. CASE CheckVIP
  BY <1>3, RoleRemembered
<1>4. CASE Restart
  BY <1>4 DEF Restart, RoleExpected
<1>5. CASE Tick \/ StopBegin \/ StopSave \/ UNCHANGED vars
  <2>1. /\ pc' = pc /\ cycle' = cycle /\ notificationCarp' = notificationCarp
        /\ wasMaster' = wasMaster /\ role' = role
    BY <1>5 DEF Tick, StopBegin, StopSave, fields, locals, vars
  <2> QED
    BY <2>1 DEF RoleExpected
<1> QED
  BY <1>1, <1>2, <1>3, <1>4, <1>5 DEF Next, Step

\* The VIP loss alert is about a role that this process read, or claimed with no
\* healthy peer in its way, in its last HEALTHY cycle, and that it neither reads
\* nor could claim now: whatever cycles of other states, reloads of the mode,
\* Stops and restarts lie between, an older role is forgotten.
THEOREM VIPLossHasItsCause == Spec => VIPLossHasCause
<1>1. Init => RoleExpected
  BY DEF Init, RoleExpected
<1>2. TypeOK /\ RoleExpected =>
        [CheckVIP /\ alert'.sent =>
           /\ role \in {"master", "claimed"}
           /\ cycle.carp = "BACKUP" /\ ~Unopposed(cycle)]_vars
  <2> SUFFICES ASSUME TypeOK, RoleExpected, CheckVIP, alert'.sent
               PROVE  /\ role \in {"master", "claimed"}
                      /\ cycle.carp = "BACKUP" /\ ~Unopposed(cycle)
    OBVIOUS
  <2>1. MayHaveLostVIP
    BY NoAlertType DEF CheckVIP, AlertVIPLoss
  <2>2. cycle \in Cycles /\ cycle.state = "HEALTHY" /\ Predicted(cycle) = "BACKUP"
    BY <2>1 DEF TypeOK, RoleExpected, CheckVIP, MayHaveLostVIP
  <2>3. role \in {"master", "claimed"}
    BY <2>1 DEF RoleExpected, MayHaveLostVIP
  <2> QED
    BY <2>2, <2>3, PredictedRole
<1> QED
  BY <1>1, <1>2, RoleStep, StateTypeCorrect, PTL DEF Spec, VIPLossHasCause
=============================================================================
