---------------------------- MODULE StateAlerts -----------------------------
(***************************************************************************)
(* The alerts about the node itself and the state that survives a restart: *)
(* the notification debounce, the prediction of the CARP role, the state   *)
(* change alert, the state file and the VIP loss alert, all in runOnce     *)
(* (internal/agent/runner.go), with saveState and loadState                *)
(* (internal/agent/state_file.go) and the dispatchers of                   *)
(* internal/notify/event.go.                                               *)
(*                                                                         *)
(* A cycle is taken here from the point where the health state is final    *)
(* (a held node is UNHEALTHY) and the CARP state has been refreshed.  Of   *)
(* the peers only the best effective advskew among the reachable HEALTHY   *)
(* ones matters.  The process may be killed between any two steps.         *)
(*                                                                         *)
(* saveState is taken apart: it truncates and fills path.tmp and renames   *)
(* it.  A cycle and Stop, in two goroutines, may both be inside it, and    *)
(* the temporary file of one is then the temporary file of the other.      *)
(***************************************************************************)
EXTENDS Integers, Cooldown

CONSTANTS
  Confirm,        \* notify.confirm as configured
  Duration,       \* notify.cooldown, in ticks
  VIPLossAlert,   \* notify.vip_loss_alert
  Modes,          \* policy modes a cycle may run under
  Advskew,        \* advskew of the local VHID
  States,         \* health states a cycle may end in
  Carps,          \* CARP states a cycle may see
  Effectives,     \* best effective advskew a healthy peer may report
  Demotions,      \* demotion the kernel may report to a cycle
  MaxRestarts,    \* bound on process restarts
  MaxFailures     \* bound on failing commands and file writes

HealthStates == {"HEALTHY", "DEGRADED", "UNHEALTHY"}
CarpStates == {"MASTER", "BACKUP", "UNKNOWN"}
NoPeer == -1
Absent == "absent"    \* no such file
Empty == "empty"      \* a file truncated and not yet written
Writers == {"cycle", "stop"}

ASSUME StateAlertParameters ==
  /\ Confirm \in Nat /\ Duration \in Nat \ {0}
  /\ VIPLossAlert \in BOOLEAN
  /\ Modes \subseteq {"sticky", "preempt"} /\ Modes # {}
  /\ States \subseteq HealthStates /\ "HEALTHY" \in States
  /\ Carps \subseteq CarpStates /\ Carps # {}
  /\ Advskew \in Nat /\ Effectives \subseteq Nat
  /\ Demotions \subseteq Nat /\ Demotions # {}
  /\ MaxRestarts \in Nat /\ MaxFailures \in Nat

\* notify.confirm, where 0 is read as "key omitted".
DefaultNotifyConfirm == 3
notifyConfirm == IF Confirm = 0 THEN DefaultNotifyConfirm ELSE Confirm

Transitions == {t \in HealthStates \X HealthStates : t[1] # t[2]}
VIPLoss == <<"vip", "loss">>
Keys == Transitions \cup {VIPLoss}

\* What a cycle sees: its mode and state, the refreshed CARP state, the best
\* effective advskew of a healthy peer, the demotion in the kernel, and whether
\* GetAdvskew worked for the prediction.  Only a HEALTHY BACKUP in preempt mode
\* predicts, and only it looks at the peers again.
Predicts(c) == c.mode = "preempt" /\ c.state = "HEALTHY" /\ c.carp = "BACKUP"

Cycles ==
  {c \in [mode : Modes, state : States, carp : Carps, best : Effectives \cup {NoPeer},
          demotion : Demotions, skewRead : BOOLEAN] :
     Predicts(c) \/ (c.best = NoPeer /\ c.skewRead)}

VARIABLES
  \* fields of Runner
  lastState, confirmState, confirmCount, wasMaster,
  lastSent,       \* Cooldown.lastSent
  file, tmp,      \* contents of agent.state_file and of its temporary file
  fd,             \* where the file that a writer has open is now
  pc, cycle, notificationCarp,   \* the cycle in progress
  stop, stopState,               \* Stop: control point, and the state it saves
  restarts, failures,
  \* history: how long the state has held (up to the confirmation), the state
  \* last announced, the alert of the last step, whether the two writers of this
  \* process have overlapped, whether a process died between an announcement and
  \* its record or after an overlap, and whether the last HEALTHY cycle of this
  \* process read MASTER, or BACKUP with no peer in its way, or neither
  heldFor, announced, alert, raced, torn, role

fields == <<lastState, confirmState, confirmCount, wasMaster>>
disk == <<file, tmp, fd>>
locals == <<cycle, notificationCarp>>
stopping == <<stop, stopState>>
budgets == <<restarts, failures>>
history == <<heldFor, announced, raced, torn>>
vars == <<fields, lastSent, disk, pc, locals, stopping, budgets, history, alert, role>>

NoAlert == [key |-> VIPLoss, sent |-> FALSE, delivered |-> FALSE]

\* Between cycles only the state of the last one is kept, for the history.
Over(state) == [mode |-> CHOOSE m \in Modes : TRUE, state |-> state,
                carp |-> CHOOSE c \in Carps : TRUE, best |-> NoPeer,
                demotion |-> CHOOSE d \in Demotions : TRUE, skewRead |-> TRUE]

\* Variant: the contents are taken as they are.
loadStateUnchecked(contents) == contents

\* loadState: a file that is missing, empty or unreadable leaves the default.
loadState(contents) == IF contents \in HealthStates THEN contents ELSE "HEALTHY"

Init ==
  /\ file = Absent /\ tmp = Absent /\ fd = [w \in Writers |-> "closed"]
  /\ lastState = loadState(file)
  /\ confirmState = "HEALTHY" /\ confirmCount = 0
  /\ wasMaster = FALSE
  /\ lastSent = [k \in Keys |-> Never]
  /\ pc = "idle" /\ cycle = Over("HEALTHY") /\ notificationCarp = "UNKNOWN"
  /\ stop = "no" /\ stopState = "HEALTHY"
  /\ restarts = 0 /\ failures = 0
  /\ heldFor = 0 /\ announced = "HEALTHY" /\ alert = NoAlert
  /\ raced = FALSE /\ torn = FALSE /\ role = "neither"

-----------------------------------------------------------------------------
(* saveState: os.WriteFile opens and truncates the temporary file, writes   *)
(* and closes it; os.Rename moves it.  A file that is open is written where *)
(* it has been moved to.                                                    *)

\* Variant: the state file itself is truncated and written.
OpenInPlace(w) ==
  /\ file' = Empty
  /\ fd' = [fd EXCEPT ![w] = "file"]
  /\ UNCHANGED tmp

OpenTmp(w) ==
  /\ tmp' = Empty
  /\ fd' = [fd EXCEPT ![w] = "tmp"]
  /\ UNCHANGED file

WriteTmp(w, state) ==
  /\ tmp' = IF fd[w] = "tmp" THEN state ELSE tmp
  /\ file' = IF fd[w] = "file" THEN state ELSE file
  /\ fd' = [fd EXCEPT ![w] = "closed"]

\* The temporary file may have been moved by the other writer already: then the
\* rename fails, and its error is ignored.
RenameTmp ==
  \/ /\ tmp # Absent
     /\ file' = tmp /\ tmp' = Absent
     /\ fd' = [w \in Writers |-> IF fd[w] = "tmp" THEN "file" ELSE "closed"]
  \/ tmp = Absent /\ UNCHANGED disk

\* A step of the disk that fails, which saveState answers by giving up.
DiskFails ==
  /\ failures < MaxFailures
  /\ failures' = failures + 1
  /\ fd' = [fd EXCEPT !["cycle"] = "closed"]
  /\ UNCHANGED <<file, tmp, restarts>>

-----------------------------------------------------------------------------
\* The effective advskew of this node; a failed read counts as advskew 0.
myEffective(c, read) == (IF read THEN Advskew ELSE 0) + c.demotion

\* Step 4: a HEALTHY BACKUP expects to become MASTER when no healthy peer has
\* an equal or lower effective advskew.
Predicted(c) ==
  IF Predicts(c) /\ c.skewRead /\ (c.best = NoPeer \/ c.best > myEffective(c, TRUE))
  THEN "MASTER" ELSE c.carp

\* A healthy peer of strictly higher priority entitles it to the VIP.
PeerJustifiesMaster(c, read) == c.best # NoPeer /\ c.best < myEffective(c, read)

\* Variant: a change of state does not restart the count.
CountOfAnyState(state) ==
  IF confirmCount < notifyConfirm THEN confirmCount + 1 ELSE notifyConfirm

\* Variant: the count restarts whenever the state is not the recorded one.
CountOfRecorded(state) ==
  IF state # lastState THEN 1
  ELSE IF confirmCount < notifyConfirm THEN confirmCount + 1 ELSE notifyConfirm

\* The debounce counts the cycles spent in the current state.  Only the
\* comparison with the confirmation matters, so the count stops there.
CountOf(state) ==
  IF state # confirmState THEN 1
  ELSE IF confirmCount < notifyConfirm THEN confirmCount + 1 ELSE notifyConfirm

Observe(c) ==
  /\ pc = "idle"
  /\ \/ c.skewRead /\ UNCHANGED failures
     \/ ~c.skewRead /\ failures < MaxFailures /\ failures' = failures + 1
  /\ cycle' = c
  /\ confirmState' = c.state
  /\ confirmCount' = CountOf(c.state)
  /\ notificationCarp' = Predicted(c)
  /\ pc' = IF c.state # lastState /\ confirmCount' >= notifyConfirm THEN "dispatch" ELSE "vip"
  /\ heldFor' = IF c.state = cycle.state
                THEN IF heldFor < notifyConfirm THEN heldFor + 1 ELSE heldFor
                ELSE 1
  /\ alert' = NoAlert
  /\ UNCHANGED <<lastState, wasMaster, lastSent, disk, stopping, restarts, announced,
                 raced, torn, role>>

\* Dispatch of a state change, to all channels or to none.
Dispatch ==
  LET key == <<lastState, cycle.state>>
  IN /\ pc = "dispatch"
     /\ alert' = [key |-> key, sent |-> TRUE, delivered |-> Allow(lastSent, key, Duration)]
     /\ lastSent' = AfterAllow(lastSent, key, Duration)
     /\ announced' = cycle.state
     /\ pc' = "save"
     /\ UNCHANGED <<fields, disk, locals, stopping, budgets, heldFor, raced, torn, role>>

\* The state is taken over even when the cooldown suppressed the alert.
TakeOver ==
  /\ pc = "save"
  /\ lastState' = cycle.state
  /\ alert' = NoAlert
  /\ UNCHANGED <<confirmState, confirmCount, wasMaster, lastSent, locals, stopping,
                 heldFor, announced, torn, role>>

\* saveState in a cycle; its error is ignored.
Save ==
  /\ TakeOver
  /\ raced' = (raced \/ stop \in {"open", "write", "rename"})
  /\ \/ OpenTmp("cycle") /\ pc' = "write" /\ UNCHANGED budgets
     \/ DiskFails /\ pc' = "vip"

SaveWrite ==
  /\ pc = "write"
  /\ \/ WriteTmp("cycle", lastState) /\ pc' = "rename" /\ UNCHANGED budgets
     \/ DiskFails /\ pc' = "vip"
  /\ UNCHANGED <<fields, lastSent, locals, stopping, history, alert, role>>

SaveRename ==
  /\ pc = "rename"
  /\ RenameTmp
  /\ pc' = "vip"
  /\ UNCHANGED <<fields, lastSent, locals, stopping, budgets, history, alert, role>>

\* A role to lose, as far as the agent knows.
MayHaveLostVIP ==
  /\ VIPLossAlert
  /\ cycle.mode = "preempt"
  /\ wasMaster
  /\ notificationCarp = "BACKUP"
  /\ cycle.state = "HEALTHY"

\* The VIP loss alert, after the advskew has been read once more.
AlertVIPLoss(read) ==
  /\ MayHaveLostVIP
  /\ \/ read /\ UNCHANGED failures
     \/ ~read /\ failures < MaxFailures /\ failures' = failures + 1
  /\ \/ /\ ~PeerJustifiesMaster(cycle, read)
        /\ alert' = [key |-> VIPLoss, sent |-> TRUE,
                     delivered |-> Allow(lastSent, VIPLoss, Duration)]
        /\ lastSent' = AfterAllow(lastSent, VIPLoss, Duration)
     \/ PeerJustifiesMaster(cycle, read) /\ alert' = NoAlert /\ UNCHANGED lastSent

\* Variant: a role that is lost is not forgotten.
MasterAfterKept == wasMaster \/ (cycle.state = "HEALTHY" /\ notificationCarp = "MASTER")

\* Only a HEALTHY cycle changes what is remembered, and a prediction counts.
MasterAfter == IF cycle.state = "HEALTHY" THEN notificationCarp = "MASTER" ELSE wasMaster

\* No healthy peer stands in the way of a BACKUP that runs in preempt mode.
Unopposed(c) ==
  /\ c.mode = "preempt" /\ c.carp = "BACKUP" /\ c.skewRead
  /\ c.best \in Effectives => c.best > Advskew + c.demotion

\* The end of a cycle: the VIP loss check, then wasMaster.
CheckVIP ==
  /\ pc = "vip"
  /\ \/ \E read \in BOOLEAN : AlertVIPLoss(read)
     \/ ~MayHaveLostVIP /\ alert' = NoAlert /\ UNCHANGED <<lastSent, failures>>
  /\ wasMaster' = MasterAfter
  /\ role' = IF cycle.state # "HEALTHY" THEN role
             ELSE IF cycle.carp = "MASTER" THEN "master"
             ELSE IF Unopposed(cycle) THEN "claimed" ELSE "neither"
  /\ pc' = "idle"
  /\ cycle' = Over(cycle.state) /\ notificationCarp' = "UNKNOWN"
  /\ UNCHANGED <<lastState, confirmState, confirmCount, disk, stopping, restarts, history>>

Tick ==
  /\ lastSent' = Forgotten(Aged(lastSent, Duration), Duration)
  /\ UNCHANGED <<fields, disk, pc, locals, stopping, budgets, history, alert, role>>

\* Stop saves the state once more, once per process.  The cycle in progress goes
\* on until its end.
StopBegin ==
  /\ stop = "no"
  /\ stop' = "open" /\ stopState' = lastState
  /\ raced' = (raced \/ pc \in {"write", "rename"})
  /\ UNCHANGED <<fields, lastSent, disk, pc, locals, budgets, heldFor, announced, torn, alert,
                 role>>

StopSave ==
  /\ \/ stop = "open" /\ OpenTmp("stop") /\ stop' = "write"
     \/ stop = "write" /\ WriteTmp("stop", stopState) /\ stop' = "rename"
     \/ stop = "rename" /\ RenameTmp /\ stop' = "done"
  /\ UNCHANGED <<fields, lastSent, pc, locals, stopState, budgets, history, alert, role>>

\* The process dies, at any point, and a new one reads the state file.
Restart ==
  /\ restarts < MaxRestarts
  /\ restarts' = restarts + 1
  /\ lastState' = loadState(file)
  /\ confirmState' = "HEALTHY" /\ confirmCount' = 0
  /\ wasMaster' = FALSE
  /\ lastSent' = [k \in Keys |-> Never]
  /\ pc' = "idle" /\ cycle' = Over("HEALTHY") /\ notificationCarp' = "UNKNOWN"
  /\ fd' = [w \in Writers |-> "closed"]
  /\ stop' = "no" /\ stopState' = "HEALTHY"
  /\ heldFor' = 0 /\ alert' = NoAlert /\ role' = "neither"
  /\ torn' = (torn \/ raced \/ pc \in {"save", "write", "rename"})
  /\ raced' = FALSE
  /\ UNCHANGED <<file, tmp, failures, announced>>

Step ==
  \/ \E c \in Cycles : Observe(c)
  \/ Dispatch \/ Save \/ SaveWrite \/ SaveRename \/ CheckVIP

Next == Step \/ Tick \/ StopBegin \/ StopSave \/ Restart

Spec == Init /\ [][Next]_vars

\* The ticker keeps the cycles coming.  It is assumed that a cycle does not hang:
\* smtp.SendMail and two waits for a peer have no deadline (see Lifecycle).
FairSpec == Spec /\ WF_vars(Step)

-----------------------------------------------------------------------------
(* Properties.                                                             *)

\* Every variable keeps its type; in particular the state file never makes the
\* process start in a state that does not exist.
TypeOK ==
  /\ lastState \in HealthStates /\ confirmState \in HealthStates
  /\ confirmCount \in 0..notifyConfirm /\ wasMaster \in BOOLEAN
  /\ lastSent \in [Keys -> Ages(Duration)]
  /\ {file, tmp} \subseteq HealthStates \cup {Absent, Empty}
  /\ fd \in [Writers -> {"closed", "tmp", "file"}]
  /\ pc \in {"idle", "dispatch", "save", "write", "rename", "vip"}
  /\ cycle \in Cycles /\ notificationCarp \in CarpStates
  /\ stop \in {"no", "open", "write", "rename", "done"} /\ stopState \in HealthStates
  /\ restarts \in 0..MaxRestarts /\ failures \in 0..MaxFailures
  /\ heldFor \in 0..notifyConfirm /\ announced \in HealthStates
  /\ alert \in [key : Keys, sent : BOOLEAN, delivered : BOOLEAN]
  /\ raced \in BOOLEAN /\ torn \in BOOLEAN
  /\ role \in {"master", "claimed", "neither"}

\* A state change is announced only when the new state has held for the whole
\* confirmation, counted since the process started.
DebounceKept == alert.sent /\ alert.key \in Transitions => heldFor >= notifyConfirm

\* Between cycles the last announced state is the one the process remembers and
\* the one the file would restore, even while Stop is in the middle of saving it
\* again: across restarts an announcement is never repeated and never lost,
\* unless a write of the file failed or the process died between the
\* announcement and its record.  When Stop and a cycle were in saveState at the
\* same time, the file holds what one of the two had to write, once both are done.
RecordKept ==
  pc \in {"idle", "dispatch", "vip"} /\ failures = 0 /\ ~torn =>
    /\ lastState = announced
    /\ ~raced => loadState(file) = announced
    /\ raced /\ stop = "done" => file \in {announced, stopState}

\* The VIP loss alert is about the last HEALTHY cycle of this process, however
\* many other cycles and changes of the mode lie between: the node was MASTER
\* then, or BACKUP with no healthy peer in the way of becoming it.  Now it is
\* BACKUP with one in its way, of equal priority or of higher, or could not
\* read its own.  So a node that stays BACKUP is not reported again and again.
\* In the second case nothing was lost, though docs/usage.md says "was MASTER".
VIPLossHasCause ==
  [][CheckVIP /\ alert'.sent =>
       /\ role \in {"master", "claimed"}
       /\ cycle.carp = "BACKUP" /\ ~Unopposed(cycle)]_vars

\* A state that persists is eventually the one the process remembers as announced,
\* whatever the cooldown suppressed, however often it was restarted before, and
\* whether or not it could be written to the file.
PersistentStateRecorded ==
  \A s \in HealthStates : <>[](cycle.state = s /\ heldFor > 0) => <>[](lastState = s)

-----------------------------------------------------------------------------
(* What the documentation says and the code does not do.                   *)

\* docs/usage.md: the alert fires when a HEALTHY node that was MASTER is BACKUP
\* and no reachable healthy peer has a lower effective advskew.
VIPLossReported ==
  [][(/\ CheckVIP
      /\ cycle.mode = "preempt" /\ cycle.state = "HEALTHY" /\ cycle.skewRead
      /\ role = "master" /\ cycle.carp = "BACKUP" /\ ~PeerJustifiesMaster(cycle, TRUE))
     => alert'.sent]_vars
=============================================================================
