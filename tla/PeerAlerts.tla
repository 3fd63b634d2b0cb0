----------------------------- MODULE PeerAlerts -----------------------------
(***************************************************************************)
(* The alerts about peers: peerTracker (internal/agent/peer_tracker.go),   *)
(* the switch over its verdicts at the end of runOnce                      *)
(* (internal/agent/runner.go) and DispatchPeer with its cooldown           *)
(* (internal/notify/event.go).                                             *)
(*                                                                         *)
(* A poll result is what CheckPeer returns, as far as the alerts read it.  *)
(* A failed heartbeat has a severity; one that was answered with an error  *)
(* status or an unreadable body has none.  Time passes in ticks.           *)
(***************************************************************************)
EXTENDS Integers, Cooldown

CONSTANTS
  Peers,      \* addresses of the configured peers
  Results,    \* poll results that may occur
  Threshold,  \* peerDownThreshold
  Duration    \* notify.cooldown, in ticks

Severities == {"None", "HostDown", "AgentOnly", "Critical"}
PollResults == [OK : BOOLEAN, Severity : Severities, Carp : {"", "MASTER", "BACKUP", "UNKNOWN"}]

DownStatuses == {"Unreachable", "HostDown", "AgentOnly", "Critical"}
Statuses == DownStatuses \cup {"Recovered"}

\* Only an answered heartbeat carries a role, and it has no severity.
ASSUME ResultsAssumption ==
  /\ Results # {} /\ Results \subseteq PollResults
  /\ \A r \in Results : (r.OK => r.Severity = "None" /\ r.Carp # "") /\ (~r.OK => r.Carp = "")

\* Without peers there is nothing to track.
ASSUME AlertParameters ==
  Peers # {} /\ Threshold \in Nat \ {0} /\ Duration \in Nat \ {0}

VARIABLES
  \* the maps of peerTracker; absent keys are "unseen", 0 and ""
  lastOK, downCount, lastCarp, lastStatus,
  \* Cooldown.lastSent, for the keys "peer:<ip>:<status>"
  lastSent,
  \* history: the verdict of the last poll, its result per peer, failures in a
  \* row per peer (up to Threshold), and the last DOWN or UP edge per peer
  event, polled, failRun, edge

tracker == <<lastOK, downCount, lastCarp, lastStatus>>
vars == <<tracker, lastSent, event, polled, failRun, edge>>

NoEvent == [kind |-> "none", ip |-> CHOOSE p \in Peers : TRUE,
            status |-> "Recovered", delivered |-> FALSE]
NoPoll == [OK |-> FALSE, Severity |-> "None", Carp |-> ""]

Init ==
  /\ lastOK = [p \in Peers |-> "unseen"]
  /\ downCount = [p \in Peers |-> 0]
  /\ lastCarp = [p \in Peers |-> ""]
  /\ lastStatus = [p \in Peers |-> ""]
  /\ lastSent = [k \in Peers \X Statuses |-> Never]
  /\ event = NoEvent
  /\ polled = [p \in Peers |-> NoPoll]
  /\ failRun = [p \in Peers |-> 0]
  /\ edge = [p \in Peers |-> "none"]

-----------------------------------------------------------------------------
(* peerTracker.Update.  The counter keeps growing while a peer stays down; *)
(* only its comparison with the threshold is ever used, so it stops there. *)

Counted(p) == IF downCount[p] < Threshold THEN downCount[p] + 1 ELSE Threshold

\* Variant: the first failed poll is an outage.
WentDownAtOnce(p, ok) == ~ok /\ lastOK[p] = "up"

WentDown(p, ok) == ~ok /\ lastOK[p] = "up" /\ Counted(p) >= Threshold

\* Variant: every answer of a known peer is a recovery.
CameUpAgain(p, ok) == ok /\ lastOK[p] # "unseen"

\* A peer first seen as reachable is not a recovery.
CameUp(p, ok) == ok /\ lastOK[p] = "down"

Update(p, ok) ==
  /\ downCount' = [downCount EXCEPT ![p] = IF ok \/ WentDown(p, ok) THEN 0 ELSE Counted(p)]
  /\ lastOK' = [lastOK EXCEPT ![p] =
                  IF ok THEN "up"
                  ELSE IF lastOK[p] = "unseen" \/ WentDown(p, ok) THEN "down" ELSE @]

\* The status text of a failed poll.
StatusOf(r) == IF r.Severity = "None" THEN "Unreachable" ELSE r.Severity

\* Variant: an answer does not forget the status.
StatusAfterUpdateKept(p, ok) == lastStatus[p]

\* lastStatus as Update leaves it: an answer forgets it.
StatusAfterUpdate(p, ok) == IF ok THEN "" ELSE lastStatus[p]

\* The switch of runOnce: which alert this poll asks for.
Verdict(p, r) ==
  LET known == StatusAfterUpdate(p, r.OK)
  IN IF WentDown(p, r.OK) THEN "wentDown"
     ELSE IF CameUp(p, r.OK) THEN "cameUp"
     ELSE IF ~r.OK /\ known # "" /\ StatusOf(r) # known THEN "changed"
     ELSE IF ~r.OK /\ r.Severity = "Critical" THEN "critical"
     ELSE "none"

\* Variant: every alert is remembered as the peer's status.
NewStatusOfAnyAlert(p, r, kind) ==
  IF kind = "none" THEN StatusAfterUpdate(p, r.OK)
  ELSE IF kind = "cameUp" THEN "Recovered" ELSE StatusOf(r)

\* lastStatus after the switch: an outage and a change of its classification set
\* it; a recovery clears it, as Update already has.
NewStatus(p, r, kind) ==
  IF kind \in {"wentDown", "changed"} THEN StatusOf(r) ELSE StatusAfterUpdate(p, r.OK)

\* DispatchPeer: the key is the pair of peer and status.
DispatchPeer(p, kind, status) ==
  /\ event' = [kind |-> kind, ip |-> p, status |-> status,
               delivered |-> Allow(lastSent, <<p, status>>, Duration)]
  /\ lastSent' = AfterAllow(lastSent, <<p, status>>, Duration)

\* The body of the loop over peerHealths, for one peer.
Poll(p, r) ==
  LET kind == Verdict(p, r)
      status == IF kind = "cameUp" THEN "Recovered" ELSE StatusOf(r)
  IN /\ lastCarp' = IF r.Carp = "" THEN lastCarp ELSE [lastCarp EXCEPT ![p] = r.Carp]
     /\ Update(p, r.OK)
     /\ lastStatus' = [lastStatus EXCEPT ![p] = NewStatus(p, r, kind)]
     /\ \/ kind # "none" /\ DispatchPeer(p, kind, status)
        \/ kind = "none" /\ event' = NoEvent /\ UNCHANGED lastSent
     /\ polled' = [polled EXCEPT ![p] = r]
     /\ failRun' = [failRun EXCEPT ![p] = IF r.OK THEN 0
                                          ELSE IF @ < Threshold THEN @ + 1 ELSE @]
     /\ edge' = [edge EXCEPT ![p] = IF kind \in {"wentDown", "cameUp"} THEN kind ELSE @]

Tick ==
  /\ lastSent' = Aged(lastSent, Duration)
  /\ event' = NoEvent
  /\ UNCHANGED <<tracker, polled, failRun, edge>>

\* A new process starts with empty maps.
Restart ==
  /\ lastOK' = [p \in Peers |-> "unseen"]
  /\ downCount' = [p \in Peers |-> 0]
  /\ lastCarp' = [p \in Peers |-> ""]
  /\ lastStatus' = [p \in Peers |-> ""]
  /\ lastSent' = [k \in Peers \X Statuses |-> Never]
  /\ event' = NoEvent
  /\ polled' = [p \in Peers |-> NoPoll]
  /\ failRun' = [p \in Peers |-> 0]
  /\ edge' = [p \in Peers |-> "none"]

PollSome(p) == \E r \in Results : Poll(p, r)

Next == (\E p \in Peers : PollSome(p)) \/ Tick \/ Restart

Spec == Init /\ [][Next]_vars

\* The ticker polls every peer again and again, and time passes.  It is assumed
\* that no cycle hangs (see Lifecycle).
FairSpec == Spec /\ WF_vars(Tick) /\ \A p \in Peers : WF_vars(PollSome(p))

-----------------------------------------------------------------------------
(* Properties.                                                             *)

\* Every variable keeps its type; every alert carries one of the known statuses.
TypeOK ==
  /\ lastOK \in [Peers -> {"unseen", "up", "down"}]
  /\ downCount \in [Peers -> 0..Threshold]
  /\ lastCarp \in [Peers -> {"", "MASTER", "BACKUP", "UNKNOWN"}]
  /\ lastStatus \in [Peers -> DownStatuses \cup {""}]
  /\ lastSent \in [Peers \X Statuses -> Ages(Duration)]
  /\ event \in [kind : {"none", "wentDown", "cameUp", "changed", "critical"},
                ip : Peers, status : Statuses, delivered : BOOLEAN]
  /\ polled \in [Peers -> PollResults]
  /\ failRun \in [Peers -> 0..Threshold]
  /\ edge \in [Peers -> {"none", "wentDown", "cameUp"}]

\* A peer is declared DOWN only after Threshold failed polls in a row, and is
\* DOWN then: an outage is neither declared on a blip nor swallowed.  Before
\* that only a dead DNS service is reported, which is not put off.
DownIsConfirmed ==
  /\ event.kind \notin {"none", "cameUp", "critical"} => failRun[event.ip] >= Threshold
  /\ event.kind = "critical" => polled[event.ip].Severity = "Critical"
  /\ \A p \in Peers : lastOK[p] = "up" => failRun[p] < Threshold

\* The DOWN and UP alerts of a peer alternate: no outage is declared twice, and
\* no recovery is announced twice.
EdgesAlternate ==
  [][event'.kind \in {"wentDown", "cameUp"} => edge[event'.ip] # event'.kind]_vars

\* A status is remembered only for a peer that was declared DOWN, the operator
\* has been told that very status, and it is the status of the last poll.
StatusIsTold ==
  \A p \in Peers : lastStatus[p] # "" =>
    /\ edge[p] = "wentDown"
    /\ lastOK[p] = "down"
    /\ lastSent[<<p, lastStatus[p]>>] # Never
    /\ lastStatus[p] = StatusOf(polled[p])

\* A peer that keeps failing with a dead DNS service is reported again and
\* again, also when it was down before the agent started.
CriticalKeepsRinging ==
  \A p \in Peers :
    <>[](~polled[p].OK /\ polled[p].Severity = "Critical") =>
      []<>(event.ip = p /\ event.status = "Critical" /\ event.delivered)
=============================================================================
