-------------------------- MODULE PeerAlertsProofs --------------------------
(***************************************************************************)
(* Theorems about PeerAlerts, for any set of peers, any poll results, any  *)
(* threshold and any cooldown.                                             *)
(***************************************************************************)
EXTENDS PeerAlerts, TLAPS

Kinds == {"none", "wentDown", "cameUp", "changed", "critical"}

-----------------------------------------------------------------------------
(* Facts about the operators.                                              *)

\* Sending an alert keeps the map of ages a map of ages, and leaves its key used.
LEMMA CooldownMap ==
  ASSUME NEW Key, NEW d \in Nat, NEW sent \in [Key -> Ages(d)], NEW k \in Key
  PROVE  /\ AfterAllow(sent, k, d) \in [Key -> Ages(d)]
         /\ AfterAllow(sent, k, d)[k] # Never
         /\ \A j \in Key : sent[j] # Never => AfterAllow(sent, k, d)[j] # Never
         /\ Aged(sent, d) \in [Key -> Ages(d)]
         /\ \A j \in Key : sent[j] # Never => Aged(sent, d)[j] # Never
<1> USE DEF Ages, Never
<1>1. AfterAllow(sent, k, d) \in {sent, [sent EXCEPT ![k] = 0]}
  BY DEF AfterAllow
<1>2. AfterAllow(sent, k, d) = sent => sent[k] # Never \/ Allow(sent, k, d)
  BY DEF Allow
<1>3. AfterAllow(sent, k, d)[k] # Never
  BY DEF AfterAllow, Allow
<1>4. \A age \in Ages(d) : Older(age, d) \in Ages(d) /\ (age # Never => Older(age, d) # Never)
  BY DEF Older
<1>5. Aged(sent, d) = [j \in Key |-> Older(sent[j], d)]
  BY DEF Aged
<1> QED
  BY <1>1, <1>3, <1>4, <1>5

\* A used key stays used, and a let-through alert uses its key.
LEMMA AllowMarks ==
  ASSUME NEW Key, NEW d \in Nat, NEW sent \in [Key -> Ages(d)], NEW k \in Key
  PROVE  /\ AfterAllow(sent, k, d)[k] # Never
         /\ \A j \in Key : sent[j] # Never =>
              AfterAllow(sent, k, d)[j] # Never /\ Aged(sent, d)[j] # Never
BY CooldownMap

\* A failed poll has a status to announce.
LEMMA StatusType ==
  ASSUME NEW r \in Results
  PROVE  /\ r \in PollResults /\ r.OK \in BOOLEAN
         /\ StatusOf(r) \in DownStatuses /\ StatusOf(r) # ""
BY ResultsAssumption DEF PollResults, Severities, StatusOf, DownStatuses

\* What the tracker and the switch make of one poll.
LEMMA VerdictFacts ==
  ASSUME NEW p \in Peers, NEW r \in Results
  PROVE  LET kind == Verdict(p, r)
         IN /\ kind \in Kinds
            /\ kind = "wentDown" <=> WentDown(p, r.OK)
            /\ kind = "cameUp" <=> CameUp(p, r.OK)
            /\ kind = "changed" => ~r.OK /\ lastStatus[p] # ""
            /\ kind = "critical" => r.Severity = "Critical"
            /\ ~r.OK /\ kind \notin {"wentDown", "changed"} =>
                 lastStatus[p] \in {"", StatusOf(r)}
<1> DEFINE known == StatusAfterUpdate(p, r.OK)
<1>1. r.OK \in BOOLEAN
  BY StatusType
<1>2. ~r.OK => known = lastStatus[p]
  BY DEF StatusAfterUpdate
<1>3. ~(WentDown(p, r.OK) /\ CameUp(p, r.OK))
  BY DEF WentDown, CameUp
<1>4. /\ WentDown(p, r.OK) => Verdict(p, r) = "wentDown"
      /\ CameUp(p, r.OK) => Verdict(p, r) = "cameUp"
  BY <1>3 DEF Verdict
<1>5. CASE WentDown(p, r.OK) \/ CameUp(p, r.OK)
  BY <1>1, <1>3, <1>4, <1>5 DEF Kinds, WentDown, CameUp
<1>6. CASE ~WentDown(p, r.OK) /\ ~CameUp(p, r.OK)
  <2>1. Verdict(p, r) = IF ~r.OK /\ known # "" /\ StatusOf(r) # known THEN "changed"
                        ELSE IF ~r.OK /\ r.Severity = "Critical" THEN "critical" ELSE "none"
    BY <1>6 DEF Verdict
  <2> HIDE DEF known
  <2> QED
    BY <1>1, <1>2, <1>6, <2>1 DEF Kinds
<1> QED
  BY <1>5, <1>6

-----------------------------------------------------------------------------
(* Type correctness.                                                       *)

\* The fields that a poll does not write through the cooldown.
LEMMA PollTrackerType ==
  ASSUME TypeOK, NEW p \in Peers, NEW r \in Results, Poll(p, r)
  PROVE  /\ lastOK' \in [Peers -> {"unseen", "up", "down"}]
         /\ downCount' \in [Peers -> 0..Threshold]
         /\ lastCarp' \in [Peers -> {"", "MASTER", "BACKUP", "UNKNOWN"}]
         /\ lastStatus' \in [Peers -> DownStatuses \cup {""}]
         /\ polled' \in [Peers -> PollResults]
         /\ failRun' \in [Peers -> 0..Threshold]
         /\ edge' \in [Peers -> {"none", "wentDown", "cameUp"}]
<1>1. r \in PollResults /\ StatusOf(r) \in DownStatuses
  BY StatusType
<1>9. Threshold \in Nat /\ downCount[p] \in 0..Threshold /\ failRun[p] \in 0..Threshold
  BY AlertParameters DEF TypeOK
<1>2. Counted(p) \in 0..Threshold /\ 0 \in 0..Threshold
  BY <1>9 DEF Counted
<1>3. downCount' \in [Peers -> 0..Threshold]
  BY <1>2 DEF TypeOK, Poll, Update
<1>10. lastOK' \in [Peers -> {"unseen", "up", "down"}]
  BY DEF TypeOK, Poll, Update
<1>4. lastCarp' \in [Peers -> {"", "MASTER", "BACKUP", "UNKNOWN"}]
  BY <1>1 DEF TypeOK, Poll, PollResults
<1>5. NewStatus(p, r, Verdict(p, r)) \in DownStatuses \cup {""}
  BY <1>1 DEF TypeOK, NewStatus, StatusAfterUpdate
<1>6. lastStatus' \in [Peers -> DownStatuses \cup {""}]
  BY <1>5 DEF TypeOK, Poll
<1>7. polled' \in [Peers -> PollResults] /\ edge' \in [Peers -> {"none", "wentDown", "cameUp"}]
  BY <1>1 DEF TypeOK, Poll
<1>11. (IF r.OK THEN 0 ELSE IF failRun[p] < Threshold THEN failRun[p] + 1 ELSE failRun[p])
        \in 0..Threshold
  BY <1>9
<1>8. failRun' \in [Peers -> 0..Threshold]
  BY <1>11 DEF TypeOK, Poll
<1> QED
  BY <1>3, <1>10, <1>4, <1>6, <1>7, <1>8

\* The alert of a poll and the map of ages.
LEMMA PollAlertType ==
  ASSUME TypeOK, NEW p \in Peers, NEW r \in Results, Poll(p, r)
  PROVE  /\ lastSent' \in [Peers \X Statuses -> Ages(Duration)]
         /\ event' \in [kind : Kinds, ip : Peers, status : Statuses, delivered : BOOLEAN]
<1> DEFINE kind == Verdict(p, r)
           status == IF kind = "cameUp" THEN "Recovered" ELSE StatusOf(r)
<1>1. StatusOf(r) \in DownStatuses
  BY StatusType
<1>2. status \in Statuses
  BY <1>1 DEF Statuses
<1>3. kind \in Kinds
  BY VerdictFacts
<1>4. \/ kind # "none" /\ DispatchPeer(p, kind, status)
      \/ kind = "none" /\ event' = NoEvent /\ UNCHANGED lastSent
  BY DEF Poll
<1> HIDE DEF kind, status
<1>5. CASE kind # "none" /\ DispatchPeer(p, kind, status)
  <2>1. <<p, status>> \in Peers \X Statuses
    BY <1>2
  <2>2. lastSent' \in [Peers \X Statuses -> Ages(Duration)]
    BY <1>5, <2>1, CooldownMap, AlertParameters DEF DispatchPeer, TypeOK
  <2>3. Allow(lastSent, <<p, status>>, Duration) \in BOOLEAN
    BY DEF Allow
  <2> QED
    BY <1>2, <1>3, <1>5, <2>2, <2>3 DEF DispatchPeer
<1>6. CASE kind = "none" /\ event' = NoEvent /\ UNCHANGED lastSent
  BY <1>6, AlertParameters DEF NoEvent, TypeOK, Kinds, Statuses
<1> QED
  BY <1>4, <1>5, <1>6

\* The values that a new process starts with have their types.
LEMMA FreshValues ==
  /\ NoEvent \in [kind : Kinds, ip : Peers, status : Statuses, delivered : BOOLEAN]
  /\ NoPoll \in PollResults
  /\ 0 \in 0..Threshold
  /\ Never \in Ages(Duration)
<1>1. NoEvent \in [kind : Kinds, ip : Peers, status : Statuses, delivered : BOOLEAN]
  BY AlertParameters DEF NoEvent, Kinds, Statuses
<1>2. NoPoll \in PollResults
  BY DEF NoPoll, PollResults, Severities
<1>3. 0 \in 0..Threshold
  BY AlertParameters
<1>4. Never \in Ages(Duration)
  BY AlertParameters DEF Ages, Never
<1> QED
  BY <1>1, <1>2, <1>3, <1>4

\* The types hold when a process starts.
LEMMA FreshType == Init => TypeOK
<1> SUFFICES ASSUME Init PROVE TypeOK
  OBVIOUS
<1>1. /\ lastOK \in [Peers -> {"unseen", "up", "down"}]
      /\ lastCarp \in [Peers -> {"", "MASTER", "BACKUP", "UNKNOWN"}]
      /\ lastStatus \in [Peers -> DownStatuses \cup {""}]
      /\ edge \in [Peers -> {"none", "wentDown", "cameUp"}]
  BY DEF Init
<1>2. /\ downCount \in [Peers -> 0..Threshold] /\ failRun \in [Peers -> 0..Threshold]
      /\ lastSent \in [Peers \X Statuses -> Ages(Duration)]
      /\ polled \in [Peers -> PollResults]
      /\ event \in [kind : Kinds, ip : Peers, status : Statuses, delivered : BOOLEAN]
  BY FreshValues DEF Init
<1> QED
  BY <1>1, <1>2 DEF TypeOK, Kinds

\* Every step keeps the types.
LEMMA TypeStep == TypeOK /\ [Next]_vars => TypeOK'
<1> SUFFICES ASSUME TypeOK, [Next]_vars PROVE TypeOK'
  OBVIOUS
<1>1. ASSUME NEW p \in Peers, NEW r \in Results, Poll(p, r) PROVE TypeOK'
  BY <1>1, PollTrackerType, PollAlertType DEF TypeOK, Kinds
<1>2. CASE Tick
  <2>1. lastSent' \in [Peers \X Statuses -> Ages(Duration)]
    <3>1. PICK p \in Peers : TRUE
      BY AlertParameters
    <3>2. <<p, "Recovered">> \in Peers \X Statuses
      BY DEF Statuses
    <3> QED
      BY <1>2, <3>2, CooldownMap, AlertParameters DEF Tick, TypeOK
  <2>2. event' \in [kind : Kinds, ip : Peers, status : Statuses, delivered : BOOLEAN]
    BY <1>2, AlertParameters DEF Tick, NoEvent, Kinds, Statuses
  <2> QED
    BY <1>2, <2>1, <2>2 DEF Tick, TypeOK, tracker, Kinds
<1>3. CASE Restart
  BY <1>3, FreshValues DEF Restart, TypeOK, Kinds
<1>4. CASE UNCHANGED vars
  BY <1>4 DEF vars, tracker, TypeOK
<1> QED
  BY <1>1, <1>2, <1>3, <1>4 DEF Next, PollSome

\* Every variable of the tracker, the cooldown and the history keeps its type.
THEOREM PeerTypeCorrect == Spec => []TypeOK
BY FreshType, TypeStep, PTL DEF Spec

-----------------------------------------------------------------------------
(* The tracker against the history.  While a peer is believed up the       *)
(* counter is the number of failures in a row, and it is below the         *)
(* threshold; what the tracker believes and the last edge agree; and the   *)
(* peer of a remembered status has failed for at least the threshold.      *)

BeliefTracked(p) ==
  /\ lastOK[p] = "unseen" => edge[p] = "none"
  /\ lastOK[p] = "up" =>
       failRun[p] < Threshold /\ downCount[p] = failRun[p] /\ edge[p] # "wentDown"
  /\ lastOK[p] = "down" => edge[p] # "cameUp"

StatusTracked(p) ==
  lastStatus[p] # "" =>
    /\ edge[p] = "wentDown" /\ lastOK[p] = "down"
    /\ lastSent[<<p, lastStatus[p]>>] # Never
    /\ lastStatus[p] = StatusOf(polled[p])
    /\ failRun[p] >= Threshold

EventTracked ==
  /\ event.kind \in {"wentDown", "changed"} => failRun[event.ip] >= Threshold
  /\ event.kind = "critical" => polled[event.ip].Severity = "Critical"

Tracked == (\A p \in Peers : BeliefTracked(p) /\ StatusTracked(p)) /\ EventTracked

\* The fields of one peer, element by element.
LEMMA FieldTypes ==
  ASSUME TypeOK, NEW p \in Peers
  PROVE  /\ lastOK[p] \in {"unseen", "up", "down"} /\ edge[p] \in {"none", "wentDown", "cameUp"}
         /\ downCount[p] \in Nat /\ failRun[p] \in Nat /\ Threshold \in Nat \ {0}
         /\ lastStatus[p] \in DownStatuses \cup {""}
<1>1. Threshold \in Nat \ {0}
  BY AlertParameters
<1>2. downCount[p] \in 0..Threshold /\ failRun[p] \in 0..Threshold
  BY DEF TypeOK
<1>3. lastOK[p] \in {"unseen", "up", "down"} /\ edge[p] \in {"none", "wentDown", "cameUp"}
  BY DEF TypeOK
<1>4. lastStatus[p] \in DownStatuses \cup {""}
  BY DEF TypeOK
<1>5. downCount[p] \in Nat /\ failRun[p] \in Nat
  BY <1>1, <1>2
<1> QED
  BY <1>1, <1>3, <1>4, <1>5

\* A poll of p writes the fields of p, and only those.
LEMMA PollFields ==
  ASSUME TypeOK, NEW p \in Peers, NEW r \in Results, Poll(p, r), NEW kind, kind = Verdict(p, r)
  PROVE  /\ downCount'[p] = IF r.OK \/ WentDown(p, r.OK) THEN 0 ELSE Counted(p)
         /\ lastOK'[p] = IF r.OK THEN "up"
                         ELSE IF lastOK[p] = "unseen" \/ WentDown(p, r.OK) THEN "down"
                              ELSE lastOK[p]
         /\ failRun'[p] = IF r.OK THEN 0
                          ELSE IF failRun[p] < Threshold THEN failRun[p] + 1 ELSE failRun[p]
         /\ edge'[p] = IF kind \in {"wentDown", "cameUp"} THEN kind ELSE edge[p]
         /\ polled'[p] = r
         /\ lastStatus'[p] = NewStatus(p, r, kind)
         /\ \A q \in Peers : q # p =>
              /\ lastOK'[q] = lastOK[q] /\ downCount'[q] = downCount[q]
              /\ edge'[q] = edge[q] /\ lastStatus'[q] = lastStatus[q]
              /\ polled'[q] = polled[q] /\ failRun'[q] = failRun[q]
<1> USE DEF TypeOK
<1>1. /\ downCount'[p] = IF r.OK \/ WentDown(p, r.OK) THEN 0 ELSE Counted(p)
      /\ \A q \in Peers : q # p => downCount'[q] = downCount[q]
  BY DEF Poll, Update
<1>2. /\ lastOK'[p] = IF r.OK THEN "up"
                      ELSE IF lastOK[p] = "unseen" \/ WentDown(p, r.OK) THEN "down"
                           ELSE lastOK[p]
      /\ \A q \in Peers : q # p => lastOK'[q] = lastOK[q]
  BY DEF Poll, Update
<1>3. /\ failRun'[p] = IF r.OK THEN 0
                       ELSE IF failRun[p] < Threshold THEN failRun[p] + 1 ELSE failRun[p]
      /\ \A q \in Peers : q # p => failRun'[q] = failRun[q]
  BY DEF Poll
<1>4. /\ edge'[p] = IF kind \in {"wentDown", "cameUp"} THEN kind ELSE edge[p]
      /\ \A q \in Peers : q # p => edge'[q] = edge[q]
  BY DEF Poll
<1>5. polled'[p] = r /\ \A q \in Peers : q # p => polled'[q] = polled[q]
  BY DEF Poll
<1>6. /\ lastStatus'[p] = NewStatus(p, r, kind)
      /\ \A q \in Peers : q # p => lastStatus'[q] = lastStatus[q]
  BY DEF Poll
<1> QED
  BY <1>1, <1>2, <1>3, <1>4, <1>5, <1>6

\* The alert of a poll carries the verdict and the polled peer, and the cooldown
\* takes a time for the pair of peer and status only.
LEMMA PollAlert ==
  ASSUME NEW p \in Peers, NEW r \in Results, Poll(p, r), NEW kind, kind = Verdict(p, r)
  PROVE  /\ event'.kind = kind /\ (kind # "none" => event'.ip = p)
         /\ lastSent' = IF kind = "none" THEN lastSent
                        ELSE AfterAllow(lastSent, <<p, IF kind = "cameUp" THEN "Recovered"
                                                       ELSE StatusOf(r)>>, Duration)
<1>1. CASE kind = "none"
  <2>1. event' = NoEvent /\ lastSent' = lastSent
    BY <1>1 DEF Poll
  <2> QED
    BY <1>1, <2>1 DEF NoEvent
<1>2. CASE kind # "none"
  <2>1. DispatchPeer(p, kind, IF kind = "cameUp" THEN "Recovered" ELSE StatusOf(r))
    BY <1>2 DEF Poll
  <2> QED
    BY <1>2, <2>1 DEF DispatchPeer
<1> QED
  BY <1>1, <1>2

\* A poll of p and the belief about p.
LEMMA BeliefStep ==
  ASSUME TypeOK, NEW p \in Peers, NEW r \in Results, Poll(p, r), BeliefTracked(p)
  PROVE  BeliefTracked(p)'
<1> DEFINE kind == Verdict(p, r)
<1>1. /\ lastOK[p] \in {"unseen", "up", "down"} /\ edge[p] \in {"none", "wentDown", "cameUp"}
      /\ downCount[p] \in Nat /\ failRun[p] \in Nat /\ Threshold \in Nat \ {0}
      /\ r.OK \in BOOLEAN
  BY StatusType, FieldTypes
<1>2. /\ kind = "wentDown" <=> WentDown(p, r.OK)
      /\ kind = "cameUp" <=> CameUp(p, r.OK)
  BY VerdictFacts
<1>3. /\ downCount'[p] = IF r.OK \/ WentDown(p, r.OK) THEN 0 ELSE Counted(p)
      /\ lastOK'[p] = IF r.OK THEN "up"
                      ELSE IF lastOK[p] = "unseen" \/ WentDown(p, r.OK) THEN "down" ELSE lastOK[p]
  BY PollFields
<1>4. /\ failRun'[p] = IF r.OK THEN 0 ELSE IF failRun[p] < Threshold THEN failRun[p] + 1 ELSE failRun[p]
      /\ edge'[p] = IF kind \in {"wentDown", "cameUp"} THEN kind ELSE edge[p]
  BY PollFields
<1> HIDE DEF kind
<1>5. CASE r.OK
  <2>1. lastOK'[p] = "up" /\ downCount'[p] = 0 /\ failRun'[p] = 0 /\ 0 < Threshold
    BY <1>1, <1>3, <1>4, <1>5
  <2>2. edge'[p] # "wentDown"
    BY <1>1, <1>2, <1>4, <1>5 DEF WentDown, CameUp, BeliefTracked
  <2> QED
    BY <2>1, <2>2 DEF BeliefTracked
<1>6. CASE ~r.OK /\ WentDown(p, r.OK)
  BY <1>2, <1>3, <1>4, <1>6 DEF BeliefTracked
<1>7. CASE ~r.OK /\ ~WentDown(p, r.OK)
  <2>1. ~CameUp(p, r.OK) /\ edge'[p] = edge[p]
    BY <1>2, <1>4, <1>7 DEF CameUp
  <2>2. CASE lastOK[p] = "up"
    <3>1. Counted(p) < Threshold /\ Counted(p) = failRun[p] + 1
      BY <1>1, <1>7, <2>2 DEF WentDown, Counted, BeliefTracked
    <3> QED
      BY <1>1, <1>3, <1>4, <1>7, <2>1, <2>2, <3>1 DEF BeliefTracked
  <2>3. CASE lastOK[p] # "up"
    BY <1>1, <1>3, <1>7, <2>1, <2>3 DEF BeliefTracked
  <2> QED
    BY <2>2, <2>3
<1> QED
  BY <1>1, <1>5, <1>6, <1>7

\* A poll of p that leaves a status behind has announced that status, now or
\* before, and the peer has failed for the threshold.
LEMMA StatusStep ==
  ASSUME TypeOK, NEW p \in Peers, NEW r \in Results, Poll(p, r),
         BeliefTracked(p), StatusTracked(p)
  PROVE  StatusTracked(p)'
<1> DEFINE kind == Verdict(p, r)
<1>0. SUFFICES ASSUME lastStatus'[p] # "" PROVE StatusTracked(p)'
  BY DEF StatusTracked
<1>1. /\ lastOK[p] \in {"unseen", "up", "down"} /\ edge[p] \in {"none", "wentDown", "cameUp"}
      /\ downCount[p] \in Nat /\ failRun[p] \in Nat /\ Threshold \in Nat \ {0}
      /\ lastStatus[p] \in DownStatuses \cup {""}
      /\ r.OK \in BOOLEAN /\ StatusOf(r) \in DownStatuses /\ StatusOf(r) # ""
  BY StatusType, FieldTypes
<1>2. /\ kind = "wentDown" <=> WentDown(p, r.OK)
      /\ kind = "cameUp" <=> CameUp(p, r.OK)
      /\ kind = "changed" => ~r.OK /\ lastStatus[p] # ""
      /\ ~r.OK /\ kind \notin {"wentDown", "changed"} => lastStatus[p] \in {"", StatusOf(r)}
  BY VerdictFacts
<1>3. /\ lastOK'[p] = IF r.OK THEN "up"
                      ELSE IF lastOK[p] = "unseen" \/ WentDown(p, r.OK) THEN "down" ELSE lastOK[p]
      /\ failRun'[p] = IF r.OK THEN 0 ELSE IF failRun[p] < Threshold THEN failRun[p] + 1 ELSE failRun[p]
      /\ edge'[p] = IF kind \in {"wentDown", "cameUp"} THEN kind ELSE edge[p]
      /\ polled'[p] = r
      /\ lastStatus'[p] = NewStatus(p, r, kind)
  BY PollFields
<1>4. lastSent' = IF kind = "none" THEN lastSent
                  ELSE AfterAllow(lastSent, <<p, IF kind = "cameUp" THEN "Recovered"
                                                 ELSE StatusOf(r)>>, Duration)
  BY PollAlert
<1> HIDE DEF kind
<1>5. ~r.OK
  BY <1>0, <1>2, <1>3 DEF NewStatus, StatusAfterUpdate, WentDown
<1>6. lastStatus'[p] = StatusOf(r)
  BY <1>0, <1>2, <1>3, <1>5 DEF NewStatus, StatusAfterUpdate
<1>7. kind # "cameUp"
  BY <1>2, <1>5 DEF CameUp
<1>8. <<p, StatusOf(r)>> \in Peers \X Statuses /\ Duration \in Nat
      /\ lastSent \in [Peers \X Statuses -> Ages(Duration)]
  BY <1>1, AlertParameters DEF Statuses, TypeOK
<1>9. CASE kind \in {"wentDown", "changed"}
  <2>1. lastSent'[<<p, StatusOf(r)>>] # Never
    <3>1. lastSent' = AfterAllow(lastSent, <<p, StatusOf(r)>>, Duration)
      BY <1>4, <1>9
    <3> QED
      BY <1>8, <3>1, AllowMarks
  <2>2. CASE kind = "wentDown"
    <3>1. lastOK[p] = "up" /\ Counted(p) >= Threshold /\ downCount[p] = failRun[p]
      BY <1>2, <2>2 DEF WentDown, BeliefTracked
    <3>2. failRun'[p] >= Threshold
      BY <1>1, <1>3, <1>5, <3>1 DEF Counted, BeliefTracked
    <3> QED
      BY <1>2, <1>3, <1>5, <1>6, <2>1, <2>2, <3>2 DEF StatusTracked
  <2>3. CASE kind = "changed"
    <3>1. edge[p] = "wentDown" /\ lastOK[p] = "down" /\ failRun[p] >= Threshold
      BY <1>2, <2>3 DEF StatusTracked
    <3>2. edge'[p] = "wentDown" /\ lastOK'[p] = "down"
      BY <1>3, <1>5, <2>3, <3>1
    <3>3. failRun'[p] >= Threshold
      <4>1. failRun'[p] = IF failRun[p] < Threshold THEN failRun[p] + 1 ELSE failRun[p]
        BY <1>3, <1>5
      <4>2. failRun[p] \in Nat /\ Threshold \in Nat /\ failRun[p] >= Threshold
        BY <1>1, <3>1
      <4> QED
        BY <4>1, <4>2
    <3> QED
      BY <1>3, <1>6, <2>1, <3>2, <3>3 DEF StatusTracked
  <2> QED
    BY <1>9, <2>2, <2>3
<1>10. CASE kind \notin {"wentDown", "changed"}
  <2>1. lastStatus[p] = StatusOf(r)
    BY <1>0, <1>1, <1>2, <1>3, <1>5, <1>10 DEF NewStatus, StatusAfterUpdate
  <2>2. /\ edge[p] = "wentDown" /\ lastOK[p] = "down" /\ failRun[p] >= Threshold
        /\ lastSent[<<p, StatusOf(r)>>] # Never
    BY <1>1, <2>1 DEF StatusTracked
  <2>3. lastSent'[<<p, StatusOf(r)>>] # Never
    BY <1>4, <1>7, <1>8, <2>2, AllowMarks
  <2>4. edge'[p] = "wentDown" /\ lastOK'[p] = "down"
    BY <1>3, <1>5, <1>7, <1>10, <2>2
  <2>5. failRun'[p] >= Threshold
    <3>1. failRun'[p] = IF failRun[p] < Threshold THEN failRun[p] + 1 ELSE failRun[p]
      BY <1>3, <1>5
    <3>2. failRun[p] \in Nat /\ Threshold \in Nat /\ failRun[p] >= Threshold
      BY <1>1, <2>2
    <3> QED
      BY <3>1, <3>2
  <2> QED
    BY <1>3, <1>6, <2>3, <2>4, <2>5 DEF StatusTracked
<1> QED
  BY <1>9, <1>10

\* The alert of a poll is about the polled peer.
LEMMA EventStep ==
  ASSUME TypeOK, NEW p \in Peers, NEW r \in Results, Poll(p, r),
         BeliefTracked(p), StatusTracked(p)
  PROVE  EventTracked'
<1> DEFINE kind == Verdict(p, r)
<1>1. downCount[p] \in Nat /\ failRun[p] \in Nat /\ Threshold \in Nat \ {0}
  BY FieldTypes
<1>2. /\ kind = "wentDown" <=> WentDown(p, r.OK)
      /\ kind = "changed" => ~r.OK /\ lastStatus[p] # ""
      /\ kind = "critical" => r.Severity = "Critical"
  BY VerdictFacts
<1>3. /\ failRun'[p] = IF r.OK THEN 0 ELSE IF failRun[p] < Threshold THEN failRun[p] + 1 ELSE failRun[p]
      /\ polled'[p] = r
  BY PollFields
<1>4. event'.kind = kind /\ (kind # "none" => event'.ip = p)
  BY PollAlert
<1> HIDE DEF kind
<1>5. kind = "wentDown" => failRun'[p] >= Threshold
  <2> SUFFICES ASSUME kind = "wentDown" PROVE failRun'[p] >= Threshold
    OBVIOUS
  <2>1. ~r.OK /\ lastOK[p] = "up" /\ Counted(p) >= Threshold /\ downCount[p] = failRun[p]
    BY <1>2 DEF WentDown, BeliefTracked
  <2> QED
    BY <1>1, <1>3, <2>1 DEF Counted
<1>6. kind = "changed" => failRun'[p] >= Threshold
  <2> SUFFICES ASSUME kind = "changed" PROVE failRun'[p] >= Threshold
    OBVIOUS
  <2>1. ~r.OK /\ failRun[p] >= Threshold
    BY <1>2 DEF StatusTracked
  <2> QED
    BY <1>1, <1>3, <2>1
<1> QED
  BY <1>2, <1>3, <1>4, <1>5, <1>6 DEF EventTracked

\* Every step keeps the tracker and the history together.
LEMMA TrackedStep == TypeOK /\ TypeOK' /\ Tracked /\ [Next]_vars => Tracked'
<1> SUFFICES ASSUME TypeOK, TypeOK', Tracked, [Next]_vars PROVE Tracked'
  OBVIOUS
<1>1. ASSUME NEW p \in Peers, NEW r \in Results, Poll(p, r) PROVE Tracked'
  <2>1. BeliefTracked(p)' /\ StatusTracked(p)' /\ EventTracked'
    BY <1>1, BeliefStep, StatusStep, EventStep DEF Tracked
  <2>2. ASSUME NEW q \in Peers, q # p PROVE BeliefTracked(q)' /\ StatusTracked(q)'
    <3>1. /\ lastOK'[q] = lastOK[q] /\ downCount'[q] = downCount[q] /\ edge'[q] = edge[q]
          /\ lastStatus'[q] = lastStatus[q] /\ polled'[q] = polled[q] /\ failRun'[q] = failRun[q]
      BY <1>1, <2>2, PollFields
    <3>2. lastStatus[q] # "" => lastSent'[<<q, lastStatus[q]>>] = lastSent[<<q, lastStatus[q]>>]
      <4> SUFFICES ASSUME lastStatus[q] # ""
                   PROVE  lastSent'[<<q, lastStatus[q]>>] = lastSent[<<q, lastStatus[q]>>]
        OBVIOUS
      <4>1. PICK status : lastSent' \in {lastSent, AfterAllow(lastSent, <<p, status>>, Duration)}
        BY <1>1, PollAlert
      <4>2. <<q, lastStatus[q]>> # <<p, status>> /\ <<q, lastStatus[q]>> \in Peers \X Statuses
        BY <2>2, FieldTypes DEF Statuses
      <4>3. lastSent \in [Peers \X Statuses -> Ages(Duration)]
        BY DEF TypeOK
      <4> QED
        BY <4>1, <4>2, <4>3 DEF AfterAllow
    <3> QED
      BY <3>1, <3>2 DEF Tracked, BeliefTracked, StatusTracked
  <2> QED
    BY <2>1, <2>2 DEF Tracked
<1>2. CASE Tick
  <2>1. ASSUME NEW p \in Peers, lastStatus[p] # "" PROVE lastSent'[<<p, lastStatus[p]>>] # Never
    <3>1. <<p, lastStatus[p]>> \in Peers \X Statuses
      BY <2>1, FieldTypes DEF Statuses
    <3>2. lastSent[<<p, lastStatus[p]>>] # Never
      BY <2>1 DEF Tracked, StatusTracked
    <3>3. Duration \in Nat /\ lastSent \in [Peers \X Statuses -> Ages(Duration)]
      BY AlertParameters DEF TypeOK
    <3>4. Aged(lastSent, Duration)[<<p, lastStatus[p]>>] # Never
      BY <3>1, <3>2, <3>3, AllowMarks
    <3> QED
      BY <1>2, <3>4 DEF Tick
  <2>2. event'.kind = "none"
    BY <1>2 DEF Tick, NoEvent
  <2> QED
    BY <1>2, <2>1, <2>2 DEF Tick, tracker, Tracked, BeliefTracked, StatusTracked, EventTracked
<1>3. CASE Restart
  BY <1>3 DEF Restart, NoEvent, Tracked, BeliefTracked, StatusTracked, EventTracked
<1>4. CASE UNCHANGED vars
  BY <1>4 DEF vars, tracker, Tracked, BeliefTracked, StatusTracked, EventTracked
<1> QED
  BY <1>1, <1>2, <1>3, <1>4 DEF Next, PollSome

\* The tracker and the history agree throughout.
LEMMA TrackedInvariant == Spec => [](TypeOK /\ Tracked)
<1>1. Init => Tracked
  <2> SUFFICES ASSUME Init PROVE Tracked
    OBVIOUS
  <2>1. event.kind = "none"
    BY DEF Init, NoEvent
  <2>2. \A p \in Peers : lastOK[p] = "unseen" /\ edge[p] = "none" /\ lastStatus[p] = ""
    BY DEF Init
  <2> QED
    BY <2>1, <2>2 DEF Tracked, BeliefTracked, StatusTracked, EventTracked
<1> QED
  BY <1>1, TrackedStep, PeerTypeCorrect, PTL DEF Spec

\* Update and the switch of runOnce: an outage is declared only after the
\* threshold of failed polls in a row, and at that poll at the latest.
THEOREM OutageIsConfirmed == Spec => []DownIsConfirmed
<1>1. TypeOK /\ Tracked => DownIsConfirmed
  BY DEF TypeOK, Tracked, BeliefTracked, EventTracked, DownIsConfirmed
<1> QED
  BY <1>1, TrackedInvariant, PTL

\* A status that SetStatus has stored is the one of the last poll of a peer that
\* was declared DOWN, and the operator has been told of it.
THEOREM RememberedIsTold == Spec => []StatusIsTold
<1>1. TypeOK /\ Tracked => StatusIsTold
  BY DEF Tracked, StatusTracked, StatusIsTold
<1> QED
  BY <1>1, TrackedInvariant, PTL

\* No outage is declared twice in a row, and no recovery.
THEOREM EdgesDoAlternate == Spec => EdgesAlternate
<1>1. TypeOK /\ Tracked /\ [Next]_vars =>
        [event'.kind \in {"wentDown", "cameUp"} => edge[event'.ip] # event'.kind]_vars
  <2> SUFFICES ASSUME Tracked, Next, event'.kind \in {"wentDown", "cameUp"}
               PROVE  edge[event'.ip] # event'.kind
    OBVIOUS
  <2>1. PICK p \in Peers, r \in Results : Poll(p, r)
    <3>1. NoEvent.kind = "none"
      BY DEF NoEvent
    <3> QED
      BY <3>1 DEF Next, PollSome, Tick, Restart
  <2>2. event'.kind = Verdict(p, r) /\ event'.ip = p
    BY <2>1, PollAlert
  <2>3. /\ Verdict(p, r) = "wentDown" <=> WentDown(p, r.OK)
        /\ Verdict(p, r) = "cameUp" <=> CameUp(p, r.OK)
    BY VerdictFacts
  <2> QED
    BY <2>2, <2>3 DEF WentDown, CameUp, Tracked, BeliefTracked
<1> QED
  BY <1>1, TrackedInvariant, PTL DEF Spec, EdgesAlternate
=============================================================================
