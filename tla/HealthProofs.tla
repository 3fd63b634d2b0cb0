---------------------------- MODULE HealthProofs ----------------------------
(***************************************************************************)
(* Theorems about Health, for any weights, any set of checks switched on,  *)
(* any number of processes, addresses and domains, and a service that      *)
(* changes between any two probes.                                         *)
(***************************************************************************)
EXTENDS Health, TLAPS

-----------------------------------------------------------------------------
(* Facts about weights and scores.                                         *)

\* A check counts exactly when it is switched on.
LEMMA WeightFacts ==
  ASSUME NEW c \in Configs, NEW check \in Checks
  PROVE  /\ weight(c, check) \in 0..100
         /\ weight(c, check) > 0 <=> check \in c.enabled
<1>1. c.weights[check] \in 0..100
  BY HealthParameters DEF ConfigRecords
<1> QED
  BY <1>1 DEF weight, weightOrDefault, DefaultWeight

LEMMA MaxScoreType ==
  ASSUME NEW c \in Configs
  PROVE  MaxScore(c) \in 0..400
<1>1. \A check \in Checks : weight(c, check) \in 0..100
  BY WeightFacts
<1>2. /\ weight(c, "Process") \in 0..100 /\ weight(c, "TCP") \in 0..100
      /\ weight(c, "UDP") \in 0..100 /\ weight(c, "DNS") \in 0..100
  BY <1>1 DEF Checks
<1>3. \A p, t, u, d \in 0..100 : p + t + u + d \in 0..400
  OBVIOUS
<1> QED
  BY <1>2, <1>3 DEF MaxScore

\* The normalised score is a percentage, 0 for no points at all, and below 80
\* when less than four fifths of the points were earned.
LEMMA ScoreFacts ==
  ASSUME NEW max \in Nat, NEW raw \in 0..max
  PROVE  /\ ScoreOf(raw, max) \in 0..100
         /\ raw = 0 => ScoreOf(raw, max) = 0
         /\ raw * 5 < max * 4 => ScoreOf(raw, max) < 80
<1>1. CASE max = 0
  BY <1>1 DEF ScoreOf
<1>2. CASE max > 0
  <2> DEFINE q == (raw * 100) \div max
  <2>1. raw * 100 \in Nat
    OBVIOUS
  <2>2. q \in Int /\ max * q <= raw * 100 /\ raw * 100 < max * (q + 1)
    BY <1>2, <2>1
  <2>3. ScoreOf(raw, max) = q
    BY <1>2 DEF ScoreOf
  <2> HIDE DEF q
  <2>4. q >= 0
    BY <1>2, <2>2
  <2>5. q <= 100
    BY <1>2, <2>2
  <2>6. raw = 0 => q = 0
    BY <1>2, <2>2, <2>4
  <2>7. raw * 5 < max * 4 => q < 80
    BY <1>2, <2>2
  <2> QED
    BY <2>2, <2>3, <2>4, <2>5, <2>6, <2>7
<1> QED
  BY <1>1, <1>2

-----------------------------------------------------------------------------
(* The invariant.                                                          *)

\* The checks that the cycle has behind it.
Behind ==
  CASE pc = "Process" -> {}
    [] pc = "TCP"     -> {"Process"}
    [] pc = "UDP"     -> {"Process", "TCP"}
    [] pc = "DNS"     -> {"Process", "TCP", "UDP"}
    [] OTHER          -> Checks

\* What a check has added to the score so far.
Earned(check) ==
  IF check \notin Behind \/ check \in failed THEN 0
  ELSE IF check = "DNS" /\ anySlow THEN weight(cfg, "DNS") \div 2
  ELSE weight(cfg, check)

\* The raw score is the sum of what the checks behind have earned.
Tallied ==
  RawScore = IF seen = {} THEN 0
             ELSE Earned("Process") + Earned("TCP") + Earned("UDP") + Earned("DNS")

\* The types but for the score.
Typed ==
  /\ service \in Services /\ cfg \in Configs
  /\ pc \in Checks \cup {"idle", "score"}
  /\ left \in Nat /\ anySlow \in BOOLEAN
  /\ seen \subseteq Services /\ failed \subseteq Checks

\* What a check ahead cannot have done yet.
Ahead ==
  /\ pc # "idle" => service \in seen /\ failed \subseteq Behind
  /\ pc \in {"Process", "TCP", "UDP"} => ~anySlow

\* A dead service earns nothing, and without a good answer the query failed or
\* was never made.
Witnessed ==
  /\ seen = {"dead"} => RawScore = 0
  /\ seen # {} /\ seen \cap {"up", "slow"} = {} /\ "DNS" \in Behind =>
       "DNS" \in failed \/ "DNS" \notin cfg.enabled

\* Every result there has been is one that Runner assumes of RunChecks.
Coherent ==
  /\ lastHealth \in [RawScore : Nat, MaxScore : Nat, Score : 0..100]
  /\ lastHealth.RawScore <= lastHealth.MaxScore
  /\ lastHealth.Score = IF lastHealth.MaxScore > 0
                        THEN (lastHealth.RawScore * 100) \div lastHealth.MaxScore ELSE 0

\* The last result is the one of the cycle that the history is about.
Concluded ==
  /\ pc = "idle" /\ seen # {} =>
       lastHealth = [RawScore |-> RawScore, MaxScore |-> MaxScore(cfg),
                     Score |-> ScoreOf(RawScore, MaxScore(cfg))]
  /\ Coherent

Inv == Typed /\ Tallied /\ Ahead /\ Witnessed /\ Concluded

\* No check earns more than its weight, and one that counts earns the whole
\* weight exactly when it did not fail and was not slow.
LEMMA EarnedBound ==
  ASSUME Typed, NEW check \in Checks
  PROVE  /\ Earned(check) \in 0..weight(cfg, check)
         /\ check \in Behind =>
              (Earned(check) = weight(cfg, check) <=>
                 \/ weight(cfg, check) = 0
                 \/ check \notin failed /\ ~(check = "DNS" /\ anySlow))
<1>1. weight(cfg, check) \in 0..100
  BY WeightFacts DEF Typed
<1>2. \A n \in 0..100 : n \div 2 \in 0..n /\ (n \div 2 = n <=> n = 0)
  OBVIOUS
<1> QED
  BY <1>1, <1>2 DEF Earned

LEMMA RawScoreBound ==
  ASSUME Typed, Tallied
  PROVE  RawScore \in 0..MaxScore(cfg) /\ MaxScore(cfg) \in Nat
<1>1. \A check \in Checks : weight(cfg, check) \in 0..100 /\ Earned(check) \in 0..weight(cfg, check)
  BY WeightFacts, EarnedBound DEF Typed
<1>2. /\ weight(cfg, "Process") \in Nat /\ Earned("Process") \in 0..weight(cfg, "Process")
      /\ weight(cfg, "TCP") \in Nat /\ Earned("TCP") \in 0..weight(cfg, "TCP")
      /\ weight(cfg, "UDP") \in Nat /\ Earned("UDP") \in 0..weight(cfg, "UDP")
      /\ weight(cfg, "DNS") \in Nat /\ Earned("DNS") \in 0..weight(cfg, "DNS")
  BY <1>1 DEF Checks
<1>3. \A p, t, u, d \in Nat : \A a \in 0..p, b \in 0..t, c \in 0..u, e \in 0..d :
        a + b + c + e \in 0..(p + t + u + d) /\ p + t + u + d \in Nat
  OBVIOUS
<1>4. /\ Earned("Process") + Earned("TCP") + Earned("UDP") + Earned("DNS") \in 0..MaxScore(cfg)
      /\ MaxScore(cfg) \in Nat
  BY <1>2, <1>3 DEF MaxScore
<1> QED
  BY <1>4 DEF Tallied

LEMMA InvInit == Init => Inv
<1> SUFFICES ASSUME Init
             PROVE  Inv
  OBVIOUS
<1>1. Typed
  BY DEF Init, Typed
<1>2. Tallied /\ Ahead /\ Witnessed
  BY DEF Init, Tallied, Ahead, Witnessed
<1>3. Concluded
  BY DEF Init, Concluded, Coherent
<1> QED
  BY <1>1, <1>2, <1>3 DEF Inv

\* The order of the checks.
LEMMA BehindAfter ==
  ASSUME NEW check \in Checks, pc = check, pc' = After(check)
  PROVE  /\ check \notin Behind
         /\ Behind' = Behind \cup {check} \cup
              (IF check = "UDP" /\ "DNS" \notin cfg.enabled THEN {"DNS"} ELSE {})
         /\ pc' \in {"TCP", "UDP", "DNS", "score"}
         /\ check = "DNS" => pc' = "score"
BY DEF Checks, After, Behind

LEMMA ProbesType ==
  ASSUME NEW check \in Checks
  PROVE  Probes(check) \in Nat
<1>1. NAddresses * NDomains \in Nat
  BY HealthParameters
<1> QED
  BY <1>1, HealthParameters DEF Probes, Checks

\* What the other checks have earned does not change when one ends.
LEMMA EarnedAfter ==
  ASSUME Inv, NEW check \in Checks, pc = check, pc' = After(check), cfg' = cfg,
         failed' \in {failed, failed \cup {check}},
         anySlow' \in BOOLEAN, check # "DNS" => anySlow' = anySlow
  PROVE  /\ \A other \in Checks \ {check} : Earned(other)' = Earned(other)
         /\ Earned(check) = 0
         /\ Earned(check)' = IF check \in failed' THEN 0 ELSE Award(check, anySlow')
<1>1. /\ check \notin Behind
      /\ Behind' = Behind \cup {check} \cup
           (IF check = "UDP" /\ "DNS" \notin cfg.enabled THEN {"DNS"} ELSE {})
  BY BehindAfter
<1>2. Earned(check) = 0
  BY <1>1 DEF Earned
<1>3. Earned(check)' = IF check \in failed' THEN 0 ELSE Award(check, anySlow')
  BY <1>1 DEF Earned, Award, weight
<1>4. ASSUME NEW other \in Checks \ {check} PROVE Earned(other)' = Earned(other)
  <2>1. other \in failed' <=> other \in failed
    OBVIOUS
  <2>2. CASE other \in Behind \/ other \notin Behind'
    <3>1. other \in Behind' <=> other \in Behind
      BY <2>2, <1>1
    <3>2. other = "DNS" => anySlow' = anySlow
      OBVIOUS
    <3> QED
      BY <2>1, <3>1, <3>2 DEF Earned, weight
  <2>3. CASE other \notin Behind /\ other \in Behind'
    <3>1. other = "DNS" /\ "DNS" \notin cfg.enabled
      BY <2>3, <1>1
    <3>2. weight(cfg, "DNS") = 0
      BY <3>1 DEF weight
    <3>3. Earned(other) = 0
      BY <2>3 DEF Earned
    <3>4. Earned(other)' \in {0, 0 \div 2}
      BY <3>1, <3>2 DEF Earned, weight
    <3>5. 0 \div 2 = 0
      OBVIOUS
    <3> QED
      BY <3>3, <3>4, <3>5
  <2> QED
    BY <2>2, <2>3
<1> QED
  BY <1>2, <1>3, <1>4

\* So the sum grows by what that check earns.
LEMMA TallyAfter ==
  ASSUME Inv, NEW check \in Checks, pc = check, pc' = After(check), cfg' = cfg, seen' = seen,
         failed' \in {failed, failed \cup {check}},
         anySlow' \in BOOLEAN, check # "DNS" => anySlow' = anySlow,
         RawScore' = RawScore + (IF check \in failed' THEN 0 ELSE Award(check, anySlow'))
  PROVE  Tallied'
<1> DEFINE gain == IF check \in failed' THEN 0 ELSE Award(check, anySlow')
<1>1. /\ \A other \in Checks \ {check} : Earned(other)' = Earned(other)
      /\ Earned(check) = 0 /\ Earned(check)' = gain
  BY EarnedAfter
<1>2. \A c \in Checks : Earned(c) \in Nat
  BY WeightFacts, EarnedBound DEF Inv, Typed
<1>3. gain \in Nat
  <2>1. weight(cfg, check) \in 0..100 /\ weight(cfg, "DNS") \in 0..100
    BY WeightFacts DEF Inv, Typed, Checks
  <2> QED
    BY <2>1 DEF Award
<1>4. seen # {} /\ RawScore = Earned("Process") + Earned("TCP") + Earned("UDP") + Earned("DNS")
  BY DEF Inv, Ahead, Tallied, Checks
<1> HIDE DEF gain
<1>5. /\ Earned("Process") \in Nat /\ Earned("TCP") \in Nat /\ Earned("UDP") \in Nat
      /\ Earned("DNS") \in Nat
  BY <1>2 DEF Checks
<1>6. RawScore' = Earned("Process")' + Earned("TCP")' + Earned("UDP")' + Earned("DNS")'
  <2>1. RawScore' = RawScore + gain
    BY DEF gain
  <2>2. CASE check = "Process"
    BY <1>1, <1>3, <1>4, <1>5, <2>1, <2>2 DEF Checks
  <2>3. CASE check = "TCP"
    BY <1>1, <1>3, <1>4, <1>5, <2>1, <2>3 DEF Checks
  <2>4. CASE check = "UDP"
    BY <1>1, <1>3, <1>4, <1>5, <2>1, <2>4 DEF Checks
  <2>5. CASE check = "DNS"
    BY <1>1, <1>3, <1>4, <1>5, <2>1, <2>5 DEF Checks
  <2> QED
    BY <2>2, <2>3, <2>4, <2>5 DEF Checks
<1> QED
  BY <1>4, <1>6 DEF Tallied

\* A round of a loop keeps the invariant: it goes on, or the check passes and
\* earns its points, or it fails.
LEMMA ProbeKeeps ==
  ASSUME Inv, NEW check \in Checks, Probe(check)
  PROVE  Inv'
<1> DEFINE slow == anySlow \/ (check = "DNS" /\ service = "slow" /\ cfg.threshold)
<1>0. Typed /\ Tallied /\ Ahead /\ Witnessed /\ Concluded
  BY DEF Inv
<1>1. pc = check /\ UNCHANGED <<service, cfg, lastHealth, seen>>
  BY DEF Probe
<1>2. slow \in BOOLEAN /\ (check # "DNS" => slow = anySlow)
  BY <1>0 DEF Typed
<1>3. service \in seen /\ failed \subseteq Behind /\ check \notin failed
  BY <1>0, <1>1 DEF Ahead, Behind, Checks
<1>4. \/ /\ Passes(check) /\ left > 1 /\ left' = left - 1 /\ anySlow' = slow
         /\ UNCHANGED <<pc, RawScore, failed>>
      \/ /\ Passes(check) /\ anySlow' = slow /\ RawScore' = RawScore + Award(check, slow)
         /\ Goto(After(check)) /\ UNCHANGED failed
      \/ /\ ~Passes(check) /\ failed' = failed \cup {check} /\ Goto(After(check))
         /\ UNCHANGED <<anySlow, RawScore>>
  BY DEF Probe
<1>5. Passes(check) => seen # {"dead"}
  BY <1>3 DEF Passes, CheckProcess, CheckTCP, CheckUDP, CheckDNSQuery, Checks
<1>6. Passes("DNS") => seen \cap {"up", "slow"} # {}
  BY <1>3 DEF Passes, CheckDNSQuery
<1>7. Concluded' <=> Coherent
  <2>1. pc' # "idle"
    BY <1>1, <1>4, BehindAfter DEF Goto, Checks
  <2> QED
    BY <1>1, <2>1 DEF Concluded, Coherent
<1>8. Concluded'
  BY <1>0, <1>7 DEF Concluded
<1> HIDE DEF slow
<1>9. CASE /\ Passes(check) /\ left > 1 /\ left' = left - 1 /\ anySlow' = slow
           /\ UNCHANGED <<pc, RawScore, failed>>
  <2>1. Typed'
    BY <1>0, <1>1, <1>2, <1>9 DEF Typed
  <2>2. Behind' = Behind
    BY <1>9 DEF Behind
  <2>3. Tallied'
    <3>1. \A c \in Checks : Earned(c)' = Earned(c)
      <4> TAKE c \in Checks
      <4>1. CASE c # "DNS" \/ check # "DNS"
        BY <4>1, <1>1, <1>2, <1>9, <2>2 DEF Earned, weight
      <4>2. CASE c = "DNS" /\ check = "DNS"
        <5>1. c \notin Behind
          BY <4>2, <1>1 DEF Behind
        <5> QED
          BY <5>1, <2>2 DEF Earned
      <4> QED
        BY <4>1, <4>2
    <3> QED
      BY <3>1, <1>0, <1>1, <1>9 DEF Tallied, Checks
  <2>4. Ahead'
    BY <1>0, <1>1, <1>2, <1>9, <2>2 DEF Ahead
  <2>5. Witnessed'
    BY <1>0, <1>1, <1>9, <2>2 DEF Witnessed
  <2> QED
    BY <1>8, <2>1, <2>3, <2>4, <2>5 DEF Inv
<1>10. CASE /\ anySlow' \in BOOLEAN /\ (check # "DNS" => anySlow' = anySlow)
            /\ Goto(After(check))
            /\ \/ /\ Passes(check) /\ failed' = failed
                  /\ RawScore' = RawScore + Award(check, anySlow')
               \/ /\ ~Passes(check) /\ failed' = failed \cup {check} /\ RawScore' = RawScore
  <2>1. pc' = After(check)
    BY <1>10 DEF Goto
  <2>2. /\ Behind' = Behind \cup {check} \cup
             (IF check = "UDP" /\ "DNS" \notin cfg.enabled THEN {"DNS"} ELSE {})
        /\ pc' \in {"TCP", "UDP", "DNS", "score"} /\ (check = "DNS" => pc' = "score")
    BY <1>1, <2>1, BehindAfter
  <2>3. Typed'
    <3>1. left' \in Nat
      BY <1>10, <2>1, <2>2, ProbesType DEF Goto, Checks, Probes
    <3> QED
      BY <1>0, <1>1, <1>10, <2>2, <3>1 DEF Typed, Checks
  <2>4. Tallied'
    <3>1. RawScore \in Nat
      BY <1>0, RawScoreBound
    <3>2. RawScore' = RawScore + (IF check \in failed' THEN 0 ELSE Award(check, anySlow'))
      <4>1. CASE Passes(check)
        BY <4>1, <1>3, <1>10
      <4>2. CASE ~Passes(check)
        BY <4>2, <1>10, <3>1
      <4> QED
        BY <4>1, <4>2
    <3> QED
      BY <3>2, <1>1, <1>10, <2>1, TallyAfter
  <2>5. Ahead'
    <3>1. service' \in seen' /\ failed' \subseteq Behind'
      BY <1>1, <1>3, <1>10, <2>2
    <3>2. pc' \in {"Process", "TCP", "UDP"} => ~anySlow'
      BY <1>0, <1>1, <1>10, <2>1, <2>2 DEF Ahead, After, Checks
    <3> QED
      BY <3>1, <3>2 DEF Ahead
  <2>6. Witnessed'
    <3>1. seen' = {"dead"} => RawScore' = 0
      BY <1>0, <1>1, <1>5, <1>10 DEF Witnessed
    <3>2. ASSUME seen # {}, seen \cap {"up", "slow"} = {}, "DNS" \in Behind'
          PROVE  "DNS" \in failed' \/ "DNS" \notin cfg.enabled
      <4>1. CASE "DNS" \in Behind
        BY <4>1, <1>0, <1>10, <3>2 DEF Witnessed
      <4>2. CASE check = "DNS"
        BY <4>2, <1>6, <1>10, <3>2
      <4>3. CASE check = "UDP" /\ "DNS" \notin cfg.enabled
        BY <4>3
      <4> QED
        BY <4>1, <4>2, <4>3, <3>2, <2>2
    <3> QED
      BY <3>1, <3>2, <1>1 DEF Witnessed
  <2> QED
    BY <1>8, <2>3, <2>4, <2>5, <2>6 DEF Inv
<1> QED
  BY <1>0, <1>2, <1>4, <1>9, <1>10 DEF Typed

LEMMA InvNext == Inv /\ [Next]_vars => Inv'
<1> SUFFICES ASSUME Inv, [Next]_vars
             PROVE  Inv'
  OBVIOUS
<1>0. Typed /\ Tallied /\ Ahead /\ Witnessed /\ Concluded
  BY DEF Inv
<1>1. ASSUME NEW c \in Configs, Begin(c) PROVE Inv'
  <2>1. /\ pc' = "Process" /\ cfg' = c /\ left' = Probes("Process") /\ anySlow' = FALSE
        /\ RawScore' = 0 /\ seen' = {service} /\ failed' = {}
        /\ UNCHANGED <<service, lastHealth>>
    BY <1>1 DEF Begin
  <2>2. Behind' = {}
    BY <2>1 DEF Behind
  <2>3. Typed'
    <3>1. left' \in Nat
      BY <2>1, ProbesType DEF Checks
    <3> QED
      BY <1>0, <2>1, <3>1 DEF Typed, Checks
  <2>4. Tallied'
    <3>1. \A check \in Checks : Earned(check)' = 0
      BY <2>2 DEF Earned
    <3> QED
      BY <2>1, <3>1 DEF Tallied, Checks
  <2>5. Ahead' /\ Witnessed' /\ Concluded'
    BY <1>0, <2>1, <2>2 DEF Ahead, Witnessed, Concluded, Coherent
  <2> QED
    BY <2>3, <2>4, <2>5 DEF Inv
<1>2. ASSUME NEW check \in Checks, Probe(check) PROVE Inv'
  BY <1>2, ProbeKeeps
<1>3. CASE Finish
  <2>1. /\ pc = "score" /\ pc' = "idle"
        /\ lastHealth' = [RawScore |-> RawScore, MaxScore |-> MaxScore(cfg),
                          Score |-> ScoreOf(RawScore, MaxScore(cfg))]
        /\ UNCHANGED <<service, cfg, left, anySlow, RawScore, seen, failed>>
    BY <1>3 DEF Finish
  <2>2. Behind' = Behind
    BY <2>1 DEF Behind
  <2>3. Typed' /\ Ahead' /\ Witnessed'
    BY <1>0, <2>1, <2>2 DEF Typed, Ahead, Witnessed
  <2>4. Tallied'
    BY <1>0, <2>1, <2>2 DEF Tallied, Earned, weight
  <2>5. Concluded'
    <3>1. RawScore \in 0..MaxScore(cfg) /\ MaxScore(cfg) \in Nat
      BY <1>0, RawScoreBound
    <3>2. ScoreOf(RawScore, MaxScore(cfg)) \in 0..100
      BY <3>1, ScoreFacts
    <3>3. MaxScore(cfg)' = MaxScore(cfg) /\ ScoreOf(RawScore, MaxScore(cfg))' = ScoreOf(RawScore, MaxScore(cfg))
      BY <2>1 DEF MaxScore, weight, ScoreOf
    <3>4. Coherent'
      <4>1. /\ lastHealth'.RawScore = RawScore /\ lastHealth'.MaxScore = MaxScore(cfg)
            /\ lastHealth'.Score = ScoreOf(RawScore, MaxScore(cfg))
        BY <2>1
      <4>2. lastHealth' \in [RawScore : Nat, MaxScore : Nat, Score : 0..100]
        BY <2>1, <3>1, <3>2
      <4> QED
        BY <3>1, <4>1, <4>2 DEF Coherent, ScoreOf
    <3> QED
      BY <2>1, <3>3, <3>4 DEF Concluded
  <2> QED
    BY <2>3, <2>4, <2>5 DEF Inv
<1>4. ASSUME NEW s \in Services, Change(s) PROVE Inv'
  <2>1. /\ service' = s /\ seen' = (IF pc = "idle" THEN seen ELSE seen \cup {s})
        /\ UNCHANGED <<cfg, pc, left, anySlow, RawScore, lastHealth, failed>>
    BY <1>4 DEF Change
  <2>2. Behind' = Behind
    BY <2>1 DEF Behind
  <2>3. /\ seen \subseteq seen' /\ (seen' = {} <=> seen = {})
        /\ (pc # "idle" => service' \in seen')
    BY <1>0, <2>1 DEF Ahead
  <2>4. Typed'
    BY <1>0, <2>1 DEF Typed
  <2>5. Tallied'
    BY <1>0, <2>1, <2>2, <2>3 DEF Tallied, Earned, weight
  <2>6. Ahead'
    BY <1>0, <2>1, <2>2, <2>3 DEF Ahead
  <2>7. Witnessed'
    <3>1. seen' = {"dead"} => seen = {"dead"}
      BY <2>3
    <3>2. seen' # {} /\ seen' \cap {"up", "slow"} = {} => seen # {} /\ seen \cap {"up", "slow"} = {}
      BY <2>3
    <3> QED
      BY <1>0, <2>1, <2>2, <3>1, <3>2 DEF Witnessed
  <2>8. Concluded'
    BY <1>0, <2>1, <2>3 DEF Concluded, Coherent, MaxScore, weight
  <2> QED
    BY <2>4, <2>5, <2>6, <2>7, <2>8 DEF Inv
<1>5. CASE UNCHANGED vars
  <2>1. Behind' = Behind
    BY <1>5 DEF vars, Behind
  <2> QED
    BY <1>0, <1>5, <2>1 DEF vars, Inv, Typed, Tallied, Earned, weight, Ahead, Witnessed, Concluded,
       Coherent, MaxScore
<1> QED
  BY <1>1, <1>2, <1>3, <1>4, <1>5 DEF Next

LEMMA Invariance == Spec => []Inv
BY InvInit, InvNext, PTL DEF Spec

-----------------------------------------------------------------------------
(* The theorems.                                                           *)

\* Every variable of Health keeps its type, whatever the weights: RunChecks
\* never awards more than the maximum, and the score is a percentage.
THEOREM HealthTypeCorrect == Spec => []TypeOK
<1>1. Inv => TypeOK
  BY RawScoreBound DEF Inv, Typed, Concluded, Coherent, TypeOK
<1> QED
  BY <1>1, Invariance, PTL

\* Every result of RunChecks is one that Runner assumes of its health results:
\* no more points than the maximum, and the score their rounded percentage.
THEOREM ResultsAreCoherent == Spec => []Coherent
<1>1. Inv => Coherent
  BY DEF Inv, Concluded
<1> QED
  BY <1>1, Invariance, PTL

\* A finished cycle.
LEMMA FinishedFacts ==
  ASSUME Inv, Finished
  PROVE  /\ lastHealth.RawScore = RawScore /\ lastHealth.MaxScore = MaxScore(cfg)
         /\ lastHealth.Score = ScoreOf(RawScore, MaxScore(cfg))
         /\ Behind = Checks
         /\ RawScore = Earned("Process") + Earned("TCP") + Earned("UDP") + Earned("DNS")
         /\ RawScore \in 0..MaxScore(cfg) /\ MaxScore(cfg) \in Nat
<1>1. Typed /\ Tallied /\ Concluded /\ pc = "idle" /\ seen # {}
  BY DEF Inv, Finished
<1>2. Behind = Checks
  BY <1>1 DEF Behind
<1>3. lastHealth = [RawScore |-> RawScore, MaxScore |-> MaxScore(cfg),
                    Score |-> ScoreOf(RawScore, MaxScore(cfg))]
  BY <1>1 DEF Concluded
<1> QED
  BY <1>1, <1>2, <1>3, RawScoreBound DEF Tallied

\* What the recovery hold calls fully healthy is a cycle in which every check
\* that counts passed, and the DNS query, if it counts, was never slow: weights
\* that are omitted, switched-off checks and the halved award for a slow answer
\* cannot make up for each other in RunChecks.
THEOREM FullyHealthyExact == Spec => []FullyHealthyIsExact
<1>1. ASSUME Inv, Finished
      PROVE  FullyHealthy(lastHealth) <=>
               /\ Counting # {}
               /\ failed \cap Counting = {}
               /\ "DNS" \in Counting => ~anySlow
  <2> DEFINE w(c) == weight(cfg, c)
  <2>1. \A c \in Checks : weight(cfg, c) \in Nat /\ Earned(c) \in 0..weight(cfg, c)
    BY <1>1, WeightFacts, EarnedBound DEF Inv, Typed
  <2>a. \A c \in Checks : Earned(c) = w(c) <=>
          w(c) = 0 \/ (c \notin failed /\ ~(c = "DNS" /\ anySlow))
    BY <1>1, FinishedFacts, EarnedBound DEF Inv
  <2>2. FullyHealthy(lastHealth) <=> MaxScore(cfg) > 0 /\ RawScore >= MaxScore(cfg)
    BY <1>1, FinishedFacts DEF FullyHealthy
  <2>3. /\ RawScore = Earned("Process") + Earned("TCP") + Earned("UDP") + Earned("DNS")
        /\ MaxScore(cfg) = w("Process") + w("TCP") + w("UDP") + w("DNS")
    BY <1>1, FinishedFacts DEF MaxScore
  <2>4. /\ w("Process") \in Nat /\ Earned("Process") \in 0..w("Process")
        /\ w("TCP") \in Nat /\ Earned("TCP") \in 0..w("TCP")
        /\ w("UDP") \in Nat /\ Earned("UDP") \in 0..w("UDP")
        /\ w("DNS") \in Nat /\ Earned("DNS") \in 0..w("DNS")
    BY <2>1 DEF Checks
  <2>5. \A p, t, u, d \in Nat : \A a \in 0..p, b \in 0..t, c \in 0..u, e \in 0..d :
          /\ a + b + c + e >= p + t + u + d <=> a = p /\ b = t /\ c = u /\ e = d
          /\ p + t + u + d > 0 <=> p > 0 \/ t > 0 \/ u > 0 \/ d > 0
    OBVIOUS
  <2>6. RawScore >= MaxScore(cfg) <=> \A c \in Checks : Earned(c) = w(c)
    BY <2>3, <2>4, <2>5 DEF Checks
  <2>7. MaxScore(cfg) > 0 <=> \E c \in Checks : w(c) > 0
    BY <2>3, <2>4, <2>5 DEF Checks
  <2>8. Counting = {c \in Checks : w(c) > 0}
    BY DEF Counting
  <2>9. \A c \in Checks : w(c) > 0 <=> w(c) # 0
    <3> TAKE c \in Checks
    <3>1. weight(cfg, c) \in Nat
      BY <2>1
    <3> QED
      BY <3>1
  <2>10. "DNS" \in Checks
    BY DEF Checks
  <2> HIDE DEF w
  <2>11. (\A c \in Checks : Earned(c) = w(c)) <=>
           \A c \in Counting : c \notin failed /\ ~(c = "DNS" /\ anySlow)
    BY <2>a, <2>8, <2>9
  <2>12. (\A c \in Counting : c \notin failed /\ ~(c = "DNS" /\ anySlow)) <=>
           failed \cap Counting = {} /\ ("DNS" \in Counting => ~anySlow)
    OBVIOUS
  <2> QED
    BY <2>2, <2>6, <2>7, <2>8, <2>11, <2>12
<1>2. Inv => FullyHealthyIsExact
  BY <1>1 DEF FullyHealthyIsExact
<1> QED
  BY <1>2, Invariance, PTL

\* A service that was dead during the whole cycle scores 0 and is UNHEALTHY:
\* RunChecks starts from a fresh result, so nothing of earlier cycles counts.
THEOREM DeadServiceUnhealthy == Spec => []DeadIsUnhealthy
<1>1. ASSUME Inv, Finished, seen = {"dead"}
      PROVE  StateFromScore(lastHealth.Score) = "UNHEALTHY"
  <2>1. RawScore = 0
    BY <1>1 DEF Inv, Witnessed
  <2>2. lastHealth.Score = 0
    BY <1>1, <2>1, FinishedFacts, ScoreFacts
  <2> QED
    BY <2>2 DEF StateFromScore
<1>2. Inv => DeadIsUnhealthy
  BY <1>1 DEF DeadIsUnhealthy
<1> QED
  BY <1>2, Invariance, PTL

\* With the DNS query worth more than a fifth of the score, a HEALTHY result
\* means that the service answered a query during this very cycle: the other
\* three checks of RunChecks cannot reach 80 percent, rounding included.
THEOREM HealthyHasAnswered == Spec => []HealthyAnswered
<1>1. ASSUME Inv, Finished, weight(cfg, "DNS") * 5 > MaxScore(cfg),
             seen \cap {"up", "slow"} = {}
      PROVE  StateFromScore(lastHealth.Score) # "HEALTHY"
  <2>1. Typed /\ seen # {} /\ "DNS" \in Checks
    BY <1>1 DEF Inv, Finished, Checks
  <2>2. "DNS" \in failed \/ "DNS" \notin cfg.enabled
    BY <1>1, <2>1, FinishedFacts DEF Inv, Witnessed
  <2>3. \A c \in Checks : weight(cfg, c) \in Nat /\ Earned(c) \in 0..weight(cfg, c)
    BY <2>1, WeightFacts, EarnedBound DEF Typed
  <2>4. Earned("DNS") = 0
    <3>1. CASE "DNS" \in failed
      BY <3>1 DEF Earned
    <3>2. CASE "DNS" \notin cfg.enabled
      <4>1. weight(cfg, "DNS") = 0
        BY <3>2 DEF weight
      <4> QED
        BY <4>1, <2>1, <2>3
    <3> QED
      BY <2>2, <3>1, <3>2
  <2>5. RawScore * 5 < MaxScore(cfg) * 4
    <3>1. /\ RawScore = Earned("Process") + Earned("TCP") + Earned("UDP") + Earned("DNS")
          /\ MaxScore(cfg) = weight(cfg, "Process") + weight(cfg, "TCP") + weight(cfg, "UDP")
                                + weight(cfg, "DNS")
      BY <1>1, FinishedFacts DEF MaxScore
    <3>2. /\ weight(cfg, "Process") \in Nat /\ Earned("Process") \in 0..weight(cfg, "Process")
          /\ weight(cfg, "TCP") \in Nat /\ Earned("TCP") \in 0..weight(cfg, "TCP")
          /\ weight(cfg, "UDP") \in Nat /\ Earned("UDP") \in 0..weight(cfg, "UDP")
          /\ weight(cfg, "DNS") \in Nat
      BY <2>3 DEF Checks
    <3>3. \A p, t, u, d \in Nat : \A a \in 0..p, b \in 0..t, c \in 0..u :
            d * 5 > p + t + u + d => (a + b + c + 0) * 5 < (p + t + u + d) * 4
      OBVIOUS
    <3> QED
      BY <1>1, <2>4, <3>1, <3>2, <3>3
  <2>6. lastHealth.Score \in 0..100 /\ lastHealth.Score < 80
    BY <1>1, <2>5, FinishedFacts, ScoreFacts
  <2> QED
    BY <2>6 DEF StateFromScore
<1>2. Inv => HealthyAnswered
  BY <1>1 DEF HealthyAnswered
<1> QED
  BY <1>2, Invariance, PTL
=============================================================================
