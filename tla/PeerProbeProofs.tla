--------------------------- MODULE PeerProbeProofs --------------------------
(***************************************************************************)
(* Theorems about PeerProbe: what the verdict of a check is worth, however *)
(* the peer changes between its steps.                                     *)
(***************************************************************************)
EXTENDS PeerProbe, TLAPS

Late == {"ping", "tcp", "udp"}
Connected == {"handshake", "header", "body", "errorBody"}
Steps == {"dial"} \cup Connected \cup Late

-----------------------------------------------------------------------------
(* Facts about the operators.                                              *)

LEMMA FactsOf ==
  ASSUME NEW w
  PROVE  /\ Up(w) => "up" \in Facts(w)
         /\ ~Up(w) => "down" \in Facts(w)
         /\ Serves(w) => "serving" \in Facts(w)
         /\ ~Serves(w) => "silent" \in Facts(w)
         /\ Answers(w) => "answering" \in Facts(w)
         /\ ~Answers(w) => "mute" \in Facts(w)
BY DEF Facts

LEMMA NeighboursType ==
  ASSUME world \in Worlds, NEW w \in Neighbours
  PROVE  w \in Worlds
BY DEF Worlds, Neighbours

\* The three ways a connection ends, and what each one says of the peer.
LEMMA ConnectFacts ==
  ASSUME NEW w \in Worlds, NEW s
  PROVE  /\ Connect(w, s) \in {"OK", "Refused", "Unreachable"}
         /\ Connect(w, s) = "Unreachable" <=> ~Up(w)
         /\ Connect(w, s) = "Refused" => s = "dead"
         /\ Connect(w, s) = "OK" => s # "dead"
BY DEF Connect, Up, Worlds

LEMMA DiagnoseFacts ==
  ASSUME NEW agent, NEW tcp53, NEW udp \in BOOLEAN, NEW ping \in BOOLEAN
  PROVE  LET severity == Diagnose(agent, tcp53, udp, ping)
         IN /\ severity \in {"HostDown", "AgentOnly", "Critical"}
            /\ severity = "HostDown" <=>
                 /\ ~udp /\ ~ping
                 /\ agent \notin {"OK", "Refused", "NoAnswer"} /\ tcp53 \notin {"OK", "Refused"}
            /\ severity = "AgentOnly" <=> udp
BY DEF Diagnose

-----------------------------------------------------------------------------
(* The invariant.                                                          *)

\* The fields before a verdict: those of a fresh PeerHealth, filled in step by step.
Typed ==
  /\ world \in Worlds
  /\ pc \in {"idle"} \cup Steps
  /\ OK \in BOOLEAN /\ PingOK \in BOOLEAN /\ steady \in BOOLEAN
  /\ pc # "idle" => ~OK /\ Severity = "None"
  /\ pc \in Late => AgentProbe \in {"Refused", "NoAnswer", "Unreachable"}
  /\ pc = "udp" => TCP53 \in {"OK", "Refused", "Unreachable"}

\* Each answer collected so far is backed by a fact that was true of the peer:
\* a host that accepted or refused a connection, or answered a ping, was up.
Backed ==
  /\ pc # "idle" => Facts(world) \subseteq seen
  /\ pc \in Connected => "up" \in seen
  /\ pc \in Late => /\ "mute" \in seen
                    /\ AgentProbe \in {"Refused", "NoAnswer"} => "up" \in seen
                    /\ AgentProbe = "Unreachable" => "down" \in seen
  /\ pc \in {"tcp", "udp"} /\ PingOK => "up" \in seen
  /\ pc = "udp" /\ TCP53 \in {"OK", "Refused"} => "up" \in seen

\* While the peer stays as it is, the answers so far agree with it.
Consistent ==
  steady =>
    /\ pc \in Connected => Up(world) /\ world.agent # "dead"
    /\ pc = "body" => world.agent \in {"up", "erring"}
    /\ pc = "errorBody" => world.agent = "erring"
    /\ pc \in Late => IF Up(world) THEN /\ world.agent \in {"hung", "dead"}
                                        /\ AgentProbe \in {"Refused", "NoAnswer"}
                                   ELSE AgentProbe = "Unreachable"
    /\ pc \in {"tcp", "udp"} /\ PingOK => Up(world)
    /\ pc = "udp" /\ ~Up(world) => TCP53 = "Unreachable"

Inv == Typed /\ Backed /\ Consistent /\ VerdictJustified /\ OutageClassified

LEMMA InvInit == Init => Inv
BY DEF Init, Inv, Typed, Backed, Consistent, VerdictJustified, OutageClassified, Finished, Steps,
       Connected, Late

LEMMA InvNext == Inv /\ [Next]_vars => Inv'
<1> SUFFICES ASSUME Inv, [Next]_vars
             PROVE  Inv'
  OBVIOUS
<1> USE DEF Inv, Steps, Connected, Late, ph, past
<1>0. Typed /\ Backed /\ Consistent /\ VerdictJustified /\ OutageClassified
  OBVIOUS
<1>f. /\ Up(world) => "up" \in Facts(world)
      /\ ~Up(world) => "down" \in Facts(world)
      /\ Serves(world) => "serving" \in Facts(world)
      /\ ~Serves(world) => "silent" \in Facts(world)
      /\ Answers(world) => "answering" \in Facts(world)
      /\ ~Answers(world) => "mute" \in Facts(world)
  BY FactsOf
<1>v. ASSUME pc' # "idle" PROVE VerdictJustified' /\ OutageClassified'
  BY <1>v DEF VerdictJustified, OutageClassified, Finished
<1>1. CASE Begin
  <2>1. /\ pc = "idle" /\ pc' = "dial" /\ world' = world
        /\ OK' = FALSE /\ PingOK' = FALSE /\ Severity' = "None"
        /\ seen' = Facts(world) /\ steady' = TRUE
    BY <1>1 DEF Begin, Fresh
  <2> QED
    BY <2>1, <1>0, <1>v DEF Typed, Backed, Consistent
<1>2. CASE Dial
  <2> DEFINE outcome == Connect(world, world.agent)
  <2>1. /\ pc = "dial" /\ UNCHANGED <<world, OK, PingOK, TCP53, Severity, seen, steady>>
        /\ \/ outcome = "OK" /\ pc' \in {"handshake", "header"}
           \/ outcome # "OK" /\ pc' = "ping" /\ AgentProbe' = outcome
    BY <1>2 DEF Dial, Fail, classifyDialError
  <2>2. /\ outcome \in {"OK", "Refused", "Unreachable"}
        /\ outcome = "Unreachable" <=> ~Up(world)
        /\ outcome = "Refused" => world.agent = "dead"
        /\ outcome = "OK" => world.agent # "dead"
    BY <1>0, ConnectFacts DEF Typed
  <2>3. world.agent = "dead" \/ ~Up(world) => ~Answers(world)
    BY DEF Answers
  <2>4. Facts(world) \subseteq seen
    BY <1>0, <2>1 DEF Backed
  <2> HIDE DEF outcome
  <2>5. Typed'
    BY <2>1, <2>2, <1>0 DEF Typed
  <2>6. Backed'
    BY <2>1, <2>2, <2>3, <2>4, <1>f DEF Backed
  <2>7. Consistent'
    BY <2>1, <2>2 DEF Consistent, Up
  <2> QED
    BY <2>1, <2>5, <2>6, <2>7, <1>v
<1>3. CASE Handshake
  <2>1. /\ pc = "handshake" /\ UNCHANGED <<world, OK, PingOK, TCP53, Severity, seen, steady>>
        /\ \/ pc' = "header"
           \/ /\ ~Up(world) \/ world.agent = "dead"
              /\ pc' = "ping" /\ AgentProbe' = "NoAnswer"
    BY <1>0, <1>3 DEF Handshake, Fail, classifyLateError, Up, Typed, Worlds
  <2>2. pc' = "ping" => ~Answers(world)
    BY <2>1 DEF Answers
  <2>3. Typed'
    BY <2>1, <1>0 DEF Typed
  <2>4. Backed'
    BY <2>1, <2>2, <1>0, <1>f DEF Backed
  <2>5. Consistent'
    BY <2>1, <1>0 DEF Consistent, Up
  <2> QED
    BY <2>1, <2>3, <2>4, <2>5, <1>v
<1>4. CASE Header
  <2>1. /\ pc = "header" /\ UNCHANGED <<world, OK, PingOK, TCP53, Severity, seen, steady>>
        /\ \/ pc' = "body" /\ Up(world) /\ world.agent \in {"up", "erring"}
           \/ pc' = "errorBody" /\ Up(world) /\ world.agent = "erring"
           \/ /\ ~Up(world) \/ world.agent \in {"hung", "dead"}
              /\ pc' = "ping" /\ AgentProbe' = "NoAnswer"
    BY <1>4 DEF Header, Answered, Fail, classifyLateError, Up
  <2>2. pc' = "ping" => ~Answers(world)
    BY <2>1 DEF Answers
  <2>3. Typed'
    BY <2>1, <1>0 DEF Typed
  <2>4. Backed'
    BY <2>1, <2>2, <1>0, <1>f DEF Backed
  <2>5. Consistent'
    BY <2>1, <1>0 DEF Consistent, Up
  <2> QED
    BY <2>1, <2>3, <2>4, <2>5, <1>v
<1>b. CASE Body
  <2>1. /\ pc \in {"body", "errorBody"} /\ pc' = "idle"
        /\ UNCHANGED <<world, TCP53, Severity, seen, steady>>
        /\ \/ Answers(world) /\ OK' = TRUE /\ PingOK' = TRUE
           \/ /\ pc = "errorBody" \/ ~Up(world) \/ world.agent # "up"
              /\ UNCHANGED <<OK, PingOK>>
    BY <1>0, <1>b DEF Body, Up, Answers, Typed, Worlds
  <2>2. ~OK /\ Severity = "None" /\ Facts(world) \subseteq seen
    BY <2>1, <1>0 DEF Typed, Backed
  <2>3. Typed'
    <3>1. OK \in BOOLEAN /\ PingOK \in BOOLEAN
      BY <1>0 DEF Typed
    <3>2. OK' \in {TRUE, OK} /\ PingOK' \in {TRUE, PingOK}
      BY <2>1, Zenon
    <3>3. OK' \in BOOLEAN /\ PingOK' \in BOOLEAN
      BY <3>1, <3>2
    <3> QED
      BY <2>1, <3>3, <1>0 DEF Typed
  <2>4. Backed'
    BY <2>1 DEF Backed
  <2>5. Consistent'
    BY <2>1 DEF Consistent
  <2>6. VerdictJustified'
    BY <2>1, <2>2, <1>f DEF VerdictJustified, Finished
  <2>7. OutageClassified'
    <3>1. steady => /\ Up(world) /\ world.agent \in {"up", "erring"}
                    /\ pc = "errorBody" => world.agent = "erring"
      BY <2>1, <1>0 DEF Consistent
    <3>2. CASE Answers(world) /\ OK'
      BY <2>1, <3>1, <3>2 DEF OutageClassified, Finished, Answers, Up
    <3>3. CASE pc = "errorBody" \/ ~Up(world) \/ world.agent # "up"
      BY <2>1, <3>1, <3>3 DEF OutageClassified, Finished, Answers, Up
    <3> QED
      BY <2>1, <3>2, <3>3
  <2> QED
    BY <2>3, <2>4, <2>5, <2>6, <2>7
<1>5. CASE Ping
  <2>1. /\ pc = "ping" /\ pc' = "tcp" /\ PingOK' \in BOOLEAN /\ (PingOK' => Up(world))
        /\ UNCHANGED <<world, OK, AgentProbe, TCP53, Severity, seen, steady>>
    BY <1>5 DEF Ping, Up
  <2>2. Typed'
    BY <2>1, <1>0 DEF Typed
  <2>3. Backed'
    BY <2>1, <1>0, <1>f DEF Backed
  <2>4. Consistent'
    BY <2>1, <1>0 DEF Consistent, Up
  <2> QED
    BY <2>1, <2>2, <2>3, <2>4, <1>v
<1>6. CASE probeTCP
  <2>1. /\ pc = "tcp" /\ pc' = "udp" /\ TCP53' = Connect(world, world.dns)
        /\ UNCHANGED <<world, OK, AgentProbe, PingOK, Severity, seen, steady>>
    BY <1>6 DEF probeTCP
  <2>2. /\ TCP53' \in {"OK", "Refused", "Unreachable"}
        /\ TCP53' = "Unreachable" <=> ~Up(world)
    BY <2>1, <1>0, ConnectFacts DEF Typed
  <2>3. Typed'
    BY <2>1, <2>2, <1>0 DEF Typed
  <2>4. Backed'
    BY <2>1, <2>2, <1>0, <1>f DEF Backed
  <2>5. Consistent'
    BY <2>1, <2>2, <1>0 DEF Consistent, Up
  <2> QED
    BY <2>1, <2>3, <2>4, <2>5, <1>v
<1>7. CASE Query
  <2> DEFINE udp == Serves(world)
  <2>1. /\ pc = "udp" /\ pc' = "idle" /\ Severity' = Diagnose(AgentProbe, TCP53, udp, PingOK)
        /\ UNCHANGED <<world, OK, AgentProbe, PingOK, TCP53, seen, steady>>
    BY <1>7 DEF Query, Serves, Up
  <2>2. udp \in BOOLEAN /\ PingOK \in BOOLEAN
    BY <1>0 DEF Typed, Serves, Up
  <2>3. /\ Severity' \in {"HostDown", "AgentOnly", "Critical"}
        /\ Severity' = "HostDown" <=>
             /\ ~udp /\ ~PingOK
             /\ AgentProbe \notin {"OK", "Refused", "NoAnswer"} /\ TCP53 \notin {"OK", "Refused"}
        /\ Severity' = "AgentOnly" <=> udp
    BY <2>1, <2>2, DiagnoseFacts
  <2>4. ~OK /\ Facts(world) \subseteq seen /\ "mute" \in seen
    BY <2>1, <1>0 DEF Typed, Backed
  <2>5. Typed'
    BY <2>1, <1>0 DEF Typed
  <2>6. Backed' /\ Consistent'
    BY <2>1 DEF Backed, Consistent
  <2>7. VerdictJustified'
    <3>1. Severity' = "HostDown" => "down" \in seen
      BY <2>1, <2>3, <1>0 DEF Typed, Backed
    <3>2. Severity' = "Critical" => "up" \in seen
      BY <2>1, <2>3, <1>0 DEF Typed, Backed
    <3>3. Severity' = "Critical" => "silent" \in seen
      BY <2>3, <2>4, <1>f
    <3>4. Severity' = "AgentOnly" => "serving" \in seen
      BY <2>3, <2>4, <1>f
    <3> QED
      BY <2>1, <2>4, <3>1, <3>2, <3>3, <3>4 DEF VerdictJustified
  <2>8. OutageClassified'
    <3> SUFFICES ASSUME steady
                 PROVE  /\ ~Answers(world)
                        /\ ~Up(world) => Severity' = "HostDown"
                        /\ Up(world) => Severity' = IF Serves(world) THEN "AgentOnly" ELSE "Critical"
      BY <2>1 DEF OutageClassified, Finished, Answers, Serves, Up
    <3>1. /\ Up(world) => world.agent \in {"hung", "dead"} /\ AgentProbe \in {"Refused", "NoAnswer"}
          /\ ~Up(world) => AgentProbe = "Unreachable" /\ TCP53 = "Unreachable" /\ ~PingOK
      BY <2>1, <1>0 DEF Consistent
    <3>2. ~Up(world) => ~udp
      BY DEF Serves
    <3> QED
      BY <2>3, <3>1, <3>2 DEF Answers
  <2> QED
    BY <2>5, <2>6, <2>7, <2>8
<1>8. ASSUME NEW w \in Neighbours, Change(w) PROVE Inv'
  <2>1. /\ world' = w /\ steady' = FALSE /\ UNCHANGED <<pc, OK, AgentProbe, PingOK, TCP53, Severity>>
        /\ seen' = IF pc = "idle" THEN seen ELSE seen \cup Facts(w)
    BY <1>8 DEF Change
  <2>2. w \in Worlds
    BY <1>0, NeighboursType DEF Typed
  <2>3. seen \subseteq seen' /\ (pc # "idle" => Facts(w) \subseteq seen')
    BY <2>1
  <2>4. Typed'
    BY <2>1, <2>2, <1>0 DEF Typed
  <2>5. Backed'
    BY <2>1, <2>3, <1>0 DEF Backed
  <2>6. Consistent' /\ OutageClassified'
    BY <2>1 DEF Consistent, OutageClassified
  <2>7. VerdictJustified'
    BY <2>1, <1>0 DEF VerdictJustified, Finished
  <2> QED
    BY <2>4, <2>5, <2>6, <2>7
<1>9. CASE UNCHANGED vars
  BY <1>9, <1>0 DEF vars, Typed, Backed, Consistent, VerdictJustified, OutageClassified, Finished,
     Facts, Up, Serves, Answers
<1> QED
  BY <1>1, <1>2, <1>3, <1>4, <1>b, <1>5, <1>6, <1>7, <1>8, <1>9 DEF Next, Check

LEMMA Invariance == Spec => []Inv
BY InvInit, InvNext, PTL DEF Spec

\* A verdict always has its reason in what was true of the peer during the
\* check, however the host, its agent, its DNS server and the firewall change
\* between the probes of CheckPeer.
THEOREM VerdictIsJustified == Spec => []VerdictJustified
BY Invariance, PTL DEF Inv

\* A peer that stays as it is during a check gets the verdict that fits: the
\* probes of CheckPeer and Diagnose tell the outages apart.
THEOREM OutageIsClassified == Spec => []OutageClassified
BY Invariance, PTL DEF Inv
=============================================================================
