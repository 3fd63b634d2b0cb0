----------------------------- MODULE PeerProbe ------------------------------
(***************************************************************************)
(* CheckPeer (internal/peer/peer.go): the heartbeat request to a peer and, *)
(* when it fails, the probes of internal/peer/probe.go whose answers       *)
(* Diagnose turns into a severity.                                         *)
(*                                                                         *)
(* The peer is outside the process: its host is up or down, its agent and  *)
(* its DNS server answer, hang (the kernel still accepts connections) or   *)
(* are dead (the kernel refuses them); an erring agent answers with a      *)
(* status other than 200 or a body that cannot be decoded.  A firewall may *)
(* drop the pings.  All of them may change between any two steps of a      *)
(* check, which takes seconds.                                             *)
(***************************************************************************)
EXTENDS Integers

CONSTANT Schemes   \* values of peer.tls.enabled that a reload may bring

ASSUME ProbeParameters == Schemes \subseteq BOOLEAN /\ Schemes # {}

Probes == {"Unknown", "OK", "Refused", "NoAnswer", "Unreachable"}
Severities == {"None", "HostDown", "AgentOnly", "Critical"}
Agents == {"up", "erring", "hung", "dead"}
Servers == {"up", "hung", "dead"}
Worlds == [host : {"up", "down"}, agent : Agents, dns : Servers, pingable : BOOLEAN]

VARIABLES
  world,     \* the peer as it is now
  tls,       \* peer.tls.enabled for this check
  pc,        \* the step of CheckPeer
  OK, AgentProbe, PingOK, TCP53, UDP53OK, Severity,   \* fields of PeerHealth
  \* history: what was true of the peer at some point of the check, and whether
  \* it has stayed the same since the check began
  seen, steady

past == <<seen, steady>>
ph == <<OK, AgentProbe, PingOK, TCP53, UDP53OK, Severity>>
vars == <<world, tls, pc, ph, past>>

\* What the properties tell apart in a peer.
Up(w) == w.host = "up"
Serves(w) == Up(w) /\ w.dns = "up"
Answers(w) == Up(w) /\ w.agent = "up"
Facts(w) == {IF Up(w) THEN "up" ELSE "down", IF Serves(w) THEN "serving" ELSE "silent",
             IF Answers(w) THEN "answering" ELSE "mute"}

\* The fields of a PeerHealth that has just been made.
Fresh ==
  /\ OK' = FALSE /\ AgentProbe' = "Unknown" /\ PingOK' = FALSE
  /\ TCP53' = "Unknown" /\ UDP53OK' = FALSE /\ Severity' = "None"

Init ==
  /\ world \in Worlds
  /\ tls \in Schemes
  /\ pc = "idle"
  /\ OK = FALSE /\ AgentProbe = "Unknown" /\ PingOK = FALSE
  /\ TCP53 = "Unknown" /\ UDP53OK = FALSE /\ Severity = "None"
  /\ seen = {} /\ steady = FALSE

-----------------------------------------------------------------------------
\* How a TCP connection to a server in state s of the peer ends.
Connect(w, s) ==
  IF w.host = "down" THEN "Unreachable" ELSE IF s = "dead" THEN "Refused" ELSE "OK"

Begin ==
  /\ pc = "idle"
  /\ Fresh
  /\ tls' \in Schemes
  /\ pc' = "dial"
  /\ seen' = Facts(world) /\ steady' = TRUE
  /\ UNCHANGED world

\* Variant: every failed request counts as a hang.
classifyDialErrorAsHang(outcome) == "NoAnswer"

\* classifyHTTPError for an error of the dial: it keeps apart what
\* http.Client.Timeout would mix up.
classifyDialError(outcome) == outcome

\* Anything that fails after the connection was accepted is a hang.
classifyLateError == "NoAnswer"

Fail(probe) == AgentProbe' = probe /\ pc' = "ping"

Dial ==
  LET outcome == Connect(world, world.agent)
  IN /\ pc = "dial"
     /\ \/ /\ outcome = "OK"
           /\ pc' = IF tls THEN "handshake" ELSE "header"
           /\ UNCHANGED AgentProbe
        \/ outcome # "OK" /\ Fail(classifyDialError(outcome))
     /\ UNCHANGED <<world, tls, OK, PingOK, TCP53, UDP53OK, Severity, past>>

\* The transport sets no TLSHandshakeTimeout: a hung agent is waited for.
Handshake ==
  /\ pc = "handshake"
  /\ \/ /\ world.host = "up" /\ world.agent \in {"up", "erring"}
        /\ pc' = "header"
        /\ UNCHANGED AgentProbe
     \/ /\ world.host = "down" \/ world.agent = "dead"
        /\ Fail(classifyLateError)
  /\ UNCHANGED <<world, tls, OK, PingOK, TCP53, UDP53OK, Severity, past>>

\* The headers of an answer: its status is 200 or not.
Answered ==
  /\ world.host = "up"
  /\ \/ world.agent \in {"up", "erring"} /\ pc' = "body"
     \/ world.agent = "erring" /\ pc' = "errorBody"
  /\ UNCHANGED AgentProbe

\* Variant: no timeout for the headers.
HeaderWithoutTimeout ==
  /\ pc = "header"
  /\ \/ Answered
     \/ (world.host = "down" \/ world.agent = "dead") /\ Fail(classifyLateError)
  /\ UNCHANGED <<world, tls, OK, PingOK, TCP53, UDP53OK, Severity, past>>

\* ResponseHeaderTimeout ends the wait for an agent that does not answer.
Header ==
  /\ pc = "header"
  /\ \/ Answered
     \/ (world.host = "down" \/ world.agent \in {"hung", "dead"}) /\ Fail(classifyLateError)
  /\ UNCHANGED <<world, tls, OK, PingOK, TCP53, UDP53OK, Severity, past>>

\* The body, for which there is no deadline: an agent that hangs after its
\* headers is waited for, while a host that is gone fails the keepalives of the
\* connection.  When the body breaks off or cannot be decoded, the check ends
\* without a probe.  The body of an error is read too.
Body ==
  /\ pc \in {"body", "errorBody"}
  /\ \/ /\ pc = "body" /\ world.host = "up" /\ world.agent = "up"
        /\ OK' = TRUE /\ PingOK' = TRUE
     \/ /\ pc = "errorBody" \/ world.host = "down" \/ world.agent # "up"
        /\ world.host = "down" \/ world.agent # "hung"
        /\ UNCHANGED <<OK, PingOK>>
  /\ pc' = "idle"
  /\ UNCHANGED <<world, tls, AgentProbe, TCP53, UDP53OK, Severity, past>>

\* The fallback probes, in their order; ICMP is always tried.
Ping ==
  /\ pc = "ping"
  /\ PingOK' = (world.host = "up" /\ world.pingable)
  /\ pc' = "tcp"
  /\ UNCHANGED <<world, tls, OK, AgentProbe, TCP53, UDP53OK, Severity, past>>

probeTCP ==
  /\ pc = "tcp"
  /\ TCP53' = Connect(world, world.dns)
  /\ pc' = "udp"
  /\ UNCHANGED <<world, tls, OK, AgentProbe, PingOK, UDP53OK, Severity, past>>

\* Variant: a refused connection is no sign of life.
DiagnoseWithoutRefused(agent, tcp53, udp53OK, pingOK) ==
  IF ~(udp53OK \/ agent \in {"OK", "NoAnswer"} \/ tcp53 = "OK" \/ pingOK) THEN "HostDown"
  ELSE IF udp53OK THEN "AgentOnly" ELSE "Critical"

\* DNS delivery is judged by the UDP query alone; whether the host is up by
\* anything that its kernel must have answered.
Diagnose(agent, tcp53, udp53OK, pingOK) ==
  LET hostUp == \/ udp53OK
                \/ agent \in {"OK", "Refused", "NoAnswer"}
                \/ tcp53 \in {"OK", "Refused"}
                \/ pingOK
  IN IF ~hostUp THEN "HostDown" ELSE IF udp53OK THEN "AgentOnly" ELSE "Critical"

\* The UDP query, and the diagnosis.
Query ==
  /\ pc = "udp"
  /\ UDP53OK' = (world.host = "up" /\ world.dns = "up")
  /\ Severity' = Diagnose(AgentProbe, TCP53, UDP53OK', PingOK)
  /\ pc' = "idle"
  /\ UNCHANGED <<world, tls, OK, AgentProbe, PingOK, TCP53, past>>

\* The peer changes.
Change(w) ==
  /\ world' = w
  /\ seen' = IF pc = "idle" THEN seen ELSE seen \cup Facts(w)
  /\ steady' = FALSE
  /\ UNCHANGED <<tls, pc, ph>>

\* One of the host, the agent, the DNS server and the firewall changes at a time.
Neighbours ==
  ({[world EXCEPT !.host = h] : h \in {"up", "down"}}
     \cup {[world EXCEPT !.agent = a] : a \in Agents}
     \cup {[world EXCEPT !.dns = s] : s \in Servers}
     \cup {[world EXCEPT !.pingable = ~@]}) \ {world}

Check == Begin \/ Dial \/ Handshake \/ Header \/ Body \/ Ping \/ probeTCP \/ Query

Next == Check \/ \E w \in Neighbours : Change(w)

Spec == Init /\ [][Next]_vars

\* Every step that has a timeout, or an answer to take, is taken; the handshake
\* and the body have none and wait for as long as the agent hangs.
FairSpec == Spec /\ WF_vars(Check)

-----------------------------------------------------------------------------
(* Properties.                                                             *)

Finished == pc = "idle" /\ seen # {}

\* No verdict without a reason, however the peer changes during the check and
\* whether or not pings get through: a host called down was down at some point,
\* a critical one was up without serving DNS at some point, and one whose agent
\* alone is to blame did serve DNS while its agent did not answer.  A peer that
\* answered carries no verdict of an earlier check.
VerdictJustified ==
  Finished =>
    /\ Severity = "HostDown" => "down" \in seen
    /\ Severity = "Critical" => {"up", "silent"} \subseteq seen
    /\ Severity = "AgentOnly" => {"serving", "mute"} \subseteq seen
    /\ OK => "answering" \in seen /\ Severity = "None"

\* A peer that stays as it is gets the verdict that fits.
OutageClassified ==
  Finished /\ steady =>
    /\ Answers(world) => OK
    /\ ~Up(world) => Severity = "HostDown"
    /\ Up(world) /\ world.agent \in {"hung", "dead"} =>
         Severity = IF Serves(world) THEN "AgentOnly" ELSE "Critical"

\* What has no deadline.
Unbounded == {"handshake", "body", "errorBody"}

\* Every check comes to an end, whatever state the peer is in, with one
\* exception: in the TLS handshake, or after the headers, it waits for an agent
\* that hangs again and again, for ever.  A hang before the headers, a host that
\* goes down and a refused connection never hold up the cycle.
CheckReturns ==
  \/ []<>(pc = "idle")
  \/ <>[](pc \in Unbounded) /\ []<>(Up(world) /\ world.agent = "hung")
=============================================================================
