------------------------------- MODULE Health -------------------------------
(***************************************************************************)
(* RunChecks (internal/health/score.go): four checks of the local DNS      *)
(* service, one after the other, each a loop over processes, addresses or  *)
(* queries that stops at the first failure, and the score they add up to.  *)
(* The weights are filled in by runOnce (internal/agent/runner.go).        *)
(*                                                                         *)
(* The service is outside the repository.  It may change between any two   *)
(* probes, so that a result mixes several of its states:                   *)
(*   up, slow   answers queries, slow beyond latency_threshold             *)
(*   refusing   answers over UDP, but with an error code                   *)
(*   hung       the process exists and accepts TCP, and answers nothing    *)
(*   dead       no process                                                 *)
(***************************************************************************)
EXTENDS Policy, FiniteSets

CONSTANTS
  Configs,     \* health sections of configurations that passed Validate
  NProcesses,  \* number of process names
  NAddresses,  \* number of addresses probed
  NDomains     \* number of domains queried

Checks == {"Process", "TCP", "UDP", "DNS"}

\* The weights as configured, the checks that are switched on, and whether a
\* latency threshold is set.
ConfigRecords == [weights : [Checks -> 0..100], enabled : SUBSET Checks,
                  threshold : BOOLEAN]

ASSUME HealthParameters ==
  /\ Configs # {} /\ Configs \subseteq ConfigRecords
  /\ NProcesses \in Nat \ {0} /\ NAddresses \in Nat \ {0} /\ NDomains \in Nat \ {0}

Services == {"up", "slow", "refusing", "hung", "dead"}
DefaultWeight == 25

VARIABLES
  service,     \* state of the local DNS service
  cfg,         \* configuration of the cycle
  pc,          \* "idle" or the check in progress
  left,        \* probes left in the loop of that check
  anySlow, RawScore,
  lastHealth,  \* the last result
  \* history: the states of the service and the checks that failed during the
  \* cycle in progress or, when idle, the last one
  seen, failed

vars == <<service, cfg, pc, left, anySlow, RawScore, lastHealth, seen, failed>>

-----------------------------------------------------------------------------
\* A weight of zero is read as "key omitted".
weightOrDefault(configured) == IF configured > 0 THEN configured ELSE DefaultWeight

\* A check that is switched off has weight 0.
weight(c, check) == IF check \in c.enabled THEN weightOrDefault(c.weights[check]) ELSE 0

MaxScore(c) == weight(c, "Process") + weight(c, "TCP") + weight(c, "UDP") + weight(c, "DNS")

\* Variant: the score is not normalised.
ScoreOfRaw(raw, max) == raw

\* The normalised score, an integer percentage.
ScoreOf(raw, max) == IF max > 0 THEN (raw * 100) \div max ELSE 0

\* What one probe sees of the service: a process of that name, a completed
\* handshake, any response, a response with rcode NOERROR.
CheckProcess == service # "dead"
CheckTCP == service # "dead"
CheckUDP == service \in {"up", "slow", "refusing"}
CheckDNSQuery == service \in {"up", "slow"}

\* Whether a probe of the check passes now.
Passes(check) ==
  CASE check = "Process" -> CheckProcess
    [] check = "TCP"     -> CheckTCP
    [] check = "UDP"     -> CheckUDP
    [] check = "DNS"     -> CheckDNSQuery

Probes(check) ==
  CASE check = "Process" -> NProcesses
    [] check = "DNS"     -> NAddresses * NDomains
    [] OTHER             -> NAddresses

\* The check that follows; the DNS query is skipped when switched off.
After(check) ==
  CASE check = "Process" -> "TCP"
    [] check = "TCP"     -> "UDP"
    [] check = "UDP"     -> IF "DNS" \in cfg.enabled THEN "DNS" ELSE "score"
    [] check = "DNS"     -> "score"

\* Variant: a slow answer earns the whole weight.
AwardIgnoringLatency(check, slow) == weight(cfg, check)

\* What a check that passed adds: a slow answer earns half the DNS weight.
Award(check, slow) ==
  IF check = "DNS" /\ slow THEN weight(cfg, "DNS") \div 2 ELSE weight(cfg, check)

-----------------------------------------------------------------------------
Init ==
  /\ service \in Services
  /\ cfg \in Configs
  /\ pc = "idle" /\ left = 0 /\ anySlow = FALSE /\ RawScore = 0
  /\ lastHealth = [RawScore |-> 0, MaxScore |-> 0, Score |-> 0]
  /\ seen = {} /\ failed = {}

\* Variant: the result of the last cycle is not cleared.
BeginAgain(c) ==
  /\ pc = "idle"
  /\ cfg' = c
  /\ pc' = "Process" /\ left' = Probes("Process")
  /\ seen' = {service} /\ failed' = {}
  /\ UNCHANGED <<service, lastHealth, anySlow, RawScore>>

\* A reload may have changed the configuration before the cycle.
Begin(c) ==
  /\ pc = "idle"
  /\ cfg' = c
  /\ pc' = "Process" /\ left' = Probes("Process")
  /\ anySlow' = FALSE /\ RawScore' = 0
  /\ seen' = {service} /\ failed' = {}
  /\ UNCHANGED <<service, lastHealth>>

Goto(next) ==
  /\ pc' = next
  /\ left' = IF next = "score" THEN 0 ELSE Probes(next)

\* One round of the loop of a check.
Probe(check) ==
  LET slow == anySlow \/ (check = "DNS" /\ service = "slow" /\ cfg.threshold)
  IN /\ pc = check
     /\ \/ /\ Passes(check) /\ left > 1
           /\ left' = left - 1 /\ anySlow' = slow
           /\ UNCHANGED <<pc, RawScore, failed>>
        \/ /\ Passes(check) /\ left = 1
           /\ anySlow' = slow /\ RawScore' = RawScore + Award(check, slow)
           /\ Goto(After(check))
           /\ UNCHANGED failed
        \/ /\ ~Passes(check)
           /\ failed' = failed \cup {check}
           /\ Goto(After(check))
           /\ UNCHANGED <<anySlow, RawScore>>
     /\ UNCHANGED <<service, cfg, lastHealth, seen>>

Finish ==
  /\ pc = "score"
  /\ lastHealth' = [RawScore |-> RawScore, MaxScore |-> MaxScore(cfg),
                    Score |-> ScoreOf(RawScore, MaxScore(cfg))]
  /\ pc' = "idle"
  /\ UNCHANGED <<service, cfg, left, anySlow, RawScore, seen, failed>>

\* The service changes at any time.
Change(s) ==
  /\ service' = s
  /\ seen' = IF pc = "idle" THEN seen ELSE seen \cup {s}
  /\ UNCHANGED <<cfg, pc, left, anySlow, RawScore, lastHealth, failed>>

Next ==
  \/ \E c \in Configs : Begin(c)
  \/ \E check \in Checks : Probe(check)
  \/ Finish
  \/ \E s \in Services : Change(s)

Spec == Init /\ [][Next]_vars

-----------------------------------------------------------------------------
(* Properties.  They speak of a finished cycle: idle, and one has run.     *)

Finished == pc = "idle" /\ seen # {}

Counting == {c \in Checks : weight(cfg, c) > 0}

\* Every variable keeps its type; in particular the score is a percentage.
TypeOK ==
  /\ service \in Services /\ cfg \in Configs
  /\ pc \in Checks \cup {"idle", "score"}
  /\ left \in Nat /\ anySlow \in BOOLEAN
  /\ RawScore \in 0..MaxScore(cfg)
  /\ lastHealth \in [RawScore : Nat, MaxScore : Nat, Score : 0..100]
  /\ seen \subseteq Services /\ failed \subseteq Checks

\* The recovery hold relies on this: a result is fully healthy exactly when
\* some check counts, none of those failed, and no counted query was slow.
FullyHealthyIsExact ==
  Finished => (FullyHealthy(lastHealth) <=>
                 /\ Counting # {}
                 /\ failed \cap Counting = {}
                 /\ "DNS" \in Counting => ~anySlow)

\* A service that was dead during the whole cycle is UNHEALTHY, whatever the
\* cycles before it saw and whatever is switched on.
DeadIsUnhealthy ==
  Finished /\ seen = {"dead"} => StateFromScore(lastHealth.Score) = "UNHEALTHY"

\* With the DNS query worth more than a fifth of the score, a HEALTHY result
\* means that the service answered a query successfully during this very cycle.
HealthyAnswered ==
  Finished /\ weight(cfg, "DNS") * 5 > MaxScore(cfg)
           /\ StateFromScore(lastHealth.Score) = "HEALTHY" =>
    seen \cap {"up", "slow"} # {}
=============================================================================
