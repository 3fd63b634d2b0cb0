------------------------------- MODULE Config -------------------------------
(***************************************************************************)
(* internal/config: from the contents of the configuration file to the     *)
(* configuration an agent runs with.  A text is "" when the key was        *)
(* omitted, and otherwise a name for what Validate tells apart: "junk" is  *)
(* a value of the wrong form, "blank" one of spaces only, which has no     *)
(* form either.  Numbers are the numbers of the file.  A file is a record  *)
(* of how far the parser gets and of the values it finds.                  *)
(***************************************************************************)
EXTENDS Policy

\* The notification channels, with the settings each one cannot do without.
Required == [email |-> {"smtp_host", "from", "to"}, slack |-> {"webhook_url"},
             telegram |-> {"bot_token", "chat_id"}]

Checks == {"process", "tcp", "udp", "dns"}

-----------------------------------------------------------------------------
(* Lists with a single-valued older key and a default.                     *)

FirstOf(list, single, default) ==
  IF list # <<>> THEN list ELSE IF single # "" THEN <<single>> ELSE <<default>>

ProcessList(h) == FirstOf(h.process_names, h.process_name, "dnsdist")
BindAddressList(h) == FirstOf(h.bind_addresses, h.bind_address, "127.0.0.1:53")
DomainList(q) == FirstOf(q.domains, q.domain, "google.com")

\* The pairwise token of a peer, or the global one.
TokenFor(c, p) == IF c.peers[p].token # "" THEN c.peers[p].token ELSE c.token

\* What the heartbeat server accepts: the global token and the pairwise ones.
Tokens(c) == ({c.token} \cup {c.peers[p].token : p \in DOMAIN c.peers}) \ {""}

\* NewRunner adds a notifier for each enabled channel, in this order.
NotifierOf(c, ch) == IF c.channels[ch].enabled THEN <<ch>> ELSE <<>>
Notifiers(c) == NotifierOf(c, "email") \o NotifierOf(c, "slack") \o NotifierOf(c, "telegram")

-----------------------------------------------------------------------------
(* Validate collects every error it finds, each named here after the key.  *)

Malformed == {"blank", "junk"}

Failing(tests) == {key \in DOMAIN tests : ~tests[key]}

AgentErrors(c) ==
  Failing([interval |-> c.interval > 0,
           interface |-> c.interface # "",
           vhid |-> c.vhid > 0,
           vip_interface |-> c.vip_interface # "",
           recovery_confirm |-> c.recovery_confirm >= 0])

DNSErrors(q) ==
  Failing([domain |-> q.domains # <<>> \/ q.domain # "",
           domains |-> \A i \in DOMAIN q.domains : q.domains[i] \notin {"", "blank"},
           latency_threshold |-> q.latency_threshold >= 0,
           record_type |-> q.record_type \notin Malformed])

HealthErrors(h) ==
  Failing([bind_address |-> h.bind_address \notin Malformed,
           bind_addresses |-> \A i \in DOMAIN h.bind_addresses :
                                h.bind_addresses[i] \notin {""} \cup Malformed,
           weights |-> \A check \in Checks : h.weights[check] \in 0..100,
           process_names |-> \A i \in DOMAIN ProcessList(h) :
                               ProcessList(h)[i] \notin {"", "blank"}])
    \cup (IF h.dns_query.enabled THEN DNSErrors(h.dns_query) ELSE {})

TLSErrors(tls) ==
  IF tls.enabled THEN Failing([cert_file |-> tls.cert_file # "", key_file |-> tls.key_file # ""])
  ELSE {}

\* Variant: an unhealthy level equal to the degraded one passes.
LevelErrorsLoose(carp) ==
  Failing([demotion_healthy |-> carp.Healthy \in 0..255,
           demotion_degraded |-> carp.Degraded \in 0..255,
           demotion_unhealthy |-> carp.Unhealthy \in 0..255,
           unhealthy_above_degraded |-> carp.Unhealthy >= carp.Degraded,
           degraded_from_healthy |-> carp.Degraded >= carp.Healthy])

\* The levels as they are written; the defaults for 0 come later.
LevelErrors(carp) ==
  Failing([demotion_healthy |-> carp.Healthy \in 0..255,
           demotion_degraded |-> carp.Degraded \in 0..255,
           demotion_unhealthy |-> carp.Unhealthy \in 0..255,
           unhealthy_above_degraded |-> carp.Unhealthy > carp.Degraded,
           degraded_from_healthy |-> carp.Degraded >= carp.Healthy])

PeerErrors(c) ==
  IF c.peer_enabled
  THEN Failing([token |-> c.token # "",
                bind |-> c.bind \notin {""} \cup Malformed,
                port |-> c.port \notin {""} \cup Malformed,
                dns_port |-> c.dns_port \notin Malformed,
                peers |-> \A p \in DOMAIN c.peers : /\ c.peers[p].ip \notin {""} \cup Malformed
                                                    /\ c.peers[p].name # ""])
  ELSE {}

NotifyErrors(c) ==
  Failing([cooldown |-> c.cooldown > 0, confirm |-> c.confirm >= 0])
    \cup UNION {Required[ch] \ c.channels[ch].settings :
                  ch \in {d \in DOMAIN Required : c.channels[d].enabled}}

ModeErrors(c) == IF c.mode \in {"", "sticky", "preempt"} THEN {} ELSE {"mode"}

Validate(c) ==
  AgentErrors(c) \cup HealthErrors(c.health) \cup TLSErrors(c.tls) \cup LevelErrors(c.carp)
    \cup PeerErrors(c) \cup ModeErrors(c) \cup NotifyErrors(c)

-----------------------------------------------------------------------------
(* Load.                                                                   *)

\* The old name of vip_loss_alert counts when the new one is absent or false.
applyDeprecatedAliases(c) ==
  [c EXCEPT !.vip_loss_alert = @ \/ c.master_loss_alert = "true"]

\* A reference to a variable that is not set stays in the text as it is.
Reference == "${DNS_HA_TOKEN}"
expandEnv(c, env) == [c EXCEPT !.token = IF @ = Reference /\ env # "" THEN env ELSE @]

\* The values of a file as the agent gets them.
Parsed(f, env) == applyDeprecatedAliases(expandEnv(f.values, env))

\* Why Load refuses a file.  The syntax and the keys are checked before the
\* variables are expanded; `typed' says whether every value then has its type.
LoadErrors(f, env) ==
  IF ~f.readable THEN {"read"}
  ELSE IF ~f.syntax THEN {"syntax"}
  ELSE IF f.unknown # {} THEN f.unknown
  ELSE IF ~f.typed THEN {"parse"}
  ELSE Validate(Parsed(f, env))

\* What -t reports: it goes on after an unknown key, to find all there is.
CheckConfig(f, env) ==
  IF ~f.readable THEN {"read"}
  ELSE IF ~f.syntax THEN {"syntax"}
  ELSE f.unknown \cup IF f.typed THEN Validate(Parsed(f, env)) ELSE {"parse"}

Accepted(f, env) == LoadErrors(f, env) = {}
=============================================================================
