----------------------------- MODULE MCLifecycle ----------------------------
(* A small instance of Lifecycle for TLC.                                  *)
EXTENDS Lifecycle, TLC

On(ch) == [enabled |-> TRUE, settings |-> Required[ch]]
Off == [enabled |-> FALSE, settings |-> {}]
Peer(token) == [ip |-> "10.0.0.2", name |-> "ns2", token |-> token]
NoQuery == [enabled |-> FALSE, domain |-> "", domains |-> <<>>, latency_threshold |-> 0,
            record_type |-> ""]

\* A configuration with mail and a webhook, and the demotion levels of the manual.
Plain ==
  [interval |-> 5, interface |-> "vtnet0", vip_interface |-> "vtnet1", vhid |-> 1,
   recovery_confirm |-> 0, mode |-> "",
   health |-> [process_name |-> "", process_names |-> <<>>, bind_address |-> "",
               bind_addresses |-> <<>>, weights |-> [check \in Checks |-> 25],
               dns_query |-> NoQuery],
   tls |-> [enabled |-> FALSE, cert_file |-> "", key_file |-> ""],
   carp |-> [Healthy |-> 0, Degraded |-> 50, Unhealthy |-> 255],
   peer_enabled |-> TRUE, token |-> Reference, bind |-> "10.0.0.1", port |-> ":8845",
   dns_port |-> "", peers |-> <<Peer("")>>,
   channels |-> [email |-> On("email"), slack |-> On("slack"), telegram |-> Off],
   cooldown |-> 300, confirm |-> 0, vip_loss_alert |-> FALSE, master_loss_alert |-> "true"]

\* Another interface, token, channel and mode; the degraded level is omitted.
Other ==
  [Plain EXCEPT !.vip_interface = "vtnet2", !.mode = "preempt", !.peers = <<Peer("pair")>>,
                !.channels = [email |-> Off, slack |-> Off, telegram |-> On("telegram")],
                !.carp = [Healthy |-> 0, Degraded |-> 0, Unhealthy |-> 20]]

\* No heartbeats, and a health section that uses every list.
Alone ==
  [Plain EXCEPT !.peer_enabled = FALSE, !.peers = <<>>, !.port = "",
                !.health.bind_addresses = <<"127.0.0.1:53">>,
                !.health.dns_query = [NoQuery EXCEPT !.enabled = TRUE, !.domains = <<"example.org">>],
                !.tls = [enabled |-> TRUE, cert_file |-> "cert", key_file |-> "key"]]

File(values) == [readable |-> TRUE, syntax |-> TRUE, unknown |-> {}, typed |-> TRUE,
                 values |-> values]

\* Files that Load refuses: at each stage, and for each part of Validate.
Refused ==
  [missing  |-> [File(Other) EXCEPT !.readable = FALSE],
   torn     |-> [File(Other) EXCEPT !.syntax = FALSE],
   typo     |-> [File(Other) EXCEPT !.unknown = {"healht"}],
   text     |-> [File(Other) EXCEPT !.typed = FALSE],
   agent    |-> File([Plain EXCEPT !.interval = 0]),
   health   |-> File([Plain EXCEPT !.health.dns_query.enabled = TRUE]),
   tls      |-> File([Plain EXCEPT !.tls.enabled = TRUE]),
   levels   |-> File([Plain EXCEPT !.carp.Degraded = 255]),
   peer     |-> File([Plain EXCEPT !.token = ""]),
   mode     |-> File([Plain EXCEPT !.mode = "junk"]),
   notify   |-> File([Plain EXCEPT !.channels.telegram.enabled = TRUE])]

AllFiles == [plain |-> File(Plain), other |-> File(Other), alone |-> File(Alone)] @@ Refused
TwoInterfaces == {"vtnet1", "vtnet2"}
=============================================================================
