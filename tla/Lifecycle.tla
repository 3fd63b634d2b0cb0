------------------------------ MODULE Lifecycle -----------------------------
(***************************************************************************)
(* One agent process from start to exit (cmd/dns-ha-agent/main.go, and     *)
(* NewRunner, Run, Reload and Stop of internal/agent/runner.go) with its   *)
(* four goroutines: the runner (`rpc'), the signal handler (`hpc'), the    *)
(* heartbeat server (`server') and the goroutine that shuts it down        *)
(* (`closer').  They meet in two channels of capacity one, a channel that  *)
(* is closed and a wait group.                                             *)
(*                                                                         *)
(* A cycle is reduced to the command it gives to the VIP interface, by     *)
(* name, and to an alert that goes through the notifiers one by one.  What *)
(* a cycle decides is free here, and Runner has its single commands.  The  *)
(* configuration file may have any contents of Files whenever it is read.  *)
(***************************************************************************)
EXTENDS Config, FiniteSets

CONSTANTS
  Contents,     \* Contents[f]: what the configuration file f holds
  Env,          \* value of the environment variable in the agent, "" if unset
  Ifaces,       \* interfaces of the node
  Hangs,        \* whether a peer or a mail server may stay silent where the agent
                \* waits for it without a deadline
  MaxSignals,   \* bound on signals
  MaxFailures   \* bound on failing commands and sends

\* A configuration is known by the file it came from.
Files == DOMAIN Contents
Configs == {f \in Files : Accepted(Contents[f], Env)}
Values == [f \in Files |-> Parsed(Contents[f], Env)]
Tested == {f \in Files : CheckConfig(Contents[f], Env) = {}}
NotifiersOf == [f \in Files |-> Notifiers(Values[f])]

ASSUME LifecycleAssumption ==
  /\ Configs # {} /\ \A c \in Configs : Values[c].vip_interface \in Ifaces
  /\ Hangs \in BOOLEAN /\ MaxSignals \in Nat /\ MaxFailures \in Nat

None == "none"

VARIABLES
  \* the signal handler: its channel, control point and local configuration
  sigCh, hpc, newCfg, stopIface,
  \* fields of Runner; `built' stands for the heartbeat server and the notifiers:
  \* it is the configuration they were made from
  cfg, reloadCh, built, lastIfaceDown, done,
  \* the runner goroutine, and the notifiers the alert in progress has still to reach
  rpc, pending,
  \* the two goroutines of the heartbeat server
  server, closer,
  iface,        \* the interfaces of the node, by name: up or not
  signals, failures,
  \* history: the last configuration that Load accepted and whether the full
  \* channel dropped it; the notifiers the last alert was handed to; the
  \* interfaces that went out of the agent's hands while they were down
  accepted, dropped, tried, stray

handler  == <<sigCh, hpc, newCfg, stopIface>>
runner   == <<rpc, pending>>
http     == <<server, closer>>
budgets  == <<signals, failures>>
history  == <<accepted, dropped, tried, stray>>
vars == <<handler, cfg, reloadCh, built, lastIfaceDown, done, runner, http, iface,
          budgets, history>>

Running == rpc # "exited"

\* NewRunner makes the heartbeat server, with its tokens and its interface, and
\* the notifiers from the first configuration; nothing replaces them later.
NewRunner(c) ==
  /\ cfg = c /\ reloadCh = <<>>
  /\ built = c
  /\ lastIfaceDown = FALSE /\ done = FALSE

\* Run starts the server's goroutines, and the first cycle comes before the
\* select.  A file that Load refuses ends main before that.
Init ==
  /\ \E c \in Configs : NewRunner(c)
  /\ sigCh = <<>> /\ hpc = "wait" /\ newCfg = <<>> /\ stopIface = None
  /\ rpc = "cycle" /\ pending = <<>>
  /\ server = (IF Values[cfg].peer_enabled THEN "starting" ELSE "off")
  /\ closer = (IF Values[cfg].peer_enabled THEN "waiting" ELSE "off")
  /\ iface = [i \in Ifaces |-> TRUE]
  /\ signals = 0 /\ failures = 0
  /\ accepted = cfg /\ dropped = FALSE /\ tried = {} /\ stray = {}

\* A command or a send that fails; its error is logged and nothing else.
Fails == failures < MaxFailures /\ failures' = failures + 1
Works == UNCHANGED failures

\* Stop has read the configuration and the memory of the interface.
StopRead == hpc \in {"stopUp", "close", "join", "returned"}

\* ifconfig up and down.  An interface that could not be raised, or that a cycle
\* takes down when Stop has already read what to raise, is out of hand.
RaiseIface(i) ==
  \/ Works /\ iface' = [iface EXCEPT ![i] = TRUE] /\ stray' = stray \ {i}
  \/ Fails /\ UNCHANGED iface /\ stray' = IF iface[i] THEN stray ELSE stray \cup {i}

LowerIface(i) ==
  \/ /\ Works /\ iface' = [iface EXCEPT ![i] = FALSE]
     /\ stray' = IF StopRead THEN stray \cup {i} ELSE stray \ {i}
  \/ Fails /\ UNCHANGED <<iface, stray>>

-----------------------------------------------------------------------------
(* Signals.  signal.Notify does not wait: a signal that finds the channel  *)
(* full is lost.                                                           *)

Signal(s) ==
  /\ Running
  /\ signals < MaxSignals
  /\ signals' = signals + 1
  /\ sigCh' = IF sigCh = <<>> THEN <<s>> ELSE sigCh
  /\ UNCHANGED <<hpc, newCfg, stopIface, cfg, reloadCh, built, lastIfaceDown, done, runner,
                 http, iface, failures, history>>

Receive ==
  /\ Running /\ hpc = "wait"
  /\ sigCh # <<>>
  /\ sigCh' = Tail(sigCh)
  /\ hpc' = IF Head(sigCh) = "HUP" THEN "load" ELSE "stop"
  /\ UNCHANGED <<newCfg, stopIface, cfg, reloadCh, built, lastIfaceDown, done, runner, http,
                 iface, budgets, history>>

\* Variant: a file that Load refuses is handed on all the same.
LoadFileUnchecked(f) ==
  /\ Running /\ hpc = "load"
  /\ hpc' = "reload" /\ newCfg' = <<f>>
  /\ accepted' = IF f \in Configs THEN f ELSE accepted
  /\ UNCHANGED <<sigCh, stopIface, cfg, reloadCh, built, lastIfaceDown, done, runner, http,
                 iface, budgets, dropped, tried, stray>>

\* A refused file keeps the current configuration.
LoadFile(f) ==
  /\ Running /\ hpc = "load"
  /\ \/ /\ f \in Configs
        /\ hpc' = "reload" /\ newCfg' = <<f>> /\ accepted' = f
     \/ f \notin Configs /\ hpc' = "wait" /\ UNCHANGED <<newCfg, accepted>>
  /\ UNCHANGED <<sigCh, stopIface, cfg, reloadCh, built, lastIfaceDown, done, runner, http,
                 iface, budgets, dropped, tried, stray>>

\* Reload: a full channel keeps the older configuration and drops the new one.
Reload ==
  /\ Running /\ hpc = "reload"
  /\ reloadCh' = IF reloadCh = <<>> THEN newCfg ELSE reloadCh
  /\ dropped' = (reloadCh # <<>>)
  /\ hpc' = "wait" /\ newCfg' = <<>>
  /\ UNCHANGED <<sigCh, stopIface, cfg, built, lastIfaceDown, done, runner, http, iface,
                 budgets, accepted, tried, stray>>

-----------------------------------------------------------------------------
(* Stop, in the signal handler.                                            *)

\* Variant: the interface of the configuration the process started with.
StopInterfaceAtStart == Values[built].vip_interface

\* Stop takes the configuration in force, once.
StopInterface == Values[cfg].vip_interface

StopBegin ==
  /\ Running /\ hpc = "stop"
  /\ stopIface' = StopInterface
  /\ hpc' = IF lastIfaceDown THEN "stopUp" ELSE "close"
  /\ UNCHANGED <<sigCh, newCfg, cfg, reloadCh, built, lastIfaceDown, done, runner, http, iface,
                 budgets, history>>

StopUp ==
  /\ Running /\ hpc = "stopUp"
  /\ RaiseIface(stopIface)
  /\ lastIfaceDown' = FALSE
  /\ hpc' = "close"
  /\ UNCHANGED <<sigCh, newCfg, stopIface, cfg, reloadCh, built, done, runner, http, signals,
                 accepted, dropped, tried>>

StopClose ==
  /\ Running /\ hpc = "close"
  /\ done' = TRUE
  /\ hpc' = "join"
  /\ UNCHANGED <<sigCh, newCfg, stopIface, cfg, reloadCh, built, lastIfaceDown, runner, http,
                 iface, budgets, history>>

\* wg.Wait: both goroutines of the server have returned.
StopJoin ==
  /\ Running /\ hpc = "join"
  /\ server \in {"off", "closed"} /\ closer \in {"off", "finished"}
  /\ hpc' = "returned"
  /\ UNCHANGED <<sigCh, newCfg, stopIface, cfg, reloadCh, built, lastIfaceDown, done, runner,
                 http, iface, budgets, history>>

-----------------------------------------------------------------------------
(* The heartbeat server.                                                   *)

\* ListenAndServe stores the server for Shutdown, then listens.
ServerStore ==
  /\ Running /\ server = "starting"
  /\ server' = "stored"
  /\ UNCHANGED <<handler, cfg, reloadCh, built, lastIfaceDown, done, runner, closer, iface,
                 budgets, history>>

\* The address may be taken: the agent goes on without a server.
ServerListen ==
  /\ Running /\ server = "stored"
  /\ \/ Works /\ server' = "listening"
     \/ Fails /\ server' = "closed"
  /\ UNCHANGED <<handler, cfg, reloadCh, built, lastIfaceDown, done, runner, closer, iface,
                 signals, history>>

\* Shutdown has nothing to do when no server has been stored yet.
Shutdown ==
  /\ Running /\ closer = "waiting" /\ done
  /\ closer' = "finished"
  /\ server' = IF server = "starting" THEN server ELSE "closed"
  /\ UNCHANGED <<handler, cfg, reloadCh, built, lastIfaceDown, done, runner, iface, budgets,
                 history>>

-----------------------------------------------------------------------------
(* The runner.                                                             *)

Ticker ==
  /\ rpc = "select"
  /\ rpc' = "cycle"
  /\ UNCHANGED <<handler, cfg, reloadCh, built, lastIfaceDown, done, pending, http, iface,
                 budgets, history>>

\* A cycle moves the interface of the configuration in force when its wish
\* differs from what it remembers, and raises an alert or not.
Cycle(down, alert) ==
  /\ rpc = "cycle"
  /\ \/ down /\ ~lastIfaceDown /\ LowerIface(Values[cfg].vip_interface)
     \/ ~down /\ lastIfaceDown /\ RaiseIface(Values[cfg].vip_interface)
     \/ down = lastIfaceDown /\ Works /\ UNCHANGED <<iface, stray>>
  /\ lastIfaceDown' = down
  /\ rpc' = IF alert THEN "send" ELSE "select"
  /\ pending' = IF alert THEN NotifiersOf[built] ELSE <<>>
  /\ UNCHANGED <<handler, cfg, reloadCh, built, done, http, signals, accepted, dropped, tried>>

\* Variant: the first error ends the dispatch.
SendUntilError ==
  /\ rpc = "send" /\ pending # <<>>
  /\ tried' = tried \cup {Head(pending)}
  /\ \/ Works /\ pending' = Tail(pending)
     \/ Fails /\ pending' = <<>>
  /\ UNCHANGED <<handler, cfg, reloadCh, built, lastIfaceDown, done, rpc, http, iface,
                 signals, accepted, dropped, stray>>

\* One notifier after the other; an error is logged and the loop goes on.
Send ==
  /\ rpc = "send" /\ pending # <<>>
  /\ tried' = tried \cup {Head(pending)}
  /\ Works \/ Fails
  /\ pending' = Tail(pending)
  /\ UNCHANGED <<handler, cfg, reloadCh, built, lastIfaceDown, done, rpc, http, iface,
                 signals, accepted, dropped, stray>>

\* What has no deadline in a cycle: the TLS handshake with a peer and the body of
\* its answer, both before the cycle gives a command, and smtp.SendMail.  A wait
\* that ends after all is a slow step and no hang.
Hang ==
  /\ Hangs
  /\ \/ rpc = "cycle" /\ Values[cfg].peer_enabled /\ Values[cfg].peers # <<>>
     \/ rpc = "send" /\ pending # <<>> /\ Head(pending) = "email"
  /\ rpc' = "hung"
  /\ UNCHANGED <<handler, cfg, reloadCh, built, lastIfaceDown, done, pending, http, iface,
                 budgets, history>>

EndOfCycle ==
  /\ rpc = "send" /\ pending = <<>>
  /\ rpc' = "select"
  /\ tried' = {}
  /\ UNCHANGED <<handler, cfg, reloadCh, built, lastIfaceDown, done, pending, http, iface,
                 budgets, accepted, dropped, stray>>

\* The new configuration is in force; what NewRunner built stays.  An interface
\* that is down and no longer the configured one is out of hand.
ApplyReload ==
  /\ rpc = "select" /\ reloadCh # <<>>
  /\ cfg' = Head(reloadCh)
  /\ reloadCh' = Tail(reloadCh)
  /\ stray' = LET old == Values[cfg].vip_interface
              IN IF ~iface[old] /\ Values[cfg'].vip_interface # old THEN stray \cup {old} ELSE stray
  /\ UNCHANGED <<handler, built, lastIfaceDown, done, runner, http, iface, budgets, accepted,
                 dropped, tried>>

\* Variant: main waits for Stop to return.
ExitAfterStop ==
  /\ rpc = "select" /\ done /\ hpc = "returned"
  /\ rpc' = "exited"
  /\ UNCHANGED <<handler, cfg, reloadCh, built, lastIfaceDown, done, pending, http, iface,
                 budgets, history>>

\* Run returns, and main with it, whatever the other goroutines are doing.
Exit ==
  /\ rpc = "select" /\ done
  /\ rpc' = "exited"
  /\ UNCHANGED <<handler, cfg, reloadCh, built, lastIfaceDown, done, pending, http, iface,
                 budgets, history>>

-----------------------------------------------------------------------------
Handler ==
  \/ Receive \/ (\E f \in Files : LoadFile(f)) \/ Reload
  \/ StopBegin \/ StopUp \/ StopClose \/ StopJoin

Server == ServerStore \/ ServerListen \/ Shutdown

Work ==
  \/ Ticker \/ (\E down, alert \in BOOLEAN : Cycle(down, alert))
  \/ Send \/ EndOfCycle

Next ==
  \/ \E s \in {"HUP", "TERM"} : Signal(s)
  \/ Handler \/ Server \/ Work \/ Hang \/ ApplyReload \/ Exit

Spec == Init /\ [][Next]_vars

\* Every goroutine goes on, but for a cycle that hangs.  The select chooses at
\* random among the cases that are ready, so that one that is ready again and
\* again is taken in the end.
FairSpec ==
  /\ Spec
  /\ WF_vars(Handler) /\ WF_vars(Server) /\ WF_vars(Work)
  /\ SF_vars(ApplyReload) /\ SF_vars(Exit)

-----------------------------------------------------------------------------
(* Properties.                                                             *)

Hung == rpc = "hung"

\* Every variable keeps its type; only configurations that Load accepted are in
\* force or on their way.
TypeOK ==
  /\ sigCh \in {<<>>, <<"HUP">>, <<"TERM">>}
  /\ hpc \in {"wait", "load", "reload", "stop", "stopUp", "close", "join", "returned"}
  /\ newCfg \in {<<>>} \cup {<<c>> : c \in Configs} /\ stopIface \in Ifaces \cup {None}
  /\ cfg \in Configs
  /\ reloadCh \in {<<>>} \cup {<<c>> : c \in Configs}
  /\ lastIfaceDown \in BOOLEAN /\ done \in BOOLEAN
  /\ rpc \in {"cycle", "send", "hung", "select", "exited"}
  /\ server \in {"off", "starting", "stored", "listening", "closed"}
  /\ closer \in {"off", "waiting", "finished"}
  /\ iface \in [Ifaces -> BOOLEAN] /\ stray \subseteq Ifaces

\* What the runner does with a configuration presumes: a ticker and a cooldown
\* of positive length, complete channels, no empty name or address to probe, and
\* levels that rise with the trouble.  The last holds after the defaults too,
\* unless the degraded level was omitted or 0 and the unhealthy one is not above
\* its default.  A configuration that fails -t is never in force.
UsableConfig ==
  LET c == Values[cfg]
      d == demotionLevels(c.carp)
  IN /\ cfg \in Tested
     /\ c.interval > 0 /\ c.cooldown > 0
     /\ \A list \in {ProcessList(c.health), BindAddressList(c.health)} :
          \A i \in DOMAIN list : list[i] \notin {"", "blank"}
     /\ c.health.dns_query.enabled =>
          \A i \in DOMAIN DomainList(c.health.dns_query) : DomainList(c.health.dns_query)[i] # ""
     /\ \A ch \in DOMAIN Required : c.channels[ch].enabled =>
          Required[ch] \subseteq c.channels[ch].settings
     /\ d.Healthy <= d.Degraded
     /\ d.Degraded < d.Unhealthy \/ (c.carp.Degraded = 0 /\ c.carp.Unhealthy <= 50)

\* An interface that is down is the configured one, the runner remembers it, and
\* Stop has not ended yet; or it went out of hand in one of three ways: the
\* command to raise it failed, a reload named another interface while it was
\* down, or a cycle took it down beside a Stop that had read what to raise.  So
\* a process that exits leaves no other interface down, whatever else failed,
\* was reloaded or overlapped before.
NothingLeftDown ==
  \A i \in Ifaces : ~iface[i] =>
    i \in stray \/ (lastIfaceDown /\ i = Values[cfg].vip_interface /\ ~done)

\* An alert is handed to every notifier, also when an earlier one fails.
AlertTriesAll ==
  rpc = "send" /\ pending = <<>> => tried = {NotifiersOf[built][i] : i \in DOMAIN NotifiersOf[built]}

\* A SIGTERM that found room in the channel ends the process, whatever the
\* handler is busy with, whether or not the server ever came up or its shutdown
\* found it.  Only a cycle that hangs, on a peer or on a mail server, prevents it.
AcceptedTermEnds ==
  (sigCh = <<"TERM">>) ~> (rpc = "exited" \/ Hung)

\* The last configuration that Load accepted always comes into force: the
\* runner catches up with the handler again and again, unless the full channel
\* dropped that configuration, the process is stopped or a cycle hangs.
LatestTakesOver ==
  <>(done \/ Hung) \/ []<>(cfg = accepted \/ dropped)

-----------------------------------------------------------------------------
(* What the documentation says and the code does not do.                   *)

\* docs/architecture.md: after a reload the notify settings apply, while the
\* peers' token needs a restart.
ReloadAsDocumented ==
  rpc = "cycle" =>
    /\ NotifiersOf[built] = NotifiersOf[cfg]
    /\ \A p \in DOMAIN Values[cfg].peers : TokenFor(Values[cfg], p) \in Tokens(Values[built])
=============================================================================
