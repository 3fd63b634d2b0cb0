--------------------------- MODULE LifecycleProofs --------------------------
(***************************************************************************)
(* Theorems about Lifecycle, for any configuration files, any interfaces   *)
(* and any number of signals and failures.                                 *)
(***************************************************************************)
EXTENDS Lifecycle, TLAPS

-----------------------------------------------------------------------------
(* Facts about configurations.                                             *)

\* Validate finds nothing in a configuration that Load accepts, and neither does -t.
LEMMA AcceptedIsValid ==
  ASSUME NEW c \in Configs
  PROVE  Validate(Values[c]) = {} /\ c \in Tested /\ c \in Files
<1>1. c \in Files /\ LoadErrors(Contents[c], Env) = {}
  BY DEF Configs, Accepted
<1>2. Values[c] = Parsed(Contents[c], Env)
  BY <1>1 DEF Values
<1>3. /\ Contents[c].readable /\ Contents[c].syntax /\ Contents[c].unknown = {}
      /\ Contents[c].typed /\ Validate(Parsed(Contents[c], Env)) = {}
  BY <1>1 DEF LoadErrors
<1>4. CheckConfig(Contents[c], Env) = {}
  BY <1>3 DEF CheckConfig
<1> QED
  BY <1>1, <1>2, <1>3, <1>4 DEF Tested

\* Failing leaves out exactly the tests that hold.
LEMMA NoneFailing ==
  ASSUME NEW tests, Failing(tests) = {}, NEW key \in DOMAIN tests
  PROVE  tests[key]
BY DEF Failing

\* The parts of Validate that the runner relies on.
LEMMA ValidParts ==
  ASSUME NEW c, Validate(c) = {}
  PROVE  /\ c.interval > 0
         /\ c.cooldown > 0
         /\ c.carp.Healthy \in 0..255 /\ c.carp.Degraded \in 0..255
         /\ c.carp.Unhealthy \in 0..255
         /\ c.carp.Unhealthy > c.carp.Degraded /\ c.carp.Degraded >= c.carp.Healthy
         /\ \A ch \in DOMAIN Required : c.channels[ch].enabled =>
              Required[ch] \subseteq c.channels[ch].settings
<1>1. /\ AgentErrors(c) = {} /\ LevelErrors(c.carp) = {} /\ NotifyErrors(c) = {}
  BY DEF Validate
<1>2. c.interval > 0
  <2> DEFINE tests == [interval |-> c.interval > 0, interface |-> c.interface # "",
                       vhid |-> c.vhid > 0, vip_interface |-> c.vip_interface # "",
                       recovery_confirm |-> c.recovery_confirm >= 0]
  <2>1. Failing(tests) = {} /\ "interval" \in DOMAIN tests
    BY <1>1 DEF AgentErrors
  <2>2. tests["interval"]
    BY <2>1, NoneFailing
  <2> QED
    BY <2>2
<1>3. c.cooldown > 0
  <2> DEFINE tests == [cooldown |-> c.cooldown > 0, confirm |-> c.confirm >= 0]
  <2>1. Failing(tests) = {} /\ "cooldown" \in DOMAIN tests
    BY <1>1 DEF NotifyErrors
  <2>2. tests["cooldown"]
    BY <2>1, NoneFailing
  <2> QED
    BY <2>2
<1>4. /\ c.carp.Healthy \in 0..255 /\ c.carp.Degraded \in 0..255
      /\ c.carp.Unhealthy \in 0..255
      /\ c.carp.Unhealthy > c.carp.Degraded /\ c.carp.Degraded >= c.carp.Healthy
  <2> DEFINE tests == [demotion_healthy |-> c.carp.Healthy \in 0..255,
                       demotion_degraded |-> c.carp.Degraded \in 0..255,
                       demotion_unhealthy |-> c.carp.Unhealthy \in 0..255,
                       unhealthy_above_degraded |-> c.carp.Unhealthy > c.carp.Degraded,
                       degraded_from_healthy |-> c.carp.Degraded >= c.carp.Healthy]
  <2>1. /\ Failing(tests) = {}
        /\ \A key \in {"demotion_healthy", "demotion_degraded", "demotion_unhealthy",
                       "unhealthy_above_degraded", "degraded_from_healthy"} :
             key \in DOMAIN tests
    BY <1>1 DEF LevelErrors
  <2>2. /\ tests["demotion_healthy"] /\ tests["demotion_degraded"]
        /\ tests["demotion_unhealthy"] /\ tests["unhealthy_above_degraded"]
        /\ tests["degraded_from_healthy"]
    <3> HIDE DEF tests
    <3> QED
      BY <2>1, NoneFailing
  <2> QED
    BY <2>2
<1>5. \A ch \in DOMAIN Required : c.channels[ch].enabled =>
        Required[ch] \subseteq c.channels[ch].settings
  <2> SUFFICES ASSUME NEW ch \in DOMAIN Required, c.channels[ch].enabled
               PROVE  Required[ch] \subseteq c.channels[ch].settings
    OBVIOUS
  <2>1. (Required[ch] \ c.channels[ch].settings) \subseteq NotifyErrors(c)
    BY DEF NotifyErrors
  <2> QED
    BY <2>1, <1>1
<1> QED
  BY <1>2, <1>3, <1>4, <1>5

\* An entry of such a list is one of the list, or the single name, or the default.
LEMMA FirstOfEntries ==
  ASSUME NEW list, NEW single, NEW default, NEW i \in DOMAIN FirstOf(list, single, default)
  PROVE  \/ i \in DOMAIN list /\ FirstOf(list, single, default)[i] = list[i]
         \/ single # "" /\ FirstOf(list, single, default)[i] = single
         \/ FirstOf(list, single, default)[i] = default
<1>1. \A x : \A j \in DOMAIN <<x>> : <<x>>[j] = x
  OBVIOUS
<1>2. FirstOf(list, single, default) \in {list, <<single>>, <<default>>}
  BY DEF FirstOf
<1>3. FirstOf(list, single, default) = <<single>> =>
        single # "" \/ FirstOf(list, single, default) \in {list, <<default>>}
  BY DEF FirstOf
<1> QED
  BY <1>1, <1>2, <1>3

\* The lists of names and addresses to probe, with the older keys and the defaults.
LEMMA ValidLists ==
  ASSUME NEW c, Validate(c) = {}
  PROVE  /\ \A list \in {ProcessList(c.health), BindAddressList(c.health)} :
              \A i \in DOMAIN list : list[i] \notin {"", "blank"}
         /\ c.health.dns_query.enabled =>
              \A i \in DOMAIN DomainList(c.health.dns_query) :
                DomainList(c.health.dns_query)[i] # ""
<1> DEFINE h == c.health
           q == h.dns_query
           addresses == \A i \in DOMAIN h.bind_addresses :
                          h.bind_addresses[i] \notin {""} \cup Malformed
           weights == \A check \in Checks : h.weights[check] \in 0..100
           names == \A i \in DOMAIN ProcessList(h) : ProcessList(h)[i] \notin {"", "blank"}
           tests == [bind_address |-> h.bind_address \notin Malformed,
                     bind_addresses |-> addresses, weights |-> weights,
                     process_names |-> names]
<1>1. Failing(tests) = {} /\ (q.enabled => DNSErrors(q) = {})
  BY DEF Validate, HealthErrors
<1>2. tests["bind_address"] /\ tests["bind_addresses"] /\ tests["process_names"]
  <2>1. /\ "bind_address" \in DOMAIN tests /\ "bind_addresses" \in DOMAIN tests
        /\ "process_names" \in DOMAIN tests
    OBVIOUS
  <2> HIDE DEF tests
  <2> QED
    BY <1>1, <2>1, NoneFailing
<1>3. h.bind_address \notin Malformed /\ addresses /\ names
  BY <1>2
<1>4. \A i \in DOMAIN BindAddressList(h) : BindAddressList(h)[i] \notin {"", "blank"}
  <2> TAKE i \in DOMAIN BindAddressList(h)
  <2>1. \/ i \in DOMAIN h.bind_addresses /\ BindAddressList(h)[i] = h.bind_addresses[i]
        \/ h.bind_address # "" /\ BindAddressList(h)[i] = h.bind_address
        \/ BindAddressList(h)[i] = "127.0.0.1:53"
    BY FirstOfEntries DEF BindAddressList
  <2> QED
    BY <2>1, <1>3 DEF Malformed
<1>5. ASSUME q.enabled
      PROVE  \A i \in DOMAIN DomainList(q) : DomainList(q)[i] # ""
  <2> DEFINE each == \A i \in DOMAIN q.domains : q.domains[i] \notin {"", "blank"}
             asked == [domain |-> q.domains # <<>> \/ q.domain # "", domains |-> each,
                       latency_threshold |-> q.latency_threshold >= 0,
                       record_type |-> q.record_type \notin Malformed]
  <2>1. Failing(asked) = {} /\ "domains" \in DOMAIN asked
    BY <1>1, <1>5 DEF DNSErrors
  <2>2. asked["domains"]
    BY <2>1, NoneFailing
  <2>3. each
    BY <2>2
  <2> TAKE i \in DOMAIN DomainList(q)
  <2>4. \/ i \in DOMAIN q.domains /\ DomainList(q)[i] = q.domains[i]
        \/ q.domain # "" /\ DomainList(q)[i] = q.domain
        \/ DomainList(q)[i] = "google.com"
    BY FirstOfEntries DEF DomainList
  <2> QED
    BY <2>3, <2>4
<1> QED
  BY <1>3, <1>4, <1>5

\* The defaults for a level of 0 keep the order of the levels, but for the
\* unhealthy level that is not above the default of the degraded one.
LEMMA LevelsRise ==
  ASSUME NEW carp, carp.Healthy \in 0..255, carp.Degraded \in 0..255,
         carp.Unhealthy \in 0..255, carp.Unhealthy > carp.Degraded,
         carp.Degraded >= carp.Healthy
  PROVE  LET d == demotionLevels(carp)
         IN /\ d.Healthy <= d.Degraded
            /\ d.Degraded < d.Unhealthy \/ (carp.Degraded = 0 /\ carp.Unhealthy <= 50)
<1> DEFINE d == demotionLevels(carp)
<1>1. /\ d.Healthy = carp.Healthy
      /\ d.Degraded = IF carp.Degraded = 0 THEN 50 ELSE carp.Degraded
      /\ d.Unhealthy = IF carp.Unhealthy = 0 THEN 255 ELSE carp.Unhealthy
  BY DEF demotionLevels
<1> HIDE DEF d
<1>2. /\ d.Healthy <= d.Degraded
      /\ d.Degraded < d.Unhealthy \/ (carp.Degraded = 0 /\ carp.Unhealthy <= 50)
  BY <1>1
<1> QED
  BY <1>2 DEF d

-----------------------------------------------------------------------------
(* Types, and the configurations in force.                                 *)

\* What a loaded configuration gives the actions.
LEMMA ConfigFacts ==
  ASSUME NEW c \in Configs
  PROVE  c \in Files /\ Values[c].vip_interface \in Ifaces
BY AcceptedIsValid, LifecycleAssumption

\* The type invariant is kept by every step.  `built' is a configuration too:
\* it is the first one for good.  A Stop about to raise an interface has read its name.
Typed == TypeOK /\ built \in Configs /\ (hpc = "stopUp" => stopIface \in Ifaces)

\* The two commands keep the types.
LEMMA CommandsTyped ==
  ASSUME TypeOK, NEW i \in Ifaces, RaiseIface(i) \/ LowerIface(i)
  PROVE  iface' \in [Ifaces -> BOOLEAN] /\ stray' \subseteq Ifaces
<1>1. CASE RaiseIface(i)
  BY <1>1 DEF RaiseIface, TypeOK
<1>2. CASE LowerIface(i)
  BY <1>2 DEF LowerIface, TypeOK
<1> QED
  BY <1>1, <1>2

LEMMA TypedInit == Init => Typed
BY ConfigFacts DEF Init, NewRunner, Typed, TypeOK

LEMMA TypedNext == Typed /\ [Next]_vars => Typed'
<1> SUFFICES ASSUME Typed, [Next]_vars
             PROVE  Typed'
  OBVIOUS
<1> USE DEF Typed, TypeOK, handler, runner, http, budgets, history
<1>1. ASSUME NEW s \in {"HUP", "TERM"}, Signal(s) PROVE Typed'
  BY <1>1 DEF Signal
<1>2. CASE Receive
  <2>1. sigCh' = <<>>
    BY <1>2 DEF Receive
  <2> QED
    BY <1>2, <2>1 DEF Receive
<1>3. ASSUME NEW f \in Files, LoadFile(f) PROVE Typed'
  <2>1. newCfg' \in {<<>>} \cup {<<c>> : c \in Configs}
    BY <1>3 DEF LoadFile
  <2> QED
    BY <1>3, <2>1 DEF LoadFile
<1>4. CASE Reload
  BY <1>4 DEF Reload
<1>5. CASE StopBegin
  BY <1>5, ConfigFacts DEF StopBegin, StopInterface
<1>6. CASE StopUp
  <2>1. stopIface \in Ifaces
    BY <1>6 DEF StopUp
  <2>2. iface' \in [Ifaces -> BOOLEAN] /\ stray' \subseteq Ifaces
    BY <1>6, <2>1, CommandsTyped DEF StopUp
  <2> QED
    BY <1>6, <2>2 DEF StopUp
<1>7. CASE StopClose
  BY <1>7 DEF StopClose
<1>8. CASE StopJoin
  BY <1>8 DEF StopJoin
<1>9. CASE ServerStore
  BY <1>9 DEF ServerStore
<1>10. CASE ServerListen
  BY <1>10 DEF ServerListen
<1>11. CASE Shutdown
  BY <1>11 DEF Shutdown
<1>12. CASE Ticker
  BY <1>12 DEF Ticker
<1>13. ASSUME NEW down \in BOOLEAN, NEW alert \in BOOLEAN, Cycle(down, alert) PROVE Typed'
  <2>1. iface' \in [Ifaces -> BOOLEAN] /\ stray' \subseteq Ifaces
    BY <1>13, ConfigFacts, CommandsTyped DEF Cycle
  <2>2. rpc' \in {"send", "select"} /\ lastIfaceDown' = down
    BY <1>13 DEF Cycle
  <2> QED
    BY <1>13, <2>1, <2>2 DEF Cycle
<1>14. CASE Send
  BY <1>14 DEF Send
<1>15. CASE EndOfCycle
  BY <1>15 DEF EndOfCycle
<1>16. CASE Hang
  BY <1>16 DEF Hang
<1>17. CASE ApplyReload
  <2>1. PICK c \in Configs : reloadCh = <<c>>
    BY <1>17 DEF ApplyReload
  <2>2. cfg' = c /\ reloadCh' = <<>>
    BY <1>17, <2>1 DEF ApplyReload
  <2>3. stray' \subseteq Ifaces
    BY <1>17, ConfigFacts DEF ApplyReload
  <2> QED
    BY <1>17, <2>2, <2>3 DEF ApplyReload
<1>18. CASE Exit
  BY <1>18 DEF Exit
<1>19. CASE UNCHANGED vars
  BY <1>19 DEF vars
<1> QED
  BY <1>1, <1>2, <1>3, <1>4, <1>5, <1>6, <1>7, <1>8, <1>9, <1>10, <1>11, <1>12, <1>13, <1>14,
     <1>15, <1>16, <1>17, <1>18, <1>19 DEF Next, Handler, Server, Work

LEMMA TypedInvariant == Spec => []Typed
BY TypedInit, TypedNext, PTL DEF Spec

\* Every variable of Lifecycle keeps its type, and a configuration that Load
\* refused is neither in force, nor in the reload channel, nor in the handler's
\* hands: main reloads only what Load returned without an error.
THEOREM LifecycleTypeCorrect == Spec => []TypeOK
BY TypedInvariant, PTL DEF Typed

\* The configuration in force always gives the runner what it presumes, also
\* after any sequence of reloads: Validate sees to it before the defaults of
\* demotionLevels and of the lists come in.
THEOREM ConfigIsUsable == Spec => []UsableConfig
<1>1. Typed => UsableConfig
  <2> SUFFICES ASSUME Typed
               PROVE  UsableConfig
    OBVIOUS
  <2> DEFINE c == Values[cfg]
             d == demotionLevels(c.carp)
  <2>1. cfg \in Tested /\ Validate(c) = {}
    BY AcceptedIsValid DEF Typed, TypeOK
  <2> HIDE DEF c
  <2>2. /\ d.Healthy <= d.Degraded
        /\ d.Degraded < d.Unhealthy \/ (c.carp.Degraded = 0 /\ c.carp.Unhealthy <= 50)
    <3>1. /\ c.carp.Healthy \in 0..255 /\ c.carp.Degraded \in 0..255
          /\ c.carp.Unhealthy \in 0..255
          /\ c.carp.Unhealthy > c.carp.Degraded /\ c.carp.Degraded >= c.carp.Healthy
      BY <2>1, ValidParts
    <3> QED
      BY <3>1, LevelsRise
  <2>3. /\ c.interval > 0 /\ c.cooldown > 0
        /\ \A ch \in DOMAIN Required : c.channels[ch].enabled =>
             Required[ch] \subseteq c.channels[ch].settings
    BY <2>1, ValidParts
  <2>4. /\ \A list \in {ProcessList(c.health), BindAddressList(c.health)} :
              \A i \in DOMAIN list : list[i] \notin {"", "blank"}
        /\ c.health.dns_query.enabled =>
             \A i \in DOMAIN DomainList(c.health.dns_query) :
               DomainList(c.health.dns_query)[i] # ""
    BY <2>1, ValidLists
  <2> HIDE DEF d
  <2> QED
    BY <2>1, <2>2, <2>3, <2>4 DEF UsableConfig, c, d
<1> QED
  BY <1>1, TypedInvariant, PTL

-----------------------------------------------------------------------------
(* The VIP interface at the end of the process.                            *)

\* The order of the steps at the end.
Ending ==
  /\ done => hpc \in {"join", "returned"}
  /\ rpc = "exited" => done

\* What is down and in hand is the configured interface, and the runner remembers
\* it.  A Stop about to raise an interface raises that one, and one that has done
\* so leaves none: from its first step on, whatever a cycle or a reload does to
\* an interface that is down puts it out of hand.
Kept ==
  \A i \in Ifaces : ~iface[i] /\ i \notin stray =>
    /\ lastIfaceDown /\ i = Values[cfg].vip_interface
    /\ hpc = "stopUp" => i = stopIface
    /\ hpc \notin {"close", "join", "returned"}

LEMMA EndingInit == Init => Ending /\ Kept
BY DEF Init, NewRunner, Ending, Kept

\* A raised interface is up or out of hand, and the others are as they were.
LEMMA Raised ==
  ASSUME Typed, NEW i \in Ifaces, RaiseIface(i)
  PROVE  \A j \in Ifaces : ~iface'[j] /\ j \notin stray' => j # i /\ ~iface[j] /\ j \notin stray
<1>1. CASE /\ iface' = [iface EXCEPT ![i] = TRUE] /\ stray' = stray \ {i}
  BY <1>1 DEF Typed, TypeOK
<1>2. CASE iface' = iface /\ stray' = IF iface[i] THEN stray ELSE stray \cup {i}
  BY <1>2 DEF Typed, TypeOK
<1> QED
  BY <1>1, <1>2 DEF RaiseIface

\* A lowered interface is in hand only when Stop has not read yet.
LEMMA Lowered ==
  ASSUME Typed, NEW i \in Ifaces, LowerIface(i)
  PROVE  \A j \in Ifaces : ~iface'[j] /\ j \notin stray' =>
           (j = i /\ ~StopRead) \/ (~iface[j] /\ j \notin stray)
<1>1. CASE /\ iface' = [iface EXCEPT ![i] = FALSE]
           /\ stray' = IF StopRead THEN stray \cup {i} ELSE stray \ {i}
  BY <1>1 DEF Typed, TypeOK
<1>2. CASE UNCHANGED <<iface, stray>>
  BY <1>2
<1> QED
  BY <1>1, <1>2 DEF LowerIface

LEMMA KeptNext == Typed /\ Ending /\ Kept /\ [Next]_vars => Ending' /\ Kept'
<1> SUFFICES ASSUME Typed, Ending, Kept, [Next]_vars
             PROVE  Ending' /\ Kept'
  OBVIOUS
<1> USE DEF Ending, Kept, Running, handler, runner, http, budgets, history
<1>1. ASSUME NEW s \in {"HUP", "TERM"}, Signal(s) PROVE Ending' /\ Kept'
  BY <1>1 DEF Signal
<1>2. CASE Receive
  BY <1>2 DEF Receive
<1>3. ASSUME NEW f \in Files, LoadFile(f) PROVE Ending' /\ Kept'
  BY <1>3 DEF LoadFile
<1>4. CASE Reload
  BY <1>4 DEF Reload
<1>5. CASE StopBegin
  BY <1>5 DEF StopBegin, StopInterface
<1>6. CASE StopUp
  <2>1. /\ hpc = "stopUp" /\ hpc' = "close" /\ RaiseIface(stopIface)
        /\ rpc # "exited" /\ UNCHANGED <<rpc, done, cfg>>
    BY <1>6 DEF StopUp
  <2>2. \A j \in Ifaces : ~iface'[j] /\ j \notin stray' =>
          j # stopIface /\ ~iface[j] /\ j \notin stray
    BY <2>1, Raised DEF Typed
  <2> QED
    BY <2>1, <2>2
<1>7. CASE StopClose
  BY <1>7 DEF StopClose
<1>8. CASE StopJoin
  BY <1>8 DEF StopJoin
<1>9. CASE ServerStore
  BY <1>9 DEF ServerStore
<1>10. CASE ServerListen
  BY <1>10 DEF ServerListen
<1>11. CASE Shutdown
  BY <1>11 DEF Shutdown
<1>12. CASE Ticker
  BY <1>12 DEF Ticker
<1>13. ASSUME NEW down \in BOOLEAN, NEW alert \in BOOLEAN, Cycle(down, alert)
       PROVE  Ending' /\ Kept'
  <2> DEFINE v == Values[cfg].vip_interface
  <2>1. /\ rpc = "cycle" /\ rpc' \in {"send", "select"} /\ lastIfaceDown' = down
        /\ UNCHANGED <<hpc, stopIface, done, cfg>>
    BY <1>13 DEF Cycle
  <2>2. v \in Ifaces
    BY ConfigFacts DEF Typed, TypeOK
  <2>3. CASE down /\ LowerIface(v)
    <3>1. \A j \in Ifaces : ~iface'[j] /\ j \notin stray' =>
            (j = v /\ ~StopRead) \/ (~iface[j] /\ j \notin stray)
      BY <2>2, <2>3, Lowered
    <3> QED
      BY <2>1, <2>3, <3>1 DEF StopRead
  <2>4. CASE ~down /\ RaiseIface(v)
    <3>1. \A j \in Ifaces : ~iface'[j] /\ j \notin stray' =>
            j # v /\ ~iface[j] /\ j \notin stray
      BY <2>2, <2>4, Raised
    <3> QED
      BY <2>1, <3>1
  <2>5. CASE down = lastIfaceDown /\ UNCHANGED <<iface, stray>>
    BY <2>1, <2>5
  <2> QED
    BY <1>13, <2>3, <2>4, <2>5 DEF Cycle
<1>14. CASE Send
  BY <1>14 DEF Send
<1>15. CASE EndOfCycle
  BY <1>15 DEF EndOfCycle
<1>16. CASE Hang
  BY <1>16 DEF Hang
<1>17. CASE ApplyReload
  <2> DEFINE old == Values[cfg].vip_interface
             new == Values[cfg'].vip_interface
  <2>1. /\ UNCHANGED <<hpc, stopIface, done, rpc, lastIfaceDown, iface>>
        /\ stray' = IF ~iface[old] /\ new # old THEN stray \cup {old} ELSE stray
    BY <1>17 DEF ApplyReload
  <2> QED
    BY <2>1
<1>18. CASE Exit
  BY <1>18 DEF Exit
<1>19. CASE UNCHANGED vars
  BY <1>19 DEF vars
<1> QED
  BY <1>1, <1>2, <1>3, <1>4, <1>5, <1>6, <1>7, <1>8, <1>9, <1>10, <1>11, <1>12, <1>13, <1>14,
     <1>15, <1>16, <1>17, <1>18, <1>19 DEF Next, Handler, Server, Work

\* An interface that is down is the configured one and remembered by a process
\* that has not been stopped, or it went out of hand while it was down: the
\* command to raise it failed, a reload named another interface, or a cycle took
\* it down beside a Stop that had already read what to raise.  Stop, in its own
\* goroutine, leaves no other interface down, for any configuration files,
\* interfaces, signals and failures.
THEOREM NothingIsLeftDown == Spec => []NothingLeftDown
<1>1. Init => Typed /\ Ending /\ Kept
  BY TypedInit, EndingInit
<1>2. Typed /\ Ending /\ Kept /\ [Next]_vars => (Typed /\ Ending /\ Kept)'
  BY TypedNext, KeptNext
<1>3. Ending /\ Kept => NothingLeftDown
  BY DEF Ending, Kept, NothingLeftDown
<1> QED
  BY <1>1, <1>2, <1>3, PTL DEF Spec

-----------------------------------------------------------------------------
(* The dispatch of an alert.                                               *)

Names == {"email", "slack", "telegram"}
Entries(s) == {s[i] : i \in DOMAIN s}

\* An alert in progress has been handed, or is still to be handed, to exactly
\* the notifiers NewRunner made.
Dispatch ==
  /\ pending \in Seq(Names)
  /\ rpc = "send" => tried \cup Entries(pending) = Entries(NotifiersOf[built])
  /\ rpc \notin {"send", "hung"} => tried = {}

LEMMA NotifiersAreNames ==
  ASSUME NEW c \in Configs
  PROVE  NotifiersOf[c] \in Seq(Names)
<1>1. NotifiersOf[c] = Notifiers(Values[c])
  BY ConfigFacts DEF NotifiersOf
<1>2. \A ch \in Names : NotifierOf(Values[c], ch) \in Seq(Names)
  <2> TAKE ch \in Names
  <2>1. <<ch>> \in Seq(Names) /\ <<>> \in Seq(Names)
    OBVIOUS
  <2> QED
    BY <2>1 DEF NotifierOf
<1>3. "email" \in Names /\ "slack" \in Names /\ "telegram" \in Names
  BY DEF Names
<1> QED
  BY <1>1, <1>2, <1>3 DEF Notifiers

\* The entries of a list are its first one and those of the rest.
LEMMA EntriesSplit ==
  ASSUME NEW s \in Seq(Names), s # <<>>
  PROVE  /\ Tail(s) \in Seq(Names)
         /\ Entries(s) = {Head(s)} \cup Entries(Tail(s))
<1>1. Len(s) \in Nat /\ Len(s) > 0 /\ DOMAIN s = 1..Len(s) /\ Head(s) = s[1]
  OBVIOUS
<1>2. Tail(s) \in Seq(Names) /\ Len(Tail(s)) = Len(s) - 1 /\ DOMAIN Tail(s) = 1..(Len(s) - 1)
  BY <1>1
<1>3. \A i \in 1..(Len(s) - 1) : Tail(s)[i] = s[i + 1]
  BY <1>1
<1>4. Entries(s) \subseteq {Head(s)} \cup Entries(Tail(s))
  <2> SUFFICES ASSUME NEW i \in 1..Len(s)
               PROVE  s[i] \in {Head(s)} \cup Entries(Tail(s))
    BY <1>1 DEF Entries
  <2>1. CASE i = 1
    BY <2>1, <1>1
  <2>2. CASE i # 1
    <3>1. i - 1 \in 1..(Len(s) - 1) /\ (i - 1) + 1 = i
      BY <2>2, <1>1
    <3>2. s[i] = Tail(s)[i - 1] /\ i - 1 \in DOMAIN Tail(s)
      BY <3>1, <1>2, <1>3
    <3> QED
      BY <3>2 DEF Entries
  <2> QED
    BY <2>1, <2>2
<1>5. {Head(s)} \cup Entries(Tail(s)) \subseteq Entries(s)
  <2>1. s[1] \in Entries(s)
    BY <1>1 DEF Entries
  <2>2. ASSUME NEW j \in 1..(Len(s) - 1) PROVE Tail(s)[j] \in Entries(s)
    <3>1. j + 1 \in DOMAIN s
      BY <1>1
    <3> QED
      BY <3>1, <1>3 DEF Entries
  <2> QED
    BY <2>1, <2>2, <1>1, <1>2 DEF Entries
<1> QED
  BY <1>2, <1>4, <1>5

LEMMA DispatchInit == Init => Dispatch
BY DEF Init, Dispatch

LEMMA DispatchNext == Typed /\ Dispatch /\ [Next]_vars => Dispatch'
<1> SUFFICES ASSUME Typed, Dispatch, [Next]_vars
             PROVE  Dispatch'
  OBVIOUS
<1> USE DEF Dispatch, handler, runner, http, budgets, history
<1>1. CASE UNCHANGED <<rpc, pending, tried, built>>
  BY <1>1
<1>2. CASE Ticker
  BY <1>2 DEF Ticker
<1>3. ASSUME NEW down \in BOOLEAN, NEW alert \in BOOLEAN, Cycle(down, alert) PROVE Dispatch'
  <2>1. /\ rpc = "cycle" /\ tried' = tried /\ built' = built
        /\ rpc' = IF alert THEN "send" ELSE "select"
        /\ pending' = IF alert THEN NotifiersOf[built] ELSE <<>>
    BY <1>3 DEF Cycle
  <2>2. tried' = {} /\ NotifiersOf[built] \in Seq(Names)
    BY <2>1, NotifiersAreNames DEF Typed
  <2>3. NotifiersOf[built]' = NotifiersOf[built]
    BY <2>1
  <2>4. CASE alert
    BY <2>1, <2>2, <2>3, <2>4
  <2>5. CASE ~alert
    BY <2>1, <2>2, <2>5
  <2> QED
    BY <2>4, <2>5
<1>4. CASE Send
  <2>1. /\ rpc = "send" /\ rpc' = rpc /\ built' = built /\ pending # <<>>
        /\ tried' = tried \cup {Head(pending)} /\ pending' = Tail(pending)
    BY <1>4 DEF Send
  <2>2. /\ Tail(pending) \in Seq(Names)
        /\ Entries(pending) = {Head(pending)} \cup Entries(Tail(pending))
    BY <2>1, EntriesSplit
  <2>3. tried' \cup Entries(pending') = tried \cup Entries(pending)
    BY <2>1, <2>2
  <2> QED
    BY <2>1, <2>2, <2>3
<1>5. CASE EndOfCycle
  BY <1>5 DEF EndOfCycle
<1>6. CASE Hang
  BY <1>6 DEF Hang
<1>7. CASE Exit
  BY <1>7 DEF Exit
<1>8. CASE Handler \/ Server \/ ApplyReload \/ \E s \in {"HUP", "TERM"} : Signal(s)
  BY <1>8, <1>1 DEF Handler, Receive, LoadFile, Reload, StopBegin, StopUp, StopClose, StopJoin,
     Server, ServerStore, ServerListen, Shutdown, ApplyReload, Signal
<1>9. CASE UNCHANGED vars
  BY <1>9, <1>1 DEF vars
<1> QED
  BY <1>2, <1>3, <1>4, <1>5, <1>6, <1>7, <1>8, <1>9 DEF Next, Work

\* An alert whose dispatch is over was handed to every notifier, whichever of
\* them failed on the way: the loop logs an error and goes on.
THEOREM AlertIsTriedByAll == Spec => []AlertTriesAll
<1>1. Init => Typed /\ Dispatch
  BY TypedInit, DispatchInit
<1>2. Typed /\ Dispatch /\ [Next]_vars => (Typed /\ Dispatch)'
  BY TypedNext, DispatchNext
<1>3. Dispatch => AlertTriesAll
  <2> SUFFICES ASSUME Dispatch, rpc = "send", pending = <<>>
               PROVE  tried = Entries(NotifiersOf[built])
    BY DEF AlertTriesAll, Entries
  <2>1. Entries(<<>>) = {}
    BY DEF Entries
  <2> QED
    BY <2>1 DEF Dispatch
<1> QED
  BY <1>1, <1>2, <1>3, PTL DEF Spec
=============================================================================
