-------------------------------- MODULE Carp --------------------------------
(***************************************************************************)
(* internal/carp: the commands the agent gives to the FreeBSD kernel and   *)
(* what the kernel does with them.  A kernel is a record of the VIP        *)
(* interface's administrative state, the additive CARP demotion factor     *)
(* (net.inet.carp.demotion) and the CARP role of the configured VHID.      *)
(*                                                                         *)
(* The kernel itself is outside the repository.  What it does is taken     *)
(* from what the code relies on: an interface that goes down adds 240 to   *)
(* the demotion factor and drops the role to INIT, one that comes up       *)
(* subtracts 240 and starts as BACKUP, and repeating the command changes   *)
(* nothing.                                                                *)
(***************************************************************************)
EXTENDS Integers

Roles == {"MASTER", "BACKUP", "INIT"}
CarpStates == {"MASTER", "BACKUP", "UNKNOWN"}

Kernels == [up : BOOLEAN, demotion : Int, role : Roles]

\* What the kernel adds to the demotion factor while the interface is down.
IfaceDownPenalty == 240

\* ifconfig <vip_iface> down
InterfaceDown(k) ==
  IF k.up THEN [up |-> FALSE, demotion |-> k.demotion + IfaceDownPenalty, role |-> "INIT"]
          ELSE k

\* ifconfig <vip_iface> up
InterfaceUp(k) ==
  IF k.up THEN k
          ELSE [up |-> TRUE, demotion |-> k.demotion - IfaceDownPenalty, role |-> "BACKUP"]

\* sysctl net.inet.carp.demotion=<delta>: the value written is added.
writeDemotion(k, delta) == [k EXCEPT !.demotion = @ + delta]

\* Variant: the factor is written as if the sysctl were absolute.
DemotionDeltaAbsolute(target, current) == target

\* SetDemotion computes its delta from the value it read; a failed read
\* falls back to the delta from 0.
DemotionDelta(target, current) == target - current

\* Variant: the role is passed on as ifconfig prints it.
ReadStateRaw(k) == k.role

\* ReadState and parseCarpState: INIT is reported as unknown.
ReadState(k) == IF k.role = "INIT" THEN "UNKNOWN" ELSE k.role
=============================================================================
