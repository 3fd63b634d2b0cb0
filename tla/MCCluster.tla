------------------------------ MODULE MCCluster -----------------------------
(* Small instances of Cluster for TLC.                                     *)
EXTENDS Cluster

Default == [Healthy |-> 0, Degraded |-> 50, Unhealthy |-> 255]
Health(score) == [RawScore |-> score, MaxScore |-> 100, Score |-> score]

\* Node 1 has priority.  The difference is less than the demotion of a MASTER
\* that sees a healthier peer in the near pair, and more in the far pair.
NearPair == <<0, 20>>
FarPair == <<0, 100>>

None == {}
First == {1}

\* UNHEALTHY, or fully healthy.
GoodOrBad == {Health(0), Health(100)}
\* ... or HEALTHY with a failing check: held when down, outranked when MASTER.
AlsoLimping == GoodOrBad \cup {Health(90)}
=============================================================================
