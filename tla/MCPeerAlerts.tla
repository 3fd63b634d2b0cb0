---------------------------- MODULE MCPeerAlerts ----------------------------
(* A small instance of PeerAlerts for TLC.                                 *)
EXTENDS PeerAlerts

CONSTANTS p1, p2

TwoPeers == {p1, p2}

Answer(role) == [OK |-> TRUE, Severity |-> "None", Carp |-> role]
Failure(severity) == [OK |-> FALSE, Severity |-> severity, Carp |-> ""]

\* An answer, an answer that cannot be read, and a dead DNS service.  The other
\* severities are treated like the second one, each with a status of its own.
SomeResults == {Answer("BACKUP"), Failure("None"), Failure("Critical")}
=============================================================================
