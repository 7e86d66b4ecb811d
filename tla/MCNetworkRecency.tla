--------------------------- MODULE MCNetworkRecency ---------------------------
(* An instance of NetworkRecency for TLC: one bucket of three peers.       *)
EXTENDS NetworkRecency

CONSTANTS p1, p2, p3, b0

ThreePeers == [p \in {p1, p2, p3} |-> b0]
=============================================================================
