---------------------------- MODULE MCMaintenance ----------------------------
(* An instance of MaintenanceProps for TLC.                                  *)
EXTENDS MaintenanceProps

\* An ID of one byte, from its value.
ID(n) == [i \in Position |-> [w \in Weight |-> (n \div 2^w) % 2]]

Here == ID(0)

\* A peer in the nearest bucket and one in the farthest.
TwoPeers == {ID(1), ID(2)}

\* The key of a value and of a head that the node holds, both in the farthest
\* bucket.
Values == {ID(2)}
Heads == {ID(3)}
=============================================================================
