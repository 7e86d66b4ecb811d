------------------------------ MODULE MCStorage ------------------------------
(* An instance of Storage for TLC: of three nodes, the closest to the key     *)
(* does not admit the value, and the farthest publishes it.                   *)
EXTENDS Storage

Nodes == 1..3
Willing == 2..3
=============================================================================
