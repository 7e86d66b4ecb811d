------------------------------ MODULE MCHandoff ------------------------------
(* Instances of Handoff for TLC.                                           *)
EXTENDS Handoff, TLC

CONSTANTS p1, p2, p3, v1, v2, h1

\* p1 is closer than this node to v1, no peer to v2, p2 and p3 to the head.
Distances ==
  (v1 :> ((p1 :> 0) @@ (Self :> 1) @@ (p2 :> 2) @@ (p3 :> 3)))
    @@ (v2 :> ((Self :> 0) @@ (p3 :> 1) @@ (p1 :> 2) @@ (p2 :> 3)))
    @@ (h1 :> ((p3 :> 0) @@ (p2 :> 1) @@ (Self :> 2) @@ (p1 :> 3)))
=============================================================================
