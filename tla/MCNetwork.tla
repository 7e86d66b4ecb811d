------------------------------ MODULE MCNetwork ------------------------------
(* Instances of NetworkProps for TLC.                                      *)
EXTENDS NetworkProps, TLC

CONSTANTS p1, p2, p3, q1, q2, b0, b1

\* One bucket, with one more peer than it holds.
OneBucket == [p \in {p1, p2} |-> b0]
ThreePeers == [p \in {p1, p2, p3} |-> b0]

\* Two buckets, each with one more peer than it holds.
TwoBuckets == (p1 :> b0) @@ (p2 :> b0) @@ (q1 :> b1) @@ (q2 :> b1)

\* The peers of one bucket are interchangeable.
Symmetry == Permutations({p1, p2, p3})
=============================================================================
