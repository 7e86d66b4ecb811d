----------------------------- MODULE MCRegistry -----------------------------
(* Instances of RegistryProps for TLC.                                     *)
EXTENDS RegistryProps, TLC

CONSTANTS n1, n2, c1, c2, w1, w2

\* The first node is the closer to the key.
Ranks == (n1 :> 1) @@ (n2 :> 2)

\* A client on the farther node, and a worker on the other.
OneClient == (c1 :> n2) @@ (w1 :> n1)
Everything == [c \in {c1} |-> {"latest", "publish", "replicate", "handoff"}]
PublishOnly == [c \in {c1} |-> {"publish"}]

\* A publisher on one node; a reader and a worker share the other.
ReaderAndWorker == (c1 :> n1) @@ (c2 :> n2) @@ (w2 :> n2)
PublishAndRead == (c1 :> {"publish"}) @@ (c2 :> {"latest"})
=============================================================================
