------------------------------ MODULE Histories ------------------------------
(***************************************************************************)
(* What the registry promises of one package on every node: the node's     *)
(* history only grows, by records that its owner has signed and whose      *)
(* versions increase, and a read returns the whole history at one moment   *)
(* between its call and its return.  Nothing is promised between two       *)
(* nodes: "it does not promise consensus across a partition"               *)
(* (registry.go:199).                                                      *)
(***************************************************************************)
EXTENDS Integers, Sequences

CONSTANTS Node, Version, Content

VARIABLES history,   \* [Node -> Seq(Record)]
          read       \* [Node -> Seq(Record)]: what was last read there

Record == [version : Version, content : Content, owned : {TRUE}]

\* h continues g by one or more records.
Grows(g, h) ==
  /\ Len(h) > Len(g)
  /\ SubSeq(h, 1, Len(g)) = g
  /\ \A i \in DOMAIN h : h[i] \in Record /\ h[i].version # 0
  /\ \A i, j \in DOMAIN h : i < j => h[i].version < h[j].version

Init ==
  /\ history = [n \in Node |-> << >>]
  /\ read = [n \in Node |-> << >>]

\* The history of n is or becomes h.
Reach(n, h) ==
  /\ h = history[n] \/ Grows(history[n], h)
  /\ history' = [history EXCEPT ![n] = h]

\* A node that reads may at the same moment learn what it reads.
Next ==
  \E n \in Node :
    /\ Reach(n, history'[n])
    /\ \/ UNCHANGED read
       \/ read' = [read EXCEPT ![n] = history'[n]]

Spec == Init /\ [][Next]_<<history, read>>
=============================================================================
