---------------------------- MODULE NetworkRecency ----------------------------
(***************************************************************************)
(* Network with a history of who was seen last, to check what              *)
(* routing_maintenance.go:33 says of a bucket's list: "Front is most       *)
(* recently seen."                                                         *)
(***************************************************************************)
EXTENDS Network

VARIABLE seen   \* the peers seen so far, the most recent first

RInit == Init /\ seen = << >>

See(n) == seen' = IF n = Self THEN seen ELSE ToFront(seen, n)

RNext ==
  \/ \E c \in Caller : ReceiveReply(c) /\ See(calls[c].node)
  \/ \E n \in Node : (ReceiveRequest(n) \/ Seed(n)) /\ See(n)
  \/ \E w \in Worker : WorkerObserve(w) /\ See(observers[w].node)
  \/ /\ \/ \E c \in Caller : CallStep(c) \/ Cancel(c)
        \/ \E c \in App, n \in Peer : Call(c, n)
        \/ ReceiverStep \/ EvictorStep
     /\ UNCHANGED seen

RSpec == RInit /\ [][RNext]_<<vars, seen>>

\* The lists are in the order in which their peers were last seen.
FrontMostRecentlySeen ==
  \A b \in Bucket : \A i, j \in DOMAIN table[b].list :
    i < j => \E x, y \in DOMAIN seen :
               /\ seen[x] = table[b].list[i]
               /\ seen[y] = table[b].list[j]
               /\ x < y
=============================================================================
