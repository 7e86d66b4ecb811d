---------------------------- MODULE RegistryProps ----------------------------
(* What the package registry promises.  The model is module Registry.      *)
EXTENDS Registry

\* Every variable holds a value of its type.
TypeOK ==
  /\ store \in [Node -> SUBSET History]
  /\ heads \in [Node -> History]
  /\ tasks \in [Task -> TaskType]
  /\ updates \in SUBSET [to : Node, head : History]
  /\ replies \in SUBSET [to : Client, ok : BOOLEAN, head : History]
  /\ returned \in [Node -> History]

\* "Verified records are retained locally so head holders can serve their
\* history when other nodes leave" (registry.go:110): a node with a head has
\* every record of its chain in its own store, and the chain is one that
\* verifies, whatever publishers force and whatever else is stored.
HeadsHoldHistory ==
  \A n \in Node : \A k \in 1 .. Len(heads[n]) :
    /\ SubSeq(heads[n], 1, k) \in store[n]
    /\ Good(heads[n], k)

\* A Publish (or a Replicate) that reports no error has its head on every
\* target, or a later one: while distribute has recorded no failure, each
\* target it is done with holds a history that continues the head, although
\* answers are late and other heads come in between.
AcknowledgedHold ==
  \A c \in Client :
    tasks[c].targets # {} /\ ~tasks[c].failed =>
      \A m \in tasks[c].targets \ tasks[c].todo :
        Extends(heads[m], tasks[c].head)

\* An owner who publishes from one goroutine, without Force and without
\* cancelling, on a network that fits in K, never forks the package, however
\* many of the other nodes are unreachable at any time: the node's own head,
\* which Latest always includes, is the last one published.
SoleOwnerNeverForks ==
  \A m, n \in Node :
    Extends(heads[m], heads[n]) \/ Extends(heads[n], heads[m])

\* The abstract promise, with the commit in accept as the moment of a read.
Promise == INSTANCE Histories WITH history <- heads, read <- returned

\* On every node heads only move along their history, and Latest reads it
\* atomically, although it collects heads, walks and accepts in many steps.
ImplementsHistories == Promise!Spec
=============================================================================
