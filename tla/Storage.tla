------------------------------- MODULE Storage -------------------------------
(* One value on many nodes: Store and Replicate write it to the nodes closest *)
(* to its key, in batches, while messages are lost, callers cancel and nodes  *)
(* crash and come back with an empty memory (store.go, store_rpc.go,          *)
(* replication.go); holders hand it to new peers as well (handoff.go).  The   *)
(* lookup that finds the targets is module Lookup, the RPC is module Network, *)
(* and the loop that serves the hand-offs of one node is module Handoff.      *)
EXTENDS Integers, FiniteSets

CONSTANTS
  Node,        \* nodes, numbered by their distance from the key
  Publisher,   \* the node whose application stores the value
  Accepting,   \* nodes whose MaxValueSize admits the value
  K, Alpha,    \* the protocol's parameters
  MaxCalls,    \* bound: calls of Store in progress at a time
  MaxHandOffs, \* bound: hand-offs on their way at a time
  MaxCrashes   \* bound: crashes

ASSUME StorageAssumption ==
  /\ Node \subseteq Nat /\ IsFiniteSet(Node)
  /\ Publisher \in Accepting /\ Accepting \subseteq Node
  /\ K \in Nat \ {0} /\ Alpha \in Nat \ {0}
  /\ MaxCalls \in Nat \ {0} /\ MaxHandOffs \in Nat /\ MaxCrashes \in Nat

VARIABLES
  up,        \* nodes that run
  holders,   \* nodes that have the value in memory
  call,      \* the call of Store each node executes
  requests,  \* STOREs of calls on their way, as <<sender, receiver>>
  handed,    \* nodes that the STORE of a hand-off is on its way to
  crashes,   \* crashes so far
  calm       \* faults have stopped

vars == <<up, holders, call, requests, handed, crashes, calm>>

\* The n nodes of S closest to the key.
Closest(S, n) == {x \in S : Cardinality({y \in S : y < x}) < n}

-----------------------------------------------------------------------------
(* A call: its targets, those that no batch has reached, the workers of the  *)
(* batch that have yet to start, those that wait for a reply, and those whose *)
(* receiver has acknowledged.                                                *)

CallType ==
  [pc : {"idle", "lookup", "batches"}, targets : SUBSET Node, todo : SUBSET Node,
   started : SUBSET Node, sent : SUBSET Node, stored : SUBSET Node,
   failed : BOOLEAN, cancelled : BOOLEAN, crashed : SUBSET Node]

NoCall ==
  [pc |-> "idle", targets |-> {}, todo |-> {}, started |-> {}, sent |-> {}, stored |-> {},
   failed |-> FALSE, cancelled |-> FALSE, crashed |-> {}]

Calling(n) == n \in up /\ call[n].pc # "idle"
Drained(n) == call[n].pc = "batches" /\ call[n].started = {} /\ call[n].sent = {}

\* Store of the application, or by Replicate of a value that this node has.
StartStore(n) ==
  /\ n \in up /\ call[n].pc = "idle"
  /\ n = Publisher \/ n \in holders
  /\ Cardinality({m \in Node : call[m].pc # "idle"}) < MaxCalls
  /\ call' = [call EXCEPT ![n].pc = "lookup"]
  /\ UNCHANGED <<up, holders, requests, crashes, calm, handed>>

\* The lookup found some peers that run, or no reachable contact; when calm, the
\* closest ones.  This node is a target too if it is close enough.
SelectTargets(n) ==
  /\ Calling(n) /\ call[n].pc = "lookup"
  /\ \E found \in IF calm THEN {Closest(up \ {n}, K)} ELSE SUBSET (up \ {n}) :
       LET targets == Closest(found \cup {n}, K)
       IN  call' = [call EXCEPT ![n].pc = "batches", ![n].targets = targets,
                                ![n].todo = targets]
  /\ UNCHANGED <<up, holders, requests, crashes, calm, handed>>

\* A lookup that has been stopped ends the call.
LookupStopped(n) ==
  /\ Calling(n) /\ call[n].pc = "lookup" /\ call[n].cancelled
  /\ call' = [call EXCEPT ![n] = NoCall]
  /\ UNCHANGED <<up, holders, requests, crashes, calm, handed>>

\* Fault: a failed target ends the call.
NextBatchUnlessFailed(n) ==
  /\ Calling(n) /\ Drained(n)
  /\ call[n].todo # {} /\ ~call[n].cancelled
  /\ LET batch == Closest(call[n].todo, Alpha)
     IN  call' = [call EXCEPT ![n].todo = IF call[n].failed THEN {} ELSE @ \ batch,
                              ![n].started = IF call[n].failed THEN {} ELSE batch]
  /\ UNCHANGED <<up, holders, requests, crashes, calm, handed>>

\* The batch is drained: a worker for each of the next Alpha targets.
NextBatch(n) ==
  /\ Calling(n) /\ Drained(n)
  /\ call[n].todo # {} /\ ~call[n].cancelled
  /\ LET batch == Closest(call[n].todo, Alpha)
     IN  call' = [call EXCEPT ![n].todo = @ \ batch, ![n].started = batch]
  /\ UNCHANGED <<up, holders, requests, crashes, calm, handed>>

\* Fault: a cancelled call just stops.
BreakSilently(n) ==
  /\ Calling(n) /\ Drained(n)
  /\ call[n].todo # {} /\ call[n].cancelled
  /\ call' = [call EXCEPT ![n].todo = {}]
  /\ UNCHANGED <<up, holders, requests, crashes, calm, handed>>

\* Cancelled between two batches: the remaining targets are given up.
Break(n) ==
  /\ Calling(n) /\ Drained(n)
  /\ call[n].todo # {} /\ call[n].cancelled
  /\ call' = [call EXCEPT ![n].todo = {}, ![n].failed = TRUE]
  /\ UNCHANGED <<up, holders, requests, crashes, calm, handed>>

\* A worker looks whether the call is cancelled; then it writes to this node's
\* own memory, or sends the STORE.
Work(n, t) ==
  /\ Calling(n) /\ t \in call[n].started
  /\ IF call[n].cancelled
     THEN /\ call' = [call EXCEPT ![n].started = @ \ {t}, ![n].failed = TRUE]
          /\ UNCHANGED <<holders, requests, handed>>
     ELSE IF t = n
     THEN /\ holders' = holders \cup {n}
          /\ call' = [call EXCEPT ![n].started = @ \ {t}]
          /\ UNCHANGED requests
     ELSE /\ requests' = requests \cup {<<n, t>>}
          /\ call' = [call EXCEPT ![n].started = @ \ {t}, ![n].sent = @ \cup {t}]
          /\ UNCHANGED holders
  /\ UNCHANGED <<up, crashes, calm, handed>>

\* The call is over when the last batch is drained, whether or not it has been
\* cancelled since that batch began.
Over(n) == Calling(n) /\ Drained(n) /\ call[n].todo = {}

\* Over without a failure: the call returns nil.
Succeeds(n) == Over(n) /\ ~call[n].failed

Return(n) ==
  /\ Over(n)
  /\ call' = [call EXCEPT ![n] = NoCall]
  /\ UNCHANGED <<up, holders, requests, crashes, calm, handed>>

\* Close, or a cancelled context.
Cancel(n) ==
  /\ ~calm /\ Calling(n) /\ ~call[n].cancelled
  /\ call' = [call EXCEPT ![n].cancelled = TRUE]
  /\ UNCHANGED <<up, holders, requests, crashes, calm, handed>>

-----------------------------------------------------------------------------
(* The RPC.  STOREs from one node to another carry the same bytes and are not *)
(* told apart.                                                               *)

\* Fault: the receiver keeps a value that exceeds its limit.
DeliverAnySize(n, t) ==
  /\ <<n, t>> \in requests /\ t \in up
  /\ requests' = requests \ {<<n, t>>}
  /\ holders' = holders \cup {t}
  /\ LET c == call[n]
     IN  call' = [call EXCEPT ![n] =
           IF t \in c.sent THEN [c EXCEPT !.stored = @ \cup {t}] ELSE c]
  /\ UNCHANGED <<up, crashes, calm, handed>>

\* A request arrives: the node checks the size, stores the value and
\* acknowledges it, or refuses.
Deliver(n, t) ==
  /\ <<n, t>> \in requests /\ t \in up
  /\ requests' = requests \ {<<n, t>>}
  /\ holders' = holders \cup ({t} \cap Accepting)
  /\ LET c == call[n]
     IN  call' = [call EXCEPT ![n] =
           IF t \notin c.sent THEN c
           ELSE IF t \in Accepting THEN [c EXCEPT !.stored = @ \cup {t}]
           ELSE [c EXCEPT !.sent = @ \ {t}, !.failed = TRUE]]
  /\ UNCHANGED <<up, crashes, calm, handed>>

\* A request is lost, or arrives at a node that does not run.
Lose(n, t) ==
  /\ <<n, t>> \in requests /\ (calm => t \notin up)
  /\ requests' = requests \ {<<n, t>>}
  /\ UNCHANGED <<up, holders, call, crashes, calm, handed>>

\* The worker for t has its acknowledgment.
Acknowledged(n, t) ==
  /\ Calling(n) /\ t \in call[n].sent \cap call[n].stored
  /\ call' = [call EXCEPT ![n].sent = @ \ {t}, ![n].stored = @ \ {t}]
  /\ UNCHANGED <<up, holders, requests, crashes, calm, handed>>

\* The worker for t gives up: its request or the reply is lost, or late, or the
\* call is cancelled.  The request may still arrive.
Unacknowledged(n, t) ==
  /\ Calling(n) /\ t \in call[n].sent
  /\ calm => \/ call[n].cancelled
             \/ t \notin call[n].stored /\ (t \in up => <<n, t>> \notin requests)
  /\ call' = [call EXCEPT ![n].sent = @ \ {t}, ![n].stored = @ \ {t}, ![n].failed = TRUE]
  /\ UNCHANGED <<up, holders, requests, crashes, calm, handed>>

-----------------------------------------------------------------------------
(* Hand-off.                                                                 *)

\* handoffEligible: no node that m knows is closer to the key than m, and the
\* new peer t is among the K closest of those.
Eligible(m, t, known) ==
  /\ \A x \in known : x > m
  /\ Cardinality({x \in known \cup {m} : x < t}) < K

\* Fault: the value moves to the new peer.
MoveValue(m, t) ==
  /\ m \in holders /\ t \in up \ {m}
  /\ \E known \in SUBSET (Node \ {m, t}) : Eligible(m, t, known)
  /\ Cardinality(handed) < MaxHandOffs
  /\ handed' = handed \cup {t}
  /\ holders' = holders \ {m}
  /\ UNCHANGED <<up, call, requests, crashes, calm>>

\* A holder has observed a new peer, elects itself by the nodes in its table,
\* whoever they are, and sends a copy.  It keeps its own.
HandOff(m, t) ==
  /\ m \in holders /\ t \in up \ {m}
  /\ \E known \in SUBSET (Node \ {m, t}) : Eligible(m, t, known)
  /\ Cardinality(handed) < MaxHandOffs
  /\ handed' = handed \cup {t}
  /\ UNCHANGED <<up, holders, call, requests, crashes, calm>>

\* The copy arrives and is stored or refused, or it is lost.
HandOffEnds(t) ==
  /\ t \in handed
  /\ handed' = handed \ {t}
  /\ \/ t \in up /\ holders' = holders \cup ({t} \cap Accepting)
     \/ (calm => t \notin up) /\ UNCHANGED holders
  /\ UNCHANGED <<up, call, requests, crashes, calm>>

-----------------------------------------------------------------------------
(* Faults.                                                                   *)

\* "Data and accepted latest pointers are memory-only" (PROGRAM_GUIDE.md:343): a
\* node that stops forgets everything.  Calls that have it for a target remember
\* that it did, for AcknowledgedStored.
Crash(n) ==
  /\ ~calm /\ n \in up /\ crashes < MaxCrashes
  /\ crashes' = crashes + 1
  /\ up' = up \ {n}
  /\ holders' = holders \ {n}
  /\ call' = [m \in Node |->
       IF m = n THEN NoCall
       ELSE IF n \in call[m].targets THEN [call[m] EXCEPT !.crashed = @ \cup {n}]
       ELSE call[m]]
  /\ UNCHANGED <<requests, calm, handed>>

\* A node starts and joins; its ID is the hash of its address, so that one that
\* comes back is the same node.
Start(n) ==
  /\ ~calm /\ n \notin up
  /\ up' = up \cup {n}
  /\ UNCHANGED <<holders, call, requests, crashes, calm, handed>>

\* From here on no node comes or goes, no message is lost, no call is cancelled
\* and a lookup finds the closest nodes.
CalmDown ==
  /\ ~calm
  /\ calm' = TRUE
  /\ UNCHANGED <<up, holders, call, requests, crashes, handed>>

-----------------------------------------------------------------------------
Init ==
  /\ up = {Publisher}
  /\ holders = {}
  /\ call = [n \in Node |-> NoCall]
  /\ requests = {} /\ handed = {}
  /\ crashes = 0
  /\ calm = FALSE

\* What the goroutine of a call does next, and its workers.
CallStep(n) ==
  \/ SelectTargets(n) \/ LookupStopped(n) \/ NextBatch(n) \/ Break(n) \/ Return(n)
  \/ \E t \in Node : Work(n, t) \/ Acknowledged(n, t) \/ Unacknowledged(n, t)

Next ==
  \/ \E n \in Node : StartStore(n) \/ CallStep(n) \/ Cancel(n) \/ Crash(n) \/ Start(n)
  \/ \E n, t \in Node : Deliver(n, t) \/ Lose(n, t) \/ HandOff(n, t)
  \/ \E t \in Node : HandOffEnds(t)
  \/ CalmDown

Spec == Init /\ [][Next]_vars

\* The replication loop of a node that has the value.
Replicate(n) == n \in holders /\ StartStore(n)

\* Goroutines run; a request that is not lost arrives; every node that has the
\* value replicates it again and again.  Nothing is assumed of hand-off: others
\* that a holder knows may always suppress it.
FairSpec ==
  /\ Spec
  /\ \A n \in Node : WF_vars(CallStep(n)) /\ SF_vars(Replicate(n))
  /\ \A n, t \in Node : WF_vars(Deliver(n, t))

-----------------------------------------------------------------------------
TypeOK ==
  /\ up \subseteq Node /\ holders \subseteq up \cap Accepting
  /\ call \in [Node -> CallType]
  /\ requests \subseteq Node \X Node /\ handed \subseteq Node
  /\ crashes \in 0..MaxCrashes /\ calm \in BOOLEAN

\* "nil error means every selected target acknowledged" (store.go:13): when a
\* call returns nil, each of its targets has the value, unless the target has
\* crashed since it was selected -- whatever was lost, refused, answered late or
\* cancelled in any of the batches.
AcknowledgedStored ==
  \A n \in Node : Succeeds(n) => call[n].targets \subseteq holders \cup call[n].crashed

\* "the next periodic pass retries failures" (replication.go:14-15): if a copy is
\* left when the faults stop, then, wherever it is and whatever calls are cut
\* short, the nodes closest to the key that admit the value come to hold it, for
\* good.  Nodes that refuse it do not keep it from the others, and hand-offs,
\* made or suppressed by whatever their senders know, do no harm: "periodic
\* replication performs a full lookup and repairs incomplete knowledge"
\* (handoff.go:82).
Converges ==
  (calm /\ holders # {}) ~> [](Closest(up, K) \cap Accepting \subseteq holders)
=============================================================================
