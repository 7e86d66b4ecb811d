----------------------------- MODULE Maintenance -----------------------------
(* The lifecycle of one node: Join, Refresh and Replicate, called by the     *)
(* application or by the node's two periodic loops, serialized by            *)
(* maintenanceGate, while Close, cancellation and a failing transport        *)
(* compete with them (maintenance.go, replication.go, kademlia.go).          *)
(* A lookup, and the Store or distribute a replication makes, is a start,    *)
(* which resets the timer of one bucket, and an end; modules Lookup, Storage *)
(* and Registry open them up.                                                *)
EXTENDS XorMetric, Sequences, SequencesExt

CONSTANTS
  Self,        \* the node's ID
  Peer,        \* IDs of the other nodes
  App,         \* goroutines of the application that call the node
  Refresher,   \* refreshLoop
  Replicator,  \* replicationLoop
  Closer,      \* goroutines that call Close
  ValueKey, HeadKey  \* keys of the values and registry heads the node holds

Loop == {Refresher, Replicator}
Task == App \cup Loop

ASSUME MaintenanceAssumption ==
  /\ Self \in KademliaID /\ Peer \subseteq KademliaID \ {Self}
  /\ ValueKey \subseteq KademliaID /\ HeadKey \subseteq KademliaID
  /\ IsFiniteSet(ValueKey) /\ IsFiniteSet(HeadKey)
  /\ Refresher # Replicator /\ Loop \cap App = {}

VARIABLES
  gate,       \* tokens in maintenanceGate, a channel of capacity one
  due,        \* buckets stale when a refresh took it
  searched,   \* buckets looked up with success since
  pc,         \* where each task is
  call,       \* the operation it executes: jobs left, bucket of the lookup in hand
  cancelled,  \* callers whose context is cancelled
  done,       \* Kademlia.done is closed
  netDone,    \* Network.done is closed, by Close or by a failing transport
  closer,     \* where each caller of Close is
  closeOnce,  \* Kademlia.closeOnce
  stale       \* buckets not looked up for a RefreshPeriod

gateVars == <<gate, due, searched>>
nodeVars == <<gateVars, pc, call, cancelled>>
closeVars == <<done, netDone, closer, closeOnce>>
vars == <<nodeVars, closeVars, stale>>

-----------------------------------------------------------------------------
(* Jobs: one lookup each.                                                  *)

Job == [kind : {"self", "value", "head"}, id : KademliaID]
         \cup [kind : {"bucket"}, index : Bucket]

IdJob(k, x) == [kind |-> k, id |-> x]
BucketJob(n) == [kind |-> "bucket", index |-> n]

\* The IDs a job may look up.
Targets(job) ==
  IF job.kind = "bucket"
  THEN {RandomBucketTarget(Self, job.index, r) : r \in KademliaID}
  ELSE {job.id}

\* staleBuckets lists indices upwards.
StaleBuckets ==
  LET indices == CHOOSE s \in SetToSeqs(stale) :
                   \A i, j \in DOMAIN s : i < j => s[i] < s[j]
  IN  [i \in DOMAIN indices |-> BucketJob(indices[i])]

\* Fault: the loop stops before bucket 0.
FartherNotFarthest(closest) ==
  LET closestBucket == GetBucketIndex(Self, closest)
  IN  [i \in 1 .. closestBucket - 1 |-> BucketJob(closestBucket - i)]

\* After its own lookup a join refreshes every bucket before the one of the
\* closest peer it found, downwards to bucket 0.
FartherBuckets(closest) ==
  LET closestBucket == GetBucketIndex(Self, closest)
  IN  [i \in 1 .. closestBucket |-> BucketJob(closestBucket - i)]

ValueJobs == {IdJob("value", x) : x \in ValueKey}
HeadJobs == {IdJob("head", x) : x \in HeadKey}

\* Maps are ranged over in any order: the values first, then the heads.
ReplicationJobs ==
  {v \o h : v \in SetToSeqs(ValueJobs), h \in SetToSeqs(HeadJobs)}

-----------------------------------------------------------------------------
(* Tasks.                                                                  *)

PC == {"idle", "gate", "check", "ping", "lookup", "search", "stopped"}
Op == {"none", "join", "refresh", "replicate"}

\* The places between acquireMaintenance's send and the deferred receive.
Held == {"check", "ping", "lookup", "search"}
Inside == {t \in Task : pc[t] \in Held}

NoCall == [op |-> "none", todo |-> <<>>, bucket |-> 0, closest |-> Self, failed |-> FALSE]

\* lookupStopped(ctx): the loops' contexts are never cancelled.
Stopped(t) == t \in cancelled \/ done \/ netDone

At(t, place) == pc[t] = place
Move(t, place) == pc' = [pc EXCEPT ![t] = place]

\* Fault: the first error ends a loop.
ReturnEndsLoop(t, result) ==
  /\ Move(t, IF t \in Loop /\ result = "error" THEN "stopped" ELSE "idle")
  /\ call' = [call EXCEPT ![t] = NoCall]
  /\ cancelled' = cancelled \ {t}

\* Return from the operation.  replicationLoop leaves at once when it finds the
\* node stopped after an error.
Return(t, result) ==
  /\ Move(t, IF t = Replicator /\ result = "error" /\ Stopped(t)
             THEN "stopped" ELSE "idle")
  /\ call' = [call EXCEPT ![t] = NoCall]
  /\ cancelled' = cancelled \ {t}

\* The deferred receive from maintenanceGate.
Leave(t, result) ==
  /\ gate' = gate - 1
  /\ due' = {} /\ searched' = {}
  /\ Return(t, result)

\* The operation loops over its jobs.
Begin(t, jobs) ==
  /\ Move(t, "lookup")
  /\ call' = [call EXCEPT ![t].todo = jobs]
  /\ UNCHANGED <<gateVars, cancelled>>

-----------------------------------------------------------------------------
(* acquireMaintenance.                                                     *)

\* A call, or a tick of a loop's timer: lookupStopped comes first.
Call(t, op) ==
  /\ At(t, "idle")
  /\ t = Refresher => op = "refresh"
  /\ t = Replicator => op = "replicate"
  /\ IF done \/ netDone
     THEN Return(t, "error")
     ELSE /\ Move(t, "gate")
          /\ call' = [call EXCEPT ![t].op = op]
          /\ cancelled' = cancelled
  /\ UNCHANGED <<gateVars, closeVars, stale>>

\* Fault: the gate holds one token more.
AcquireFullGate(t) ==
  /\ At(t, "gate")
  /\ gate' = gate + 1 /\ searched' = {}
  /\ due' = IF call[t].op = "refresh" THEN stale ELSE {}
  /\ Move(t, "check")
  /\ UNCHANGED <<call, cancelled, closeVars, stale>>

\* The send to maintenanceGate goes through.
AcquireGate(t) ==
  /\ At(t, "gate") /\ gate = 0
  /\ gate' = 1 /\ searched' = {}
  /\ due' = IF call[t].op = "refresh" THEN stale ELSE {}
  /\ Move(t, "check")
  /\ UNCHANGED <<call, cancelled, closeVars, stale>>

\* The other cases of the select.
GiveUp(t) ==
  /\ At(t, "gate") /\ Stopped(t)
  /\ Return(t, "error")
  /\ UNCHANGED <<gateVars, closeVars, stale>>

\* Fault: the second check forgets the token.
StoppedWithToken(t) ==
  /\ At(t, "check") /\ Stopped(t)
  /\ Return(t, "error")
  /\ UNCHANGED <<gateVars, closeVars, stale>>

\* The select may take the gate of a node that has stopped: check again, and
\* give the gate back.
StoppedAtGate(t) ==
  /\ At(t, "check") /\ Stopped(t)
  /\ Leave(t, "error")
  /\ UNCHANGED <<closeVars, stale>>

-----------------------------------------------------------------------------
(* The operations.                                                         *)

\* Join refuses an address that is not one of another node.
RefuseAddress(t) ==
  /\ At(t, "check") /\ ~Stopped(t) /\ call[t].op = "join"
  /\ Leave(t, "error")
  /\ UNCHANGED <<closeVars, stale>>

\* Join seeds the table before it pings; a full bucket keeps other peers.
StartJoin(t) ==
  /\ At(t, "check") /\ ~Stopped(t) /\ call[t].op = "join"
  /\ Move(t, "ping")
  /\ UNCHANGED <<gateVars, call, cancelled, closeVars, stale>>

PingAnswered(t) ==
  /\ At(t, "ping")
  /\ Begin(t, <<IdJob("self", Self)>>)
  /\ UNCHANGED <<closeVars, stale>>

\* Fault: this return does not give the gate back.
PingFailsWithToken(t) ==
  /\ At(t, "ping")
  /\ Return(t, "error")
  /\ UNCHANGED <<gateVars, closeVars, stale>>

PingFails(t) ==
  /\ At(t, "ping")
  /\ Leave(t, "error")
  /\ UNCHANGED <<closeVars, stale>>

\* "An isolated first node has no peer to ask yet."  RPC traffic fills and
\* empties the table at any time, so a refresh may find it either way.
RefreshAlone(t) ==
  /\ At(t, "check") /\ ~Stopped(t) /\ call[t].op = "refresh"
  /\ Leave(t, "nil")
  /\ UNCHANGED <<closeVars, stale>>

\* The stale buckets are listed once, at the start.
StartRefresh(t) ==
  /\ At(t, "check") /\ ~Stopped(t) /\ call[t].op = "refresh"
  /\ Begin(t, StaleBuckets)
  /\ UNCHANGED <<closeVars, stale>>

\* A snapshot of the values, then of the heads.
StartReplicate(t) ==
  /\ At(t, "check") /\ ~Stopped(t) /\ call[t].op = "replicate"
  /\ \E jobs \in ReplicationJobs : Begin(t, jobs)
  /\ UNCHANGED <<closeVars, stale>>

-----------------------------------------------------------------------------
(* Lookups.                                                                *)

\* markLookup: the bucket of the target counts as looked up from now on,
\* whether the lookup succeeds or fails.
StartLookup(t) ==
  /\ At(t, "lookup") /\ call[t].todo # <<>> /\ ~Stopped(t)
  /\ \E target \in Targets(call[t].todo[1]) :
       LET n == GetBucketIndex(Self, target)
       IN  stale' = stale \ {n} /\ call' = [call EXCEPT ![t].bucket = n]
  /\ Move(t, "search")
  /\ UNCHANGED <<gateVars, cancelled, closeVars>>

\* On to the next job of the loop.
NextJob(t, failed) ==
  /\ Move(t, "lookup")
  /\ call' = [call EXCEPT ![t].todo = Tail(@), ![t].bucket = 0, ![t].failed = failed]
  /\ UNCHANGED <<gate, due, cancelled>>

\* refreshBucket, LookupContact and the loop over values return at once; a
\* head that cannot be distributed is one more failure.
StoppedBeforeLookup(t) ==
  /\ At(t, "lookup") /\ call[t].todo # <<>> /\ Stopped(t)
  /\ IF call[t].todo[1].kind = "head"
     THEN NextJob(t, TRUE) /\ searched' = searched
     ELSE Leave(t, "error")
  /\ UNCHANGED <<closeVars, stale>>

\* The own lookup of a join: it goes on to the buckets farther away than
\* contacts[0], the closest peer found.
PeersFound(t) ==
  /\ At(t, "search") /\ call[t].todo[1].kind = "self"
  /\ \E closest \in Peer :
       call' = [call EXCEPT ![t].todo = FartherBuckets(closest), ![t].bucket = 0,
                            ![t].closest = closest]
  /\ searched' = searched \cup {call[t].bucket}
  /\ Move(t, "lookup")
  /\ UNCHANGED <<gate, due, cancelled, closeVars, stale>>

LookupSucceeds(t) ==
  /\ At(t, "search") /\ call[t].todo[1].kind # "self"
  /\ NextJob(t, call[t].failed)
  /\ searched' = searched \cup {call[t].bucket}
  /\ UNCHANGED <<closeVars, stale>>

\* Fault: a failed lookup does not count.
FailureDoesNotCount(t) ==
  /\ At(t, "search")
  /\ stale' = stale \cup {call[t].bucket}
  /\ IF call[t].op = "replicate"
     THEN NextJob(t, TRUE) /\ searched' = searched
     ELSE Leave(t, "error")
  /\ UNCHANGED closeVars

\* A join or a refresh ends with the error of the lookup; a replication goes on
\* with the next job.
LookupFails(t) ==
  /\ At(t, "search")
  /\ IF call[t].op = "replicate"
     THEN NextJob(t, TRUE) /\ searched' = searched
     ELSE Leave(t, "error")
  /\ UNCHANGED <<closeVars, stale>>

\* No job is left.
Finish(t) ==
  /\ At(t, "lookup") /\ call[t].todo = <<>>
  /\ Leave(t, IF call[t].failed THEN "error" ELSE "nil")
  /\ UNCHANGED <<closeVars, stale>>

-----------------------------------------------------------------------------
(* Shutdown.                                                               *)

\* A loop's select sees that the node has stopped.
LoopStops(t) ==
  /\ At(t, "idle") /\ (done \/ netDone)
  /\ Move(t, "stopped")
  /\ UNCHANGED <<gateVars, call, cancelled, closeVars, stale>>

\* Fault: a flag instead of sync.Once, so that a second Close does not wait.
CloseFlag(c) ==
  /\ closer[c] = "open"
  /\ IF closeOnce = "unused"
     THEN /\ closeOnce' = "running" /\ done' = TRUE
          /\ closer' = [closer EXCEPT ![c] = "network"]
     ELSE /\ closer' = [closer EXCEPT ![c] = "returned"]
          /\ UNCHANGED <<closeOnce, done>>
  /\ UNCHANGED <<nodeVars, netDone, stale>>

\* The first Close runs, the others wait in closeOnce.Do.
CloseCalled(c) ==
  /\ closer[c] = "open"
  /\ IF closeOnce = "unused"
     THEN /\ closeOnce' = "running" /\ done' = TRUE
          /\ closer' = [closer EXCEPT ![c] = "network"]
     ELSE /\ closer' = [closer EXCEPT ![c] = "once"]
          /\ UNCHANGED <<closeOnce, done>>
  /\ UNCHANGED <<nodeVars, netDone, stale>>

\* network.Close, which module Network shows to return.
CloseNetwork(c) ==
  /\ closer[c] = "network"
  /\ netDone' = TRUE
  /\ closer' = [closer EXCEPT ![c] = "refresh"]
  /\ UNCHANGED <<nodeVars, done, closeOnce, stale>>

AwaitRefresh(c) ==
  /\ closer[c] = "refresh" /\ At(Refresher, "stopped")
  /\ closer' = [closer EXCEPT ![c] = "replication"]
  /\ UNCHANGED <<nodeVars, done, netDone, closeOnce, stale>>

AwaitReplication(c) ==
  /\ closer[c] = "replication" /\ At(Replicator, "stopped")
  /\ closer' = [closer EXCEPT ![c] = "returned"]
  /\ closeOnce' = "used"
  /\ UNCHANGED <<nodeVars, done, netDone, stale>>

CloseAgain(c) ==
  /\ closer[c] = "once" /\ closeOnce = "used"
  /\ closer' = [closer EXCEPT ![c] = "returned"]
  /\ UNCHANGED <<nodeVars, done, netDone, closeOnce, stale>>

-----------------------------------------------------------------------------
(* The surroundings: other traffic, time, cancellation, the transport.     *)

\* A RefreshPeriod without a lookup in one bucket.
Age(n) ==
  /\ stale' = stale \cup {n}
  /\ UNCHANGED <<nodeVars, closeVars>>

Cancel(t) ==
  /\ ~At(t, "idle")
  /\ cancelled' = cancelled \cup {t}
  /\ UNCHANGED <<gateVars, pc, call, closeVars, stale>>

\* The readLoop ends by itself and closes Network.done.
TransportFails ==
  /\ netDone' = TRUE
  /\ UNCHANGED <<nodeVars, done, closer, closeOnce, stale>>

-----------------------------------------------------------------------------
Init ==
  /\ gate = 0
  /\ pc = [t \in Task |-> "idle"]
  /\ call = [t \in Task |-> NoCall]
  /\ cancelled = {}
  /\ done = FALSE /\ netDone = FALSE
  /\ closer = [c \in Closer |-> "open"]
  /\ closeOnce = "unused"
  /\ stale = {} /\ searched = {} /\ due = {}

\* Everything a task does once its operation is called.
Step(t) ==
  \/ GiveUp(t) \/ StoppedAtGate(t)
  \/ RefuseAddress(t) \/ StartJoin(t) \/ PingAnswered(t) \/ PingFails(t)
  \/ RefreshAlone(t) \/ StartRefresh(t) \/ StartReplicate(t)
  \/ StartLookup(t) \/ StoppedBeforeLookup(t)
  \/ PeersFound(t) \/ LookupSucceeds(t) \/ LookupFails(t) \/ Finish(t)

Closing(c) ==
  \/ CloseNetwork(c) \/ AwaitRefresh(c) \/ AwaitReplication(c) \/ CloseAgain(c)

Surroundings ==
  \/ \E n \in Bucket : Age(n)
  \/ \E t \in App : Cancel(t)
  \/ TransportFails

Next ==
  \/ \E t \in Task, op \in Op \ {"none"} : Call(t, op)
  \/ \E t \in Task : AcquireGate(t) \/ Step(t)
  \/ \E t \in Loop : LoopStops(t)
  \/ \E c \in Closer : CloseCalled(c) \/ Closing(c)
  \/ Surroundings

Spec == Init /\ [][Next]_vars

\* Goroutines run; a blocked send to a channel is served in its turn, which is
\* strong fairness of the gate; an RPC and so a lookup ends; the timers tick.
FairSpec ==
  /\ Spec
  /\ \A t \in Task : WF_vars(Step(t)) /\ SF_vars(AcquireGate(t))
  /\ \A t \in Loop : WF_vars(LoopStops(t)) /\ WF_vars(\E op \in Op \ {"none"} : Call(t, op))
  /\ \A c \in Closer : WF_vars(Closing(c))
=============================================================================
