--------------------------- MODULE MaintenanceProps --------------------------
(* What the lifecycle of a node promises.                                    *)
EXTENDS Maintenance

-----------------------------------------------------------------------------
(* Invariants.                                                             *)

\* Types, with the shape of the queue of jobs.
TypeOK ==
  /\ gate \in {0, 1}
  /\ pc \in [Task -> PC]
  /\ call \in [Task -> [op : Op, todo : Seq(Job), bucket : Bucket,
                        closest : Peer \cup {Self}, failed : BOOLEAN]]
  /\ \A t \in Task : pc[t] = "search" => call[t].todo # <<>>
  /\ cancelled \subseteq App
  /\ done \in BOOLEAN /\ netDone \in BOOLEAN
  /\ closer \in [Closer -> {"open", "once", "network", "refresh", "replication", "returned"}]
  /\ closeOnce \in {"unused", "running", "used"}
  /\ stale \subseteq Bucket /\ searched \subseteq Bucket /\ due \subseteq Bucket

\* "Serialize joining, refresh and replication" (maintenance.go:81): the token
\* in the gate is there while exactly one task is inside an operation, so no
\* error return, cancellation or shutdown keeps it or gives it back twice.
GateExclusive ==
  /\ gate = 1 <=> Inside # {}
  /\ \A t, u \in Inside : t = u

\* "It closes the transport and waits for RPC, eviction, refresh and
\* replication workers" and "safe to call more than once or concurrently"
\* (kademlia.go:83-84): when any caller of Close has returned, both loops have
\* ended and only the application's own calls are still inside.
ClosedIsQuiet ==
  \A c \in Closer : closer[c] = "returned" =>
    /\ \A t \in Loop : pc[t] = "stopped"
    /\ Inside \subseteq App

-----------------------------------------------------------------------------
(* Steps.                                                                  *)

\* An operation that finishes without a failure has done what it is for.
\* "Join ... refreshes all buckets farther away than the closest discovered
\* peer" (maintenance.go:12-13): every ID farther from the node than that peer
\* is of the peer's own bucket or of one looked up with success.  Refresh
\* "performs lookups in stale bucket ranges, including empty ones"
\* (maintenance.go:51): it has looked up every bucket that was stale when it
\* took the gate.
PassCovers ==
  [][\A t \in Task : Finish(t) =>
       /\ call[t].op = "join" =>
            \A x \in KademliaID :
              Less(CalcDistance(call[t].closest, Self), CalcDistance(x, Self))
                => GetBucketIndex(Self, x) \in
                     searched \cup {GetBucketIndex(Self, call[t].closest)}
       /\ call[t].op = "refresh" => due \subseteq searched]_vars

-----------------------------------------------------------------------------
(* Liveness, under FairSpec.                                               *)

\* Every call of the application returns, whatever fails and whoever waits for
\* the gate, and so does every Close.
CallsReturn ==
  /\ \A t \in App : pc[t] # "idle" ~> pc[t] = "idle"
  /\ done ~> \A c \in Closer : closer[c] \in {"open", "returned"}

\* From some point on a refresh finds a peer in the table, and each bucket before
\* the n-th stops getting stale, or else its lookups stop failing.
SteadyBefore(n) ==
  /\ <>[][\A t \in Task : ~RefreshAlone(t)]_vars
  /\ \A m \in Bucket : m < n =>
       \/ <>[][~Age(m)]_vars
       \/ <>[][\A t \in Task : LookupFails(t) /\ call[t].bucket = m => Stopped(t)]_vars

\* "Successful and failed lookup attempts both reset a bucket's lookup timer"
\* (maintenance.go:52), and "a failed pass is retried at the next tick"
\* (maintenance.go:116).  The first failure ends a pass, which takes the stale
\* buckets in order, and every operation waits for the same gate; yet a stale
\* bucket is looked up unless the node stops or a bucket before it keeps both
\* getting stale and failing.  One that has failed does not hold up those after
\* it.
StaleSearched ==
  \A n \in Bucket : SteadyBefore(n) => (n \in stale ~> n \notin stale \/ netDone)
=============================================================================
