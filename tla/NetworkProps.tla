----------------------------- MODULE NetworkProps -----------------------------
(* What the RPC layer of a node promises.  The model is module Network.    *)
EXTENDS Network

\* Every variable holds a value of its type.
TypeOK ==
  /\ table \in TableType
  /\ calls \in [Caller -> CallType]
  /\ pending \in SUBSET Caller
  /\ observers \in [Observer -> ObserverType]
  /\ evictions \in Seq(ProbeType)
  /\ evictor \in EvictorType
  /\ done \in BOOLEAN
  /\ closed \in BOOLEAN
  /\ closer \in {"open", "shutdown", "waiting", "returned"}
  /\ silent \in SUBSET Caller

-----------------------------------------------------------------------------
(* The buckets.                                                            *)

\* Whatever the interleaving of calls, observations and evictions, a bucket
\* holds at most K peers, each once, its map and its list agree, and its list
\* is sorted by version (bucket.go AddContact and remove).
BucketInv == \A b \in Bucket : GoodBucket(table[b], b)

-----------------------------------------------------------------------------
(* The eviction probes.                                                    *)

\* Where a probe may be: in the hands of an observer that is about to queue
\* it, in the queue, or with evictionLoop.
Places ==
  {<<"observer", o>> : o \in {x \in Observer : observers[x].probe # None}}
    \cup {<<"queue", i>> : i \in DOMAIN evictions}
    \cup {<<"evictor", x>> : x \in {y \in {Evictor} : evictor.probe # None}}

ProbeAt(x) ==
  CASE x[1] = "observer" -> observers[x[2]].probe
    [] x[1] = "queue"    -> evictions[x[2]]
    [] OTHER             -> evictor.probe

\* "One probe per bucket prevents competing replacement decisions"
\* (routing_maintenance.go:10): the probing flag of a bucket is set exactly
\* while one probe of that bucket exists, wherever it is.
ProbeReservation ==
  /\ \A x \in Places : table[ProbeAt(x).bucket].probing
  /\ \A x, y \in Places : ProbeAt(x).bucket = ProbeAt(y).bucket => x = y
  /\ \A b \in Bucket :
       table[b].probing => \E x \in Places : ProbeAt(x).bucket = b

\* "observeContact never waits ... The queue is bounded by one probe per
\* bucket" (maintenance.go:123): the queue has a slot whenever a probe has to
\* be queued.  Were it full, the receiver would block with Network.mu held
\* and the eviction loop could never register the ping that drains the queue.
EnqueueNeverBlocks ==
  \A o \in Observer :
    observers[o].pc = "enqueue" => Len(evictions) < EvictionsCap

\* A ping of evictionLoop that timed out has already removed its peer, or the
\* peer has a newer version: finishProbe never finds the version of its probe
\* current, and only ever fills a slot that is free.
TimedOutProbeIsStale ==
  evictor.pc = "finish" /\ evictor.timedOut
    => ~ProbeCurrent(table, evictor.probe)

-----------------------------------------------------------------------------
(* Steps.                                                                  *)

\* "removeUnresponsive is called only after all RPC attempts time out" and
\* "More recent communication proves the old timeout is stale"
\* (routing_maintenance.go:57,73): a peer leaves the table only when a call to
\* it has exhausted its attempts and nothing was heard of the peer, by any
\* goroutine, since that call read its version.
OnlySilentPeersDropped ==
  [][\A n \in Peer : InTable(table, n) /\ ~InTable(table', n) =>
       \E c \in Caller :
         /\ calls[c].pc = "expired" /\ calls'[c].pc = "leaving"
         /\ calls[c].node = n
         /\ calls[c].attempt = Retries
         /\ c \in silent]_vars

\* "It ... waits for RPC, eviction, refresh and replication workers"
\* (kademlia.go:84): once Close has returned, none of the node's own
\* goroutines takes another step.
QuietAfterClose ==
  [][closer = "returned" =>
       /\ observers' = observers
       /\ evictor' = evictor
       /\ evictions' = evictions
       /\ calls'[Evictor] = calls[Evictor]]_vars

\* The abstract promise.  A replacement is never one step: the timeout drops
\* the old peer, and finishProbe admits the newcomer if there is still room.
Peers == INSTANCE PeerSet WITH
  known <- {n \in Peer : InTable(table, n)},
  reserved <- {b \in Bucket : table[b].probing}

\* The node implements PeerSet.
ImplementsPeerSet == Peers!Spec

-----------------------------------------------------------------------------
(* Liveness, under FairSpec.                                               *)

\* Every call returns, whatever is lost, however many replies compete with it
\* for Network.mu, and whether or not the node is closed under it.
CallsReturn ==
  \A c \in Caller : calls[c].pc # "idle" ~> calls[c].pc = "idle"

\* The probe of a bucket is decided, so that the bucket can be probed again,
\* unless the node shuts down.
ProbesComplete ==
  \A b \in Bucket : table[b].probing ~> (~table[b].probing \/ done)

\* Close returns, and a node whose transport fails stops by itself.
CloseTerminates ==
  /\ closer # "open" ~> closer = "returned"
  /\ closed ~> (observers[Receiver].pc = "stopped" /\ evictor.pc = "stopped")
=============================================================================
