------------------------------- MODULE Network -------------------------------
(***************************************************************************)
(* The RPC layer of one node (network.go, and the eviction side of         *)
(* maintenance.go): the goroutines that share its routing table, its map   *)
(* of pending calls and its eviction queue.                                *)
(*                                                                         *)
(*   Caller    a goroutine inside Network.call: an element of App, or      *)
(*             Evictor, which pings from evictionLoop                      *)
(*   Receiver  receiveLoop                                                 *)
(*   Worker    the registry workers of dispatchRegistry (16 slots)         *)
(*   closer    the goroutine that calls Network.Close                      *)
(*                                                                         *)
(* Critical sections under RoutingTable.mu are the operators of module     *)
(* RoutingTable.  Network.mu is held for longer only by the receiver,      *)
(* while it handles a reply: see LockFree.  A request ID is unpredictable  *)
(* and used by one call, and a reply whose ID is not pending changes       *)
(* nothing, so a call is identified with the goroutine that makes it.      *)
(* The methods differ only in their payloads, which change nothing here.   *)
(***************************************************************************)
EXTENDS RoutingTable

CONSTANTS App, Evictor, Receiver, Worker, None,
          Retries,        \* Config.RPCRetries
          EvictionsCap,   \* the capacity of Network.evictions
          MaxVersion,     \* bound: nothing arrives for a bucket at this version
          Endings         \* bound: the ways the node stops, of "close", "fail"

Caller == App \cup {Evictor}
Observer == Worker \cup {Receiver}

ASSUME CallerAssumption == Evictor \notin App /\ None \notin Caller
ASSUME ObserverAssumption == Receiver \notin Worker
ASSUME ProbeAssumption == None \notin ProbeType
ASSUME RetriesAssumption == Retries \in Nat
ASSUME VersionAssumption == MaxVersion \in Nat
ASSUME EndingsAssumption == Endings \subseteq {"close", "fail"}
\* make(chan *evictionProbe, IDLength*8): as many slots as there are buckets.
ASSUME CapAssumption == IsFiniteSet(Bucket) /\ EvictionsCap = Cardinality(Bucket)

VARIABLES
  table,      \* routingTable
  calls,      \* [Caller -> CallType]: the locals of each goroutine in call
  pending,    \* the callers with an entry in network.pending
  observers,  \* [Observer -> ObserverType]: their position in observeContact
  evictions,  \* the channel of probes waiting for evictionLoop
  evictor,    \* the position of evictionLoop
  done,       \* network.done is closed
  closed,     \* the transport is closed
  closer,     \* the position of Close
  silent      \* history: callers whose node was not observed since their
              \* version was read

vars == <<table, calls, pending, observers, evictions, evictor, done, closed,
          closer, silent>>

-----------------------------------------------------------------------------
(* The states of the goroutines.                                           *)

CallPc == {"idle", "begun", "attempt", "waiting", "expired", "leaving"}

CallType == [pc : CallPc, node : Node, version : Nat, attempt : 0 .. Retries,
             sent : BOOLEAN,       \* an attempt has left: a reply may exist
             response : BOOLEAN,   \* pending.response holds a reply
             timedOut : BOOLEAN]   \* the call's error is ErrRPCTimeout

IdleCall == [pc |-> "idle", node |-> Self, version |-> 0, attempt |-> 0,
             sent |-> FALSE, response |-> FALSE, timedOut |-> FALSE]

ObserverPc == {"idle", "observe", "enqueue", "deliver", "stopped"}

ObserverType == [pc : ObserverPc, node : Node, call : Caller \cup {None},
                 again : BOOLEAN,  \* handleRequest will observe a second time
                 probe : ProbeType \cup {None}]

IdleObserver == [pc |-> "idle", node |-> Self, call |-> None,
                 again |-> FALSE, probe |-> None]

EvictorPc == {"select", "check", "ping", "finish", "stopped"}

EvictorType == [pc : EvictorPc, probe : ProbeType \cup {None},
                timedOut : BOOLEAN]

IdleEvictor == [pc |-> "select", probe |-> None, timedOut |-> FALSE]

Init ==
  /\ table = NewRoutingTable
  /\ calls = [c \in Caller |-> IdleCall]
  /\ pending = {}
  /\ observers = [o \in Observer |-> IdleObserver]
  /\ evictions = << >>
  /\ evictor = IdleEvictor
  /\ done = FALSE
  /\ closed = FALSE
  /\ closer = "open"
  /\ silent = {}

\* Network.mu is free: the receiver is not between the match of a reply and
\* its unlock.
LockFree == observers[Receiver].call = None

\* The bound on the versions: a packet that would pass it is lost.
WithinBound(n) == n \in Peer => table[BucketOf[n]].version < MaxVersion

-----------------------------------------------------------------------------
(* call: the goroutines that make RPCs.                                    *)

BeginCall(c, n) ==
  calls' = [calls EXCEPT ![c] = [IdleCall EXCEPT !.pc = "begun", !.node = n,
                                   !.version = ContactVersion(table, n)]]

\* An application goroutine (Ping, a lookup, a store, a registry update)
\* calls n: contactVersion is read before the call is registered.  (A node
\* that pings itself reads version 0 and its table ignores the reply.)
Call(c, n) ==
  /\ c \in App
  /\ calls[c].pc = "idle"
  /\ BeginCall(c, n)
  /\ silent' = silent \cup {c}
  /\ UNCHANGED <<table, pending, observers, evictions, evictor, done, closed,
                 closer>>

\* What evictionLoop does with the outcome of its ping.
PingReturns(timedOut) ==
  evictor' = [evictor EXCEPT !.pc = "finish", !.timedOut = timedOut]

\* call returns: an application goroutine is idle again.
Return(c, timedOut) ==
  /\ calls' = [calls EXCEPT ![c] = IdleCall]
  /\ silent' = silent \ {c}
  /\ IF c = Evictor THEN PingReturns(timedOut) ELSE UNCHANGED evictor

\* register under Network.mu, refused once done is closed.
Register(c) ==
  /\ calls[c].pc = "begun"
  /\ LockFree
  /\ \/ /\ done
        /\ Return(c, FALSE)
        /\ UNCHANGED pending
     \/ /\ ~done
        /\ pending' = pending \cup {c}
        /\ calls' = [calls EXCEPT ![c].pc = "attempt"]
        /\ UNCHANGED <<evictor, silent>>
  /\ UNCHANGED <<table, observers, evictions, done, closed, closer>>

\* The head of the retry loop: done is polled, and just after it, before
\* anything that matters to this goroutine, the request is sent.  A
\* local send error, the only outcome on a closed transport, ends the call.
Attempt(c) ==
  /\ calls[c].pc = "attempt"
  /\ \/ /\ ~done /\ ~closed
        /\ calls' = [calls EXCEPT ![c].pc = "waiting", ![c].sent = TRUE]
     \/ calls' = [calls EXCEPT ![c].pc = "leaving"]
  /\ UNCHANGED <<table, pending, observers, evictions, evictor, done, closed,
                 closer, silent>>

\* The select of the retry loop takes the response, or done.
Receives(c) ==
  /\ calls[c].pc = "waiting"
  /\ calls[c].response \/ done
  /\ calls' = [calls EXCEPT ![c].pc = "leaving"]
  /\ UNCHANGED <<table, pending, observers, evictions, evictor, done, closed,
                 closer, silent>>

\* ctx is cancelled, or its deadline passes; evictionLoop's ctx never is.
Cancel(c) ==
  /\ c \in App
  /\ calls[c].pc \in {"attempt", "waiting"}
  /\ calls' = [calls EXCEPT ![c].pc = "leaving"]
  /\ UNCHANGED <<table, pending, observers, evictions, evictor, done, closed,
                 closer, silent>>

\* Fault: one attempt too many.
TimerOneMore(c) ==
  /\ calls[c].pc = "waiting"
  /\ calls' = [calls EXCEPT ![c] =
       IF @.attempt > Retries
         THEN [@ EXCEPT !.pc = "expired"]
         ELSE [@ EXCEPT !.pc = "attempt", !.attempt = calls[c].attempt + 1]]
  /\ UNCHANGED <<table, pending, observers, evictions, evictor, done, closed,
                 closer, silent>>

\* The timer fires.  It may be chosen although a response is already there.
Timer(c) ==
  /\ calls[c].pc = "waiting"
  /\ calls' = [calls EXCEPT ![c] =
       IF @.attempt = Retries
         THEN [@ EXCEPT !.pc = "expired"]
         ELSE [@ EXCEPT !.pc = "attempt", !.attempt = calls[c].attempt + 1]]
  /\ UNCHANGED <<table, pending, observers, evictions, evictor, done, closed,
                 closer, silent>>

\* Fault: a call that times out leaves its peer in the table.
ExpireKeepsPeer(c) ==
  /\ calls[c].pc = "expired"
  /\ calls' = [calls EXCEPT ![c].pc = "leaving", ![c].timedOut = TRUE]
  /\ UNCHANGED <<table, pending, observers, evictions, evictor, done, closed,
                 closer, silent>>

\* After the last attempt: removeUnresponsive with the version read at first.
Expire(c) ==
  /\ calls[c].pc = "expired"
  /\ table' = RemoveUnresponsive(table, calls[c].node, calls[c].version)
  /\ calls' = [calls EXCEPT ![c].pc = "leaving", ![c].timedOut = TRUE]
  /\ UNCHANGED <<pending, observers, evictions, evictor, done, closed, closer,
                 silent>>

\* The deferred delete of the pending entry, and the return.
Leave(c) ==
  /\ calls[c].pc = "leaving"
  /\ LockFree
  /\ pending' = pending \ {c}
  /\ Return(c, calls[c].timedOut)
  /\ UNCHANGED <<table, observers, evictions, done, closed, closer>>

-----------------------------------------------------------------------------
(* observeContact, inside receiveLoop and the registry workers.            *)

\* Where an observer goes when observeContact returns.
Continue(rec) ==
  IF rec.call # None THEN [rec EXCEPT !.pc = "deliver", !.probe = None]
  ELSE IF rec.again
         THEN [rec EXCEPT !.pc = "observe", !.again = FALSE, !.probe = None]
         ELSE IdleObserver

\* table.observe(rec.node), on behalf of observer o.
ObserveContact(o, rec) ==
  /\ table' = Observe(table, rec.node)
  /\ silent' = {c \in silent : calls[c].node # rec.node}
  /\ observers' = [observers EXCEPT ![o] =
       IF NeedsProbe(table, rec.node)
         THEN [rec EXCEPT !.pc = "enqueue", !.probe = ProbeFor(table, rec.node)]
         ELSE Continue(rec)]

CanReceive == observers[Receiver].pc = "idle" /\ ~closed

\* A reply to a pending call, from the node called: first, late or duplicate.
\* The receiver takes Network.mu and observes the sender.
ReceiveReply(c) ==
  /\ CanReceive
  /\ c \in pending /\ calls[c].sent
  /\ WithinBound(calls[c].node)
  /\ ObserveContact(Receiver,
       [IdleObserver EXCEPT !.node = calls[c].node, !.call = c])
  /\ UNCHANGED <<calls, pending, evictions, evictor, done, closed, closer>>

\* Fault: the unlock is missing.
DeliverKeepsLock ==
  /\ observers[Receiver].pc = "deliver"
  /\ calls' = [calls EXCEPT ![observers[Receiver].call].response = TRUE]
  /\ observers' = [observers EXCEPT ![Receiver].pc = "idle"]
  /\ UNCHANGED <<table, pending, evictions, evictor, done, closed, closer,
                 silent>>

\* The non-blocking send on pending.response, and the unlock.
Deliver ==
  /\ observers[Receiver].pc = "deliver"
  /\ calls' = [calls EXCEPT ![observers[Receiver].call].response = TRUE]
  /\ observers' = [observers EXCEPT ![Receiver] = IdleObserver]
  /\ UNCHANGED <<table, pending, evictions, evictor, done, closed, closer,
                 silent>>

\* handleRequest in the receiver: a request of n that its handler accepts.
ReceiveRequest(n) ==
  /\ CanReceive
  /\ WithinBound(n)
  /\ ObserveContact(Receiver, [IdleObserver EXCEPT !.node = n])
  /\ UNCHANGED <<calls, pending, evictions, evictor, done, closed, closer>>

\* dispatchRegistry: REGISTRY_UPDATE goes to a free slot; none free, it is lost.
Dispatch(n, w) ==
  /\ CanReceive
  /\ WithinBound(n)
  /\ observers[w].pc = "idle"
  /\ observers' = [observers EXCEPT ![w] =
       [IdleObserver EXCEPT !.pc = "observe", !.node = n, !.again = TRUE]]
  /\ UNCHANGED <<table, calls, pending, evictions, evictor, done, closed,
                 closer, silent>>

\* handleRequest in a worker observes the sender before registryPayload and,
\* when that yields an answer, after it.
WorkerObserve(w) ==
  /\ observers[w].pc = "observe"
  /\ ObserveContact(w, observers[w])
  /\ UNCHANGED <<calls, pending, evictions, evictor, done, closed, closer>>

\* registryPayload returned nil: no answer, and no second observation.
WorkerRefuses(w) ==
  /\ observers[w].pc = "observe" /\ ~observers[w].again
  /\ observers' = [observers EXCEPT ![w] = IdleObserver]
  /\ UNCHANGED <<table, calls, pending, evictions, evictor, done, closed,
                 closer, silent>>

\* observeContact sends its probe to the eviction queue ...
Enqueue(o) ==
  /\ observers[o].pc = "enqueue"
  /\ Len(evictions) < EvictionsCap
  /\ evictions' = Append(evictions, observers[o].probe)
  /\ observers' = [observers EXCEPT ![o] = Continue(@)]
  /\ UNCHANGED <<table, calls, pending, evictor, done, closed, closer, silent>>

\* ... or, once done is closed, gives it up.
GiveUp(o) ==
  /\ observers[o].pc = "enqueue"
  /\ done
  /\ table' = FinishProbe(table, observers[o].probe, FALSE)
  /\ observers' = [observers EXCEPT ![o] = Continue(@)]
  /\ UNCHANGED <<calls, pending, evictions, evictor, done, closed, closer,
                 silent>>

\* Fault: the receiver returns without shutting the node down.
ReceiverJustReturns ==
  /\ observers[Receiver].pc = "idle" /\ closed
  /\ observers' = [observers EXCEPT ![Receiver].pc = "stopped"]
  /\ UNCHANGED <<table, calls, pending, evictions, evictor, done, closed,
                 closer, silent>>

\* Receive fails on a closed transport: the receiver shuts the node down.
ReceiverStops ==
  /\ observers[Receiver].pc = "idle" /\ closed
  /\ done' = TRUE
  /\ observers' = [observers EXCEPT ![Receiver].pc = "stopped"]
  /\ UNCHANGED <<table, calls, pending, evictions, evictor, closed, closer,
                 silent>>

-----------------------------------------------------------------------------
(* evictionLoop.                                                           *)

TakeProbe ==
  /\ evictor.pc = "select"
  /\ evictions # << >>
  /\ evictor' = [evictor EXCEPT !.pc = "check", !.probe = Head(evictions)]
  /\ evictions' = Tail(evictions)
  /\ UNCHANGED <<table, calls, pending, observers, done, closed, closer, silent>>

\* Fault: a probe that is no longer current is dropped without finishProbe.
CheckProbeForgets ==
  /\ evictor.pc = "check"
  /\ evictor' = IF ProbeCurrent(table, evictor.probe)
                  THEN [evictor EXCEPT !.pc = "ping"]
                  ELSE IdleEvictor
  /\ UNCHANGED <<table, calls, pending, observers, evictions, done, closed,
                 closer, silent>>

\* probeCurrent: a probe whose peer has been heard of needs no ping.
CheckProbe ==
  /\ evictor.pc = "check"
  /\ evictor' = [evictor EXCEPT !.pc =
       IF ProbeCurrent(table, evictor.probe) THEN "ping" ELSE "finish"]
  /\ UNCHANGED <<table, calls, pending, observers, evictions, done, closed,
                 closer, silent>>

\* SendPingMessage: the eviction goroutine enters call.
PingOld ==
  /\ evictor.pc = "ping"
  /\ calls[Evictor].pc = "idle"
  /\ BeginCall(Evictor, evictor.probe.old)
  /\ silent' = silent \cup {Evictor}
  /\ UNCHANGED <<table, pending, observers, evictions, evictor, done, closed,
                 closer>>

EndProbe ==
  /\ evictor.pc = "finish"
  /\ table' = FinishProbe(table, evictor.probe, evictor.timedOut)
  /\ evictor' = IdleEvictor
  /\ UNCHANGED <<calls, pending, observers, evictions, done, closed, closer,
                 silent>>

EvictorStops ==
  /\ evictor.pc = "select"
  /\ done
  /\ evictor' = [evictor EXCEPT !.pc = "stopped"]
  /\ UNCHANGED <<table, calls, pending, observers, evictions, done, closed,
                 closer, silent>>

-----------------------------------------------------------------------------
(* The rest of the node and its environment.                               *)

\* Kademlia.AddContact: the application, or Join, seeds a peer.
Seed(n) ==
  /\ WithinBound(n)
  /\ table' = AddContact(table, n)
  /\ UNCHANGED <<calls, pending, observers, evictions, evictor, done, closed,
                 closer, silent>>

\* The socket fails: UDPTransport's reader closes its transport.
TransportFails ==
  /\ "fail" \in Endings
  /\ ~closed
  /\ closed' = TRUE
  /\ UNCHANGED <<table, calls, pending, observers, evictions, evictor, done,
                 closer, silent>>

\* Close: shutdown closes done, then the transport; then it waits for every
\* goroutine of the node, the application's own excepted.
CloseStarts ==
  /\ "close" \in Endings
  /\ closer = "open"
  /\ done' = TRUE
  /\ closer' = "shutdown"
  /\ UNCHANGED <<table, calls, pending, observers, evictions, evictor, closed,
                 silent>>

CloseTransport ==
  /\ closer = "shutdown"
  /\ closed' = TRUE
  /\ closer' = "waiting"
  /\ UNCHANGED <<table, calls, pending, observers, evictions, evictor, done,
                 silent>>

\* Fault: Close does not wait for registryWorkers.
CloseLeavesWorkers ==
  /\ closer = "waiting"
  /\ observers[Receiver].pc = "stopped"
  /\ evictor.pc = "stopped"
  /\ closer' = "returned"
  /\ UNCHANGED <<table, calls, pending, observers, evictions, evictor, done,
                 closed, silent>>

CloseReturns ==
  /\ closer = "waiting"
  /\ observers[Receiver].pc = "stopped"
  /\ \A w \in Worker : observers[w].pc = "idle"
  /\ evictor.pc = "stopped"
  /\ closer' = "returned"
  /\ UNCHANGED <<table, calls, pending, observers, evictions, evictor, done,
                 closed, silent>>

-----------------------------------------------------------------------------
CallStep(c) ==
  \/ Register(c) \/ Attempt(c) \/ Receives(c) \/ Timer(c) \/ Expire(c)
  \/ Leave(c)

ReceiverStep == Deliver \/ Enqueue(Receiver) \/ GiveUp(Receiver) \/ ReceiverStops

WorkerStep(w) == WorkerObserve(w) \/ WorkerRefuses(w) \/ Enqueue(w) \/ GiveUp(w)

EvictorStep == TakeProbe \/ CheckProbe \/ PingOld \/ EndProbe \/ EvictorStops

CloserStep == CloseTransport \/ CloseReturns

\* What nothing obliges to happen: packets, cancellations, calls, failures.
Environment ==
  \/ \E c \in Caller : ReceiveReply(c) \/ Cancel(c)
  \/ \E c \in App, n \in Peer : Call(c, n)
  \/ \E n \in Node :
       \/ ReceiveRequest(n)
       \/ Seed(n)
       \/ \E w \in Worker : Dispatch(n, w)
  \/ TransportFails
  \/ CloseStarts

Next ==
  \/ \E c \in Caller : CallStep(c)
  \/ ReceiverStep
  \/ \E w \in Worker : WorkerStep(w)
  \/ EvictorStep
  \/ CloserStep
  \/ Environment

Spec == Init /\ [][Next]_vars

\* Go schedules every runnable goroutine, a started timer fires, and
\* sync.Mutex hands itself to a waiter it has starved: a call, which needs
\* Network.mu while replies keep coming, is scheduled strongly fairly.
Fairness ==
  /\ \A c \in Caller : SF_vars(CallStep(c))
  /\ WF_vars(ReceiverStep)
  /\ \A w \in Worker : WF_vars(WorkerStep(w))
  /\ WF_vars(EvictorStep)
  /\ WF_vars(CloserStep)

FairSpec == Spec /\ Fairness
=============================================================================
