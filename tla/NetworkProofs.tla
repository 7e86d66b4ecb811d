---------------------------- MODULE NetworkProofs ----------------------------
(***************************************************************************)
(* Proofs about module Network, for every set of peers, buckets, callers   *)
(* and workers, every K, every number of retries, and every bound.         *)
(*                                                                         *)
(* The inductive invariant IInv adds to the type and to the good buckets   *)
(* where each probe comes from (ProbesKnown), how the program counters     *)
(* constrain the rest (PcInv) and, for calls in progress, that a version   *)
(* that is still current proves that the peer has been silent              *)
(* (VersionInv).  ResInv adds that a bucket is reserved exactly while one  *)
(* probe of it is somewhere; with it each step of the node is one of       *)
(* PeerSet.                                                                *)
(***************************************************************************)
EXTENDS NetworkProps, RoutingTableProofs, FiniteSetTheorems, SequenceTheorems

\* A probe of two peers of its bucket, at a version the bucket has given.
KnownProbe(t, p) == GoodProbe(p) /\ p.version =< t[p.bucket].version

ProbesKnown ==
  /\ \A o \in Observer :
       observers[o].probe # None => KnownProbe(table, observers[o].probe)
  /\ \A i \in DOMAIN evictions : KnownProbe(table, evictions[i])
  /\ evictor.probe # None => KnownProbe(table, evictor.probe)

PcInv ==
  /\ \A o \in Observer : observers[o].pc = "enqueue" <=> observers[o].probe # None
  /\ evictor.pc \in {"check", "ping", "finish"} <=> evictor.probe # None
  /\ calls[Evictor].pc # "idle" => evictor.pc = "ping"
  /\ \A c \in Caller : calls[c].pc = "expired" => calls[c].attempt = Retries

TableInv == TypeOK /\ GoodTable(table) /\ ProbesKnown /\ PcInv

-----------------------------------------------------------------------------
LEMMA SameTable ==
  ASSUME NEW t, GoodTable(t)
  PROVE  VersionStep(t, t)
  BY GoodBucketType, BucketAssumption DEF VersionStep

LEMMA KnownProbeKept ==
  ASSUME NEW t, GoodTable(t), NEW u, GoodTable(u), VersionStep(t, u),
         NEW p, KnownProbe(t, p)
  PROVE  KnownProbe(u, p)
<1>1. p.old \in Peer /\ p.bucket \in Bucket /\ BucketOf[p.old] = p.bucket
      /\ p.version \in Nat
  BY DEF KnownProbe, GoodProbe, ProbeType
<1>2. u[p.bucket].version >= t[p.bucket].version
  BY <1>1 DEF VersionStep
<1>3. u[p.bucket].version \in Nat /\ t[p.bucket].version \in Nat
  BY <1>1, GoodBucketType
<1> QED
  BY <1>1, <1>2, <1>3 DEF KnownProbe

\* The probe that an observation hands out is at a version the bucket has.
LEMMA NewProbeKnown ==
  ASSUME NEW t, GoodTable(t), NEW n \in Node, NeedsProbe(t, n)
  PROVE  KnownProbe(t, ProbeFor(t, n))
<1> DEFINE p == ProbeFor(t, n)
<1>1. /\ GoodProbe(p)
      /\ p.bucket = BucketOf[n]
      /\ p.version = t[BucketOf[n]].versions[p.old]
  BY ProbeForFacts
<1>2. p.old \in Peer /\ p.bucket \in Bucket
  BY <1>1 DEF GoodProbe, ProbeType
<1> HIDE DEF p
<1>3. p.version =< t[p.bucket].version
  BY <1>1, <1>2, GoodBucketType
<1> QED
  BY <1>1, <1>3 DEF KnownProbe, p

\* Where an observer goes next is a state of an observer.
LEMMA ContinueType ==
  ASSUME NEW rec \in ObserverType
  PROVE  /\ Continue(rec) \in ObserverType
         /\ Continue(rec).probe = None
         /\ Continue(rec).pc \in {"deliver", "observe", "idle"}
         /\ Continue(rec).call = rec.call
<1>1. IdleObserver \in ObserverType
  BY DEF IdleObserver, ObserverType, ObserverPc, Node
<1> QED
  BY <1>1 DEF Continue, ObserverType, ObserverPc, IdleObserver

\* Every step leaves a good table and only moves versions on.
LEMMA TableStep ==
  ASSUME TableInv, [Next]_vars
  PROVE  GoodTable(table') /\ VersionStep(table, table')
<1> USE DEF TableInv
<1>1. CASE UNCHANGED table
  BY <1>1, SameTable
<1>2. ASSUME NEW o \in Observer, NEW rec \in ObserverType, ObserveContact(o, rec)
      PROVE  GoodTable(table') /\ VersionStep(table, table')
  BY <1>2, ObserveFacts DEF ObserveContact, ObserverType
<1>3. ASSUME NEW c \in Caller, Expire(c)
      PROVE  GoodTable(table') /\ VersionStep(table, table')
  <2>1. calls[c].node \in Node /\ calls[c].version \in Nat
    BY DEF TypeOK, CallType
  <2> QED
    BY <1>3, <2>1, RemoveUnresponsiveFacts DEF Expire
<1>4. ASSUME NEW c \in Caller, ReceiveReply(c)
      PROVE  GoodTable(table') /\ VersionStep(table, table')
  <2>1. [IdleObserver EXCEPT !.node = calls[c].node, !.call = c] \in ObserverType
    BY DEF TypeOK, CallType, IdleObserver, ObserverType, ObserverPc
  <2>2. Receiver \in Observer
    BY DEF Observer
  <2> QED
    BY <1>2, <1>4, <2>1, <2>2 DEF ReceiveReply
<1>5. ASSUME NEW n \in Node, ReceiveRequest(n)
      PROVE  GoodTable(table') /\ VersionStep(table, table')
  <2>1. [IdleObserver EXCEPT !.node = n] \in ObserverType
    BY DEF IdleObserver, ObserverType, ObserverPc
  <2>2. Receiver \in Observer
    BY DEF Observer
  <2> QED
    BY <1>2, <1>5, <2>1, <2>2 DEF ReceiveRequest
<1>6. ASSUME NEW w \in Worker, WorkerObserve(w)
      PROVE  GoodTable(table') /\ VersionStep(table, table')
  <2>1. w \in Observer /\ observers[w] \in ObserverType
    BY DEF TypeOK, Observer
  <2> QED
    BY <1>2, <1>6, <2>1 DEF WorkerObserve
<1>7. ASSUME NEW o \in Observer, GiveUp(o)
      PROVE  GoodTable(table') /\ VersionStep(table, table')
  <2>1. GoodProbe(observers[o].probe)
    BY <1>7 DEF GiveUp, PcInv, ProbesKnown, KnownProbe
  <2>2. PICK x \in BOOLEAN : x = FALSE
    OBVIOUS
  <2>3. table' = FinishProbe(table, observers[o].probe, x)
    BY <1>7, <2>2 DEF GiveUp
  <2> QED
    BY <2>1, <2>3, FinishProbeFacts
<1>8. ASSUME EndProbe
      PROVE  GoodTable(table') /\ VersionStep(table, table')
  <2>1. GoodProbe(evictor.probe)
    BY <1>8 DEF EndProbe, PcInv, ProbesKnown, KnownProbe
  <2>2. evictor.timedOut \in BOOLEAN
    BY DEF TypeOK, EvictorType
  <2> QED
    BY <1>8, <2>1, <2>2, FinishProbeFacts DEF EndProbe
<1>9. ASSUME NEW n \in Node, Seed(n)
      PROVE  GoodTable(table') /\ VersionStep(table, table')
  BY <1>9, AddContactFacts DEF Seed
<1>10. CASE \E c \in Caller : CallStep(c)
  BY <1>1, <1>3, <1>10
  DEF CallStep, Register, Attempt, Receives, Timer, Leave
<1>11. CASE ReceiverStep
  <2>1. Receiver \in Observer
    BY DEF Observer
  <2> QED
    BY <1>1, <1>7, <1>11, <2>1 DEF ReceiverStep, Deliver, Enqueue, ReceiverStops
<1>12. CASE \E w \in Worker : WorkerStep(w)
  <2>1. Worker \subseteq Observer
    BY DEF Observer
  <2> QED
    BY <1>1, <1>6, <1>7, <1>12, <2>1 DEF WorkerStep, WorkerRefuses, Enqueue
<1>13. CASE EvictorStep
  BY <1>1, <1>8, <1>13
  DEF EvictorStep, TakeProbe, CheckProbe, PingOld, EvictorStops
<1>14. CASE CloserStep
  BY <1>1, <1>14 DEF CloserStep, CloseTransport, CloseReturns
<1>15. CASE Environment
  BY <1>1, <1>4, <1>5, <1>9, <1>15
  DEF Environment, Cancel, Call, Dispatch, TransportFails, CloseStarts
<1>16. CASE UNCHANGED vars
  BY <1>1, <1>16 DEF vars
<1> QED
  BY <1>10, <1>11, <1>12, <1>13, <1>14, <1>15, <1>16 DEF Next

LEMMA IdleTypes ==
  /\ IdleCall \in CallType
  /\ IdleObserver \in ObserverType /\ IdleObserver.pc = "idle"
  /\ IdleObserver.probe = None
  /\ IdleEvictor \in EvictorType /\ IdleEvictor.pc = "select"
  /\ IdleEvictor.probe = None
<1>1. 0 \in 0 .. Retries
  BY RetriesAssumption
<1> QED
  BY <1>1 DEF IdleCall, CallType, CallPc, IdleObserver, ObserverType, ObserverPc,
              IdleEvictor, EvictorType, EvictorPc, Node

LEMMA InitTableInv == Init => TableInv
<1> SUFFICES ASSUME Init PROVE TableInv
  OBVIOUS
<1>1. GoodTable(table)
  BY NewTableGood DEF Init
<1>2. TypeOK
  <2>1. table \in TableType
    BY <1>1 DEF GoodTable
  <2>2. evictions \in Seq(ProbeType)
    BY DEF Init
  <2> QED
    BY <2>1, <2>2, IdleTypes DEF Init, TypeOK
<1>3. ProbesKnown
  BY IdleTypes DEF Init, ProbesKnown
<1>4. PcInv
  <2>1. Evictor \in Caller /\ IdleCall.pc = "idle"
    BY DEF Caller, IdleCall
  <2> QED
    BY <2>1, IdleTypes DEF Init, PcInv
<1> QED
  BY <1>1, <1>2, <1>3, <1>4 DEF TableInv

\* The steps of a call.
LEMMA CallTableInv ==
  ASSUME TableInv, NEW c \in Caller, CallStep(c), GoodTable(table'),
         \A p : KnownProbe(table, p) => KnownProbe(table', p)
  PROVE  TableInv'
<1> USE DEF TableInv
<1>1. table' \in TableType /\ Evictor \in Caller
  BY DEF GoodTable, Caller
<1>2. /\ calls \in [Caller -> CallType] /\ evictor \in EvictorType
      /\ IdleCall \in CallType /\ IdleCall.pc = "idle"
  BY IdleTypes DEF TypeOK, IdleCall
<1>3. ASSUME NEW timedOut \in BOOLEAN, Return(c, timedOut), calls[c].pc # "idle"
      PROVE  /\ calls' \in [Caller -> CallType] /\ evictor' \in EvictorType
             /\ silent' \subseteq silent
             /\ evictor'.probe = evictor.probe
             /\ evictor'.pc \in {"check", "ping", "finish"} <=> evictor'.probe # None
             /\ calls'[Evictor].pc # "idle" => evictor'.pc = "ping"
             /\ \A d \in Caller : calls'[d].pc = "expired" => calls'[d].attempt = Retries
  <2>1. /\ calls' \in [Caller -> CallType]
        /\ calls' = [calls EXCEPT ![c] = IdleCall]
    BY <1>2, <1>3 DEF Return
  <2>2. \A d \in Caller : calls'[d].pc = "expired" => calls'[d].attempt = Retries
    BY <2>1, <1>2 DEF PcInv
  <2>3. CASE c = Evictor
    <3>1. evictor' = [evictor EXCEPT !.pc = "finish", !.timedOut = timedOut]
      BY <1>3, <2>3 DEF Return, PingReturns
    <3>2. /\ evictor' \in EvictorType /\ evictor'.pc = "finish"
          /\ evictor'.probe = evictor.probe
      BY <3>1, <1>2 DEF EvictorType, EvictorPc
    <3>3. evictor.pc = "ping"
      BY <1>3, <2>3 DEF PcInv
    <3>4. calls'[Evictor].pc = "idle"
      BY <2>1, <2>3, <1>1, <1>2
    <3> QED
      BY <2>1, <2>2, <3>2, <3>3, <3>4, <1>3 DEF PcInv, Return
  <2>4. CASE c # Evictor
    <3>1. UNCHANGED evictor
      BY <1>3, <2>4 DEF Return
    <3>2. calls'[Evictor] = calls[Evictor]
      BY <2>1, <2>4, <1>1, <1>2
    <3> QED
      BY <2>1, <2>2, <3>1, <3>2, <1>2, <1>3 DEF PcInv, Return
  <2> QED
    BY <2>3, <2>4
<1>4. CASE /\ UNCHANGED <<pending, observers, evictions, evictor, done, closed,
                          closer, silent>>
           /\ calls' \in [Caller -> CallType]
           /\ calls[Evictor].pc = "idle" => calls'[Evictor].pc = "idle"
           /\ \A d \in Caller : calls'[d].pc = "expired" => calls'[d].attempt = Retries
  <2>1. TypeOK'
    BY <1>1, <1>4 DEF TypeOK
  <2>2. ProbesKnown'
    BY <1>4 DEF ProbesKnown
  <2>3. PcInv'
    BY <1>4 DEF PcInv
  <2> QED
    BY <2>1, <2>2, <2>3
<1>5. CASE Register(c)
  <2>1. CASE done
    <3>1. PICK x \in BOOLEAN : x = FALSE
      OBVIOUS
    <3>2. Return(c, x) /\ calls[c].pc # "idle"
      BY <2>1, <1>5, <3>1 DEF Register
    <3>3. UNCHANGED <<pending, observers, evictions, done, closed, closer>>
      BY <2>1, <1>5 DEF Register
    <3>4. TypeOK'
      BY <1>1, <1>3, <3>2, <3>3 DEF TypeOK
    <3>5. ProbesKnown'
      BY <1>3, <3>2, <3>3 DEF ProbesKnown
    <3>6. PcInv'
      BY <1>3, <3>2, <3>3 DEF PcInv
    <3> QED
      BY <3>4, <3>5, <3>6
  <2>2. CASE ~done
    <3>1. /\ pending' = pending \cup {c}
          /\ calls' = [calls EXCEPT ![c].pc = "attempt"]
          /\ UNCHANGED <<evictor, silent, observers, evictions, done, closed, closer>>
          /\ calls[c].pc = "begun"
      BY <2>2, <1>5 DEF Register
    <3>2. calls' \in [Caller -> CallType] /\ pending' \subseteq Caller
      BY <3>1, <1>2 DEF TypeOK, CallType, CallPc
    <3>3. TypeOK'
      BY <1>1, <3>1, <3>2 DEF TypeOK
    <3>4. ProbesKnown'
      BY <3>1 DEF ProbesKnown
    <3>5. PcInv'
      BY <3>1, <1>1, <1>2 DEF PcInv, CallType
    <3> QED
      BY <3>3, <3>4, <3>5
  <2> QED
    BY <2>1, <2>2
<1>6. CASE Attempt(c)
  <2>1. calls[c].pc = "attempt" /\ calls' \in [Caller -> CallType]
    BY <1>2, <1>6 DEF Attempt, CallType, CallPc
  <2> QED
    BY <1>1, <1>2, <1>4, <1>6, <2>1 DEF Attempt, PcInv, CallType
<1>7. CASE Receives(c)
  <2>1. calls[c].pc = "waiting" /\ calls' \in [Caller -> CallType]
    BY <1>2, <1>7 DEF Receives, CallType, CallPc
  <2> QED
    BY <1>1, <1>2, <1>4, <1>7, <2>1 DEF Receives, PcInv, CallType
<1>8. CASE Timer(c)
  <2>1. calls[c].pc = "waiting" /\ calls[c] \in CallType /\ calls[c].attempt \in 0 .. Retries
    BY <1>2, <1>8 DEF Timer, CallType
  <2>2. CASE calls[c].attempt = Retries
    <3>1. calls' = [calls EXCEPT ![c].pc = "expired"]
      BY <1>2, <1>8, <2>2 DEF Timer
    <3>2. calls' \in [Caller -> CallType]
      BY <3>1, <1>2 DEF CallType, CallPc
    <3> QED
      BY <1>1, <1>2, <1>4, <1>8, <2>1, <2>2, <3>1, <3>2 DEF Timer, PcInv, CallType
  <2>3. CASE calls[c].attempt # Retries
    <3>1. calls' = [calls EXCEPT ![c] = [calls[c] EXCEPT !.pc = "attempt",
                                              !.attempt = calls[c].attempt + 1]]
      BY <1>2, <1>8, <2>3 DEF Timer
    <3>2. calls[c].attempt + 1 \in 0 .. Retries
      BY <2>1, <2>3, RetriesAssumption
    <3>3. calls' \in [Caller -> CallType]
      BY <3>1, <3>2, <1>2 DEF CallType, CallPc
    <3>4. calls'[c].pc = "attempt" /\ \A d \in Caller : d # c => calls'[d] = calls[d]
      BY <3>1, <1>2 DEF CallType
    <3> QED
      BY <1>1, <1>2, <1>4, <1>8, <2>1, <3>3, <3>4 DEF Timer, PcInv
  <2> QED
    BY <2>2, <2>3
<1>9. CASE Expire(c)
  <2>1. /\ calls[c].pc = "expired"
        /\ calls' = [calls EXCEPT ![c].pc = "leaving", ![c].timedOut = TRUE]
    BY <1>9 DEF Expire
  <2>2. calls' \in [Caller -> CallType]
    BY <2>1, <1>2 DEF CallType, CallPc
  <2> QED
    BY <1>1, <1>2, <1>4, <1>9, <2>1, <2>2 DEF Expire, PcInv, CallType
<1>10. CASE Leave(c)
  <2>1. calls[c].timedOut \in BOOLEAN /\ calls[c].pc # "idle"
    BY <1>2, <1>10 DEF Leave, CallType
  <2>2. /\ Return(c, calls[c].timedOut)
        /\ pending' = pending \ {c}
        /\ UNCHANGED <<observers, evictions, done, closed, closer>>
    BY <1>10 DEF Leave
  <2>3. TypeOK'
    BY <1>1, <1>3, <2>1, <2>2 DEF TypeOK
  <2>4. ProbesKnown'
    BY <1>3, <2>1, <2>2 DEF ProbesKnown
  <2>5. PcInv'
    BY <1>3, <2>1, <2>2 DEF PcInv
  <2> QED
    BY <2>3, <2>4, <2>5
<1> QED
  BY <1>5, <1>6, <1>7, <1>8, <1>9, <1>10 DEF CallStep

\* The steps that only move one observer on, and may queue its probe.
LEMMA ObserverTableInv ==
  ASSUME TableInv, NEW o \in Observer, NEW rec \in ObserverType,
         GoodTable(table'),
         \A p : KnownProbe(table, p) => KnownProbe(table', p),
         observers' = [observers EXCEPT ![o] = rec],
         rec.pc = "enqueue" <=> rec.probe # None,
         rec.probe # None => KnownProbe(table, rec.probe),
         calls' \in [Caller -> CallType],
         \A c \in Caller : calls'[c].pc = calls[c].pc /\ calls'[c].attempt = calls[c].attempt,
         UNCHANGED <<pending, evictor, closed, closer>>,
         done' \in BOOLEAN, silent' \subseteq silent,
         \/ UNCHANGED evictions
         \/ \E p \in ProbeType : KnownProbe(table, p) /\ evictions' = Append(evictions, p)
  PROVE  TableInv'
<1> USE DEF TableInv
<1>1. table' \in TableType /\ Evictor \in Caller
  BY DEF GoodTable, Caller
<1>2. observers \in [Observer -> ObserverType] /\ evictions \in Seq(ProbeType)
  BY DEF TypeOK
<1>3. /\ evictions' \in Seq(ProbeType)
      /\ \A i \in DOMAIN evictions' : KnownProbe(table, evictions'[i])
  <2>1. CASE UNCHANGED evictions
    BY <2>1, <1>2 DEF ProbesKnown
  <2>2. ASSUME NEW p \in ProbeType, KnownProbe(table, p), evictions' = Append(evictions, p)
        PROVE  /\ evictions' \in Seq(ProbeType)
               /\ \A i \in DOMAIN evictions' : KnownProbe(table, evictions'[i])
    <3>1. /\ evictions' \in Seq(ProbeType)
          /\ Len(evictions') = Len(evictions) + 1
          /\ \A i \in 1 .. Len(evictions) : evictions'[i] = evictions[i]
          /\ evictions'[Len(evictions) + 1] = p
      BY <1>2, <2>2
    <3>2. \A i \in DOMAIN evictions : KnownProbe(table, evictions[i])
      BY DEF ProbesKnown
    <3> QED
      BY <1>2, <2>2, <3>1, <3>2
  <2> QED
    BY <2>1, <2>2
<1>4. TypeOK'
  BY <1>1, <1>2, <1>3 DEF TypeOK
<1>5. ProbesKnown'
  <2>1. \A x \in Observer : observers'[x].probe # None =>
          KnownProbe(table', observers'[x].probe)
    BY <1>2 DEF ProbesKnown
  <2>2. \A i \in DOMAIN evictions' : KnownProbe(table', evictions'[i])
    BY <1>3
  <2>3. evictor'.probe # None => KnownProbe(table', evictor'.probe)
    BY DEF ProbesKnown
  <2> QED
    BY <2>1, <2>2, <2>3 DEF ProbesKnown
<1>6. PcInv'
  <2>1. \A x \in Observer : observers'[x].pc = "enqueue" <=> observers'[x].probe # None
    BY <1>2 DEF PcInv
  <2> QED
    BY <1>1, <2>1 DEF PcInv
<1> QED
  BY <1>4, <1>5, <1>6

\* observeContact, whatever led to it.
LEMMA ObserveTableInv ==
  ASSUME TableInv, NEW o \in Observer, NEW rec \in ObserverType,
         ObserveContact(o, rec), GoodTable(table'),
         \A p : KnownProbe(table, p) => KnownProbe(table', p),
         UNCHANGED <<calls, pending, evictions, evictor, done, closed, closer>>
  PROVE  TableInv'
<1> USE DEF TableInv
<1> DEFINE next == IF NeedsProbe(table, rec.node)
                     THEN [rec EXCEPT !.pc = "enqueue",
                                      !.probe = ProbeFor(table, rec.node)]
                     ELSE Continue(rec)
<1>1. /\ observers' = [observers EXCEPT ![o] = next]
      /\ silent' \subseteq silent
  BY DEF ObserveContact
<1>2. /\ next \in ObserverType
      /\ next.pc = "enqueue" <=> next.probe # None
      /\ next.probe # None => KnownProbe(table, next.probe)
  <2>1. CASE NeedsProbe(table, rec.node)
    <3>1. KnownProbe(table, ProbeFor(table, rec.node))
      BY <2>1, NewProbeKnown DEF ObserverType
    <3>2. ProbeFor(table, rec.node) \in ProbeType /\ ProbeFor(table, rec.node) # None
      BY <3>1, ProbeAssumption DEF KnownProbe, GoodProbe
    <3>3. next = [rec EXCEPT !.pc = "enqueue", !.probe = ProbeFor(table, rec.node)]
      BY <2>1
    <3> QED
      BY <3>1, <3>2, <3>3 DEF ObserverType, ObserverPc
  <2>2. CASE ~NeedsProbe(table, rec.node)
    <3>1. next = Continue(rec)
      BY <2>2
    <3> QED
      BY <3>1, ContinueType
  <2> QED
    BY <2>1, <2>2
<1> HIDE DEF next
<1>3. calls' \in [Caller -> CallType] /\ done' \in BOOLEAN
  BY DEF TypeOK
<1> QED
  BY <1>1, <1>2, <1>3, ObserverTableInv

LEMMA ObserversTableInv ==
  ASSUME TableInv, GoodTable(table'),
         \A p : KnownProbe(table, p) => KnownProbe(table', p),
         ReceiverStep \/ \E w \in Worker : WorkerStep(w)
  PROVE  TableInv'
<1> USE DEF TableInv
<1>1. /\ Receiver \in Observer /\ Worker \subseteq Observer
      /\ observers \in [Observer -> ObserverType]
      /\ calls \in [Caller -> CallType]
      /\ done \in BOOLEAN
  BY DEF Observer, TypeOK
<1>2. CASE Deliver
  <2>1. /\ observers' = [observers EXCEPT ![Receiver] = IdleObserver]
        /\ calls' = [calls EXCEPT ![observers[Receiver].call].response = TRUE]
        /\ UNCHANGED <<pending, evictions, evictor, done, closed, closer, silent>>
    BY <1>2 DEF Deliver
  <2>2. /\ calls' \in [Caller -> CallType]
        /\ \A c \in Caller : /\ calls'[c].pc = calls[c].pc
                            /\ calls'[c].attempt = calls[c].attempt
    BY <2>1, <1>1 DEF CallType
  <2> QED
    BY <1>1, <2>1, <2>2, IdleTypes, ObserverTableInv
<1>3. ASSUME NEW o \in Observer, Enqueue(o)
      PROVE  TableInv'
  <2> DEFINE rec == Continue(observers[o])
  <2>1. rec \in ObserverType /\ rec.probe = None /\ rec.pc # "enqueue"
    BY <1>1, ContinueType
  <2>2. /\ observers' = [observers EXCEPT ![o] = rec]
        /\ evictions' = Append(evictions, observers[o].probe)
        /\ UNCHANGED <<calls, pending, evictor, done, closed, closer, silent>>
        /\ observers[o].probe # None
    BY <1>3 DEF Enqueue, PcInv
  <2>3. KnownProbe(table, observers[o].probe) /\ observers[o].probe \in ProbeType
    BY <2>2 DEF ProbesKnown, KnownProbe, GoodProbe
  <2> HIDE DEF rec
  <2> QED
    BY <1>1, <2>1, <2>2, <2>3, ObserverTableInv
<1>4. ASSUME NEW o \in Observer, GiveUp(o)
      PROVE  TableInv'
  <2> DEFINE rec == Continue(observers[o])
  <2>1. rec \in ObserverType /\ rec.probe = None /\ rec.pc # "enqueue"
    BY <1>1, ContinueType
  <2>2. /\ observers' = [observers EXCEPT ![o] = rec]
        /\ UNCHANGED <<calls, pending, evictions, evictor, done, closed, closer, silent>>
    BY <1>4 DEF GiveUp
  <2> HIDE DEF rec
  <2> QED
    BY <1>1, <2>1, <2>2, ObserverTableInv
<1>5. CASE ReceiverStops
  <2> DEFINE rec == [observers[Receiver] EXCEPT !.pc = "stopped"]
  <2>1. /\ rec \in ObserverType /\ rec.pc = "stopped"
        /\ rec.probe = observers[Receiver].probe
    BY <1>1 DEF ObserverType, ObserverPc
  <2>2. rec.probe = None
    BY <2>1, <1>1, <1>5 DEF ReceiverStops, PcInv
  <2>3. /\ observers' = [observers EXCEPT ![Receiver] = rec]
        /\ done' = TRUE
        /\ UNCHANGED <<table, calls, pending, evictions, evictor, closed, closer, silent>>
    BY <1>5 DEF ReceiverStops
  <2> HIDE DEF rec
  <2>4. done' \in BOOLEAN
    BY <2>3
  <2> QED
    BY <1>1, <2>1, <2>2, <2>3, <2>4, ObserverTableInv
<1>6. ASSUME NEW w \in Worker, WorkerObserve(w)
      PROVE  TableInv'
  <2>1. w \in Observer /\ observers[w] \in ObserverType
    BY <1>1
  <2> QED
    BY <1>6, <2>1, ObserveTableInv DEF WorkerObserve
<1>7. ASSUME NEW w \in Worker, WorkerRefuses(w)
      PROVE  TableInv'
  <2>1. /\ observers' = [observers EXCEPT ![w] = IdleObserver]
        /\ UNCHANGED <<table, calls, pending, evictions, evictor, done, closed,
                       closer, silent>>
    BY <1>7 DEF WorkerRefuses
  <2> QED
    BY <1>1, <2>1, IdleTypes, ObserverTableInv
<1> QED
  BY <1>1, <1>2, <1>3, <1>4, <1>5, <1>6, <1>7 DEF ReceiverStep, WorkerStep

LEMMA EvictorTableInv ==
  ASSUME TableInv, GoodTable(table'),
         \A p : KnownProbe(table, p) => KnownProbe(table', p),
         EvictorStep
  PROVE  TableInv'
<1> USE DEF TableInv
<1>1. /\ table' \in TableType /\ Evictor \in Caller
      /\ calls \in [Caller -> CallType] /\ evictor \in EvictorType
      /\ evictions \in Seq(ProbeType)
      /\ IdleCall \in CallType
  BY IdleTypes DEF GoodTable, Caller, TypeOK
<1>2. ASSUME calls[Evictor].pc # "idle" PROVE evictor.pc = "ping"
  BY <1>2 DEF PcInv
<1>3. CASE TakeProbe
  <2>1. /\ evictor.pc = "select" /\ evictions # << >>
        /\ evictor' = [evictor EXCEPT !.pc = "check", !.probe = Head(evictions)]
        /\ evictions' = Tail(evictions)
        /\ UNCHANGED <<table, calls, pending, observers, done, closed, closer, silent>>
    BY <1>3 DEF TakeProbe
  <2>2. /\ Head(evictions) \in ProbeType /\ Head(evictions) = evictions[1]
        /\ 1 \in DOMAIN evictions
        /\ Tail(evictions) \in Seq(ProbeType)
        /\ \A i \in DOMAIN Tail(evictions) :
             i + 1 \in DOMAIN evictions /\ Tail(evictions)[i] = evictions[i + 1]
    BY <1>1, <2>1
  <2>3. Head(evictions) # None
    BY <2>2, ProbeAssumption
  <2>4. /\ evictor' \in EvictorType /\ evictor'.pc = "check"
        /\ evictor'.probe = Head(evictions)
    BY <1>1, <2>1, <2>2 DEF EvictorType, EvictorPc
  <2>5. TypeOK'
    BY <1>1, <2>1, <2>2, <2>4 DEF TypeOK
  <2>6. ProbesKnown'
    BY <2>1, <2>2, <2>4 DEF ProbesKnown
  <2>7. PcInv'
    BY <1>2, <2>1, <2>3, <2>4 DEF PcInv
  <2> QED
    BY <2>5, <2>6, <2>7
<1>4. CASE CheckProbe
  <2>1. /\ evictor.pc = "check"
        /\ evictor' = [evictor EXCEPT !.pc =
             IF ProbeCurrent(table, evictor.probe) THEN "ping" ELSE "finish"]
        /\ UNCHANGED <<table, calls, pending, observers, evictions, done, closed,
                       closer, silent>>
    BY <1>4 DEF CheckProbe
  <2>2. /\ evictor' \in EvictorType /\ evictor'.pc \in {"ping", "finish"}
        /\ evictor'.probe = evictor.probe
    BY <1>1, <2>1 DEF EvictorType, EvictorPc
  <2>3. TypeOK'
    BY <1>1, <2>1, <2>2 DEF TypeOK
  <2>4. ProbesKnown'
    BY <2>1, <2>2 DEF ProbesKnown
  <2>5. PcInv'
    BY <1>2, <2>1, <2>2 DEF PcInv
  <2> QED
    BY <2>3, <2>4, <2>5
<1>5. CASE PingOld
  <2>1. /\ evictor.pc = "ping"
        /\ calls' = [calls EXCEPT ![Evictor] =
             [IdleCall EXCEPT !.pc = "begun", !.node = evictor.probe.old,
                              !.version = ContactVersion(table, evictor.probe.old)]]
        /\ silent' = silent \cup {Evictor}
        /\ UNCHANGED <<table, pending, observers, evictions, evictor, done,
                       closed, closer>>
    BY <1>5 DEF PingOld, BeginCall
  <2>2. evictor.probe # None /\ GoodProbe(evictor.probe)
    BY <2>1 DEF PcInv, ProbesKnown, KnownProbe
  <2>3. evictor.probe.old \in Peer
    BY <2>2 DEF GoodProbe, ProbeType
  <2>4. ContactVersion(table, evictor.probe.old) \in Nat
    BY <2>3, GoodBucketType, BucketAssumption DEF ContactVersion
  <2>5. calls' \in [Caller -> CallType]
    BY <1>1, <2>1, <2>3, <2>4 DEF CallType, CallPc, Node
  <2>6. TypeOK'
    BY <1>1, <2>1, <2>5 DEF TypeOK
  <2>7. ProbesKnown'
    BY <2>1 DEF ProbesKnown
  <2>8. PcInv'
    BY <1>1, <2>1 DEF PcInv, CallType
  <2> QED
    BY <2>6, <2>7, <2>8
<1>6. CASE EndProbe
  <2>1. /\ evictor.pc = "finish" /\ evictor' = IdleEvictor
        /\ UNCHANGED <<calls, pending, observers, evictions, done, closed,
                       closer, silent>>
    BY <1>6 DEF EndProbe
  <2>2. TypeOK'
    BY <1>1, <2>1, IdleTypes DEF TypeOK
  <2>3. ProbesKnown'
    BY <2>1, IdleTypes DEF ProbesKnown
  <2>4. PcInv'
    BY <1>2, <2>1, IdleTypes DEF PcInv
  <2> QED
    BY <2>2, <2>3, <2>4
<1>7. CASE EvictorStops
  <2>1. /\ evictor.pc = "select"
        /\ evictor' = [evictor EXCEPT !.pc = "stopped"]
        /\ UNCHANGED <<table, calls, pending, observers, evictions, done, closed,
                       closer, silent>>
    BY <1>7 DEF EvictorStops
  <2>2. /\ evictor' \in EvictorType /\ evictor'.pc = "stopped"
        /\ evictor'.probe = evictor.probe
    BY <1>1, <2>1 DEF EvictorType, EvictorPc
  <2>3. TypeOK'
    BY <1>1, <2>1, <2>2 DEF TypeOK
  <2>4. ProbesKnown'
    BY <2>1, <2>2 DEF ProbesKnown
  <2>5. PcInv'
    BY <1>2, <2>1, <2>2 DEF PcInv
  <2> QED
    BY <2>3, <2>4, <2>5
<1> QED
  BY <1>3, <1>4, <1>5, <1>6, <1>7 DEF EvictorStep

LEMMA TableInvStep == TableInv /\ [Next]_vars => TableInv'
<1> SUFFICES ASSUME TableInv, [Next]_vars PROVE TableInv'
  OBVIOUS
<1> USE DEF TableInv
<1>1. GoodTable(table') /\ VersionStep(table, table') /\ table' \in TableType
  BY TableStep DEF GoodTable
<1>2. ASSUME NEW p, KnownProbe(table, p) PROVE KnownProbe(table', p)
  BY <1>1, <1>2, KnownProbeKept
<1>3. CASE \E c \in Caller : CallStep(c)
  BY <1>1, <1>2, <1>3, CallTableInv
<1>4. CASE ReceiverStep \/ \E w \in Worker : WorkerStep(w)
  BY <1>1, <1>2, <1>4, ObserversTableInv
<1>5. CASE EvictorStep
  BY <1>1, <1>2, <1>5, EvictorTableInv
<1>6. CASE /\ UNCHANGED <<calls, pending, observers, evictions, evictor, silent>>
           /\ done' \in BOOLEAN /\ closed' \in BOOLEAN
           /\ closer' \in {"open", "shutdown", "waiting", "returned"}
  <2>1. TypeOK'
    BY <1>1, <1>6 DEF TypeOK
  <2>2. ProbesKnown'
    BY <1>2, <1>6 DEF ProbesKnown
  <2>3. PcInv'
    BY <1>6 DEF PcInv
  <2> QED
    BY <1>1, <2>1, <2>2, <2>3
<1>7. CASE CloserStep
  BY <1>6, <1>7 DEF CloserStep, CloseTransport, CloseReturns, TypeOK
<1>8. CASE UNCHANGED vars
  BY <1>6, <1>8 DEF vars, TypeOK
<1>9. CASE Environment
  <2>1. ASSUME NEW c \in Caller, ReceiveReply(c) PROVE TableInv'
    <3>1. [IdleObserver EXCEPT !.node = calls[c].node, !.call = c] \in ObserverType
      BY DEF TypeOK, CallType, IdleObserver, ObserverType, ObserverPc
    <3>2. Receiver \in Observer
      BY DEF Observer
    <3> QED
      BY <1>1, <1>2, <2>1, <3>1, <3>2, ObserveTableInv DEF ReceiveReply
  <2>2. ASSUME NEW n \in Node, ReceiveRequest(n) PROVE TableInv'
    <3>1. [IdleObserver EXCEPT !.node = n] \in ObserverType
      BY DEF IdleObserver, ObserverType, ObserverPc
    <3>2. Receiver \in Observer
      BY DEF Observer
    <3> QED
      BY <1>1, <1>2, <2>2, <3>1, <3>2, ObserveTableInv DEF ReceiveRequest
  <2>3. ASSUME NEW c \in Caller, Cancel(c) PROVE TableInv'
    <3>1. /\ calls' = [calls EXCEPT ![c].pc = "leaving"]
          /\ c # Evictor
          /\ UNCHANGED <<table, pending, observers, evictions, evictor, done,
                         closed, closer, silent>>
      BY <2>3, CallerAssumption DEF Cancel
    <3>2. calls' \in [Caller -> CallType]
      BY <3>1 DEF TypeOK, CallType, CallPc
    <3>3. TypeOK'
      BY <1>1, <3>1, <3>2 DEF TypeOK
    <3>4. ProbesKnown'
      BY <3>1 DEF ProbesKnown
    <3>5. PcInv'
      BY <3>1 DEF PcInv, TypeOK, CallType, Caller
    <3> QED
      BY <1>1, <3>3, <3>4, <3>5
  <2>4. ASSUME NEW c \in App, NEW n \in Peer, Call(c, n) PROVE TableInv'
    <3>1. /\ calls' = [calls EXCEPT ![c] = [IdleCall EXCEPT !.pc = "begun",
                          !.node = n, !.version = ContactVersion(table, n)]]
          /\ c # Evictor /\ c \in Caller
          /\ silent' = silent \cup {c}
          /\ UNCHANGED <<table, pending, observers, evictions, evictor, done,
                         closed, closer>>
      BY <2>4, CallerAssumption DEF Call, BeginCall, Caller
    <3>2. ContactVersion(table, n) \in Nat
      BY GoodBucketType, BucketAssumption DEF ContactVersion
    <3>3. calls' \in [Caller -> CallType]
      BY <3>1, <3>2, IdleTypes DEF TypeOK, CallType, CallPc, Node
    <3>4. TypeOK'
      BY <1>1, <3>1, <3>3 DEF TypeOK
    <3>5. ProbesKnown'
      BY <3>1 DEF ProbesKnown
    <3>6. PcInv'
      BY <3>1, IdleTypes DEF PcInv, TypeOK, CallType, Caller
    <3> QED
      BY <1>1, <3>4, <3>5, <3>6
  <2>5. ASSUME NEW n \in Node, NEW w \in Worker, Dispatch(n, w) PROVE TableInv'
    <3> DEFINE rec == [IdleObserver EXCEPT !.pc = "observe", !.node = n,
                                           !.again = TRUE]
    <3>1. rec \in ObserverType /\ rec.pc = "observe" /\ rec.probe = None
      BY DEF IdleObserver, ObserverType, ObserverPc
    <3>2. /\ observers' = [observers EXCEPT ![w] = rec]
          /\ UNCHANGED <<table, calls, pending, evictions, evictor, done, closed,
                         closer, silent>>
      BY <2>5 DEF Dispatch
    <3> HIDE DEF rec
    <3>3. w \in Observer /\ calls' \in [Caller -> CallType] /\ done' \in BOOLEAN
      BY <3>2 DEF Observer, TypeOK
    <3> QED
      BY <1>1, <1>2, <3>1, <3>2, <3>3, ObserverTableInv
  <2>6. CASE TransportFails \/ CloseStarts \/ \E n \in Node : Seed(n)
    BY <1>6, <2>6 DEF TransportFails, CloseStarts, Seed, TypeOK
  <2> QED
    BY <1>9, <2>1, <2>2, <2>3, <2>4, <2>5, <2>6 DEF Environment
<1> QED
  BY <1>3, <1>4, <1>5, <1>7, <1>8, <1>9 DEF Next

\* TypeOK and BucketInv hold in every reachable state.
THEOREM TypeCorrect == Spec => []TypeOK
<1>1. TableInv => TypeOK
  BY DEF TableInv
<1> QED
  BY <1>1, InitTableInv, TableInvStep, PTL DEF Spec

THEOREM BucketsCorrect == Spec => []BucketInv
<1>1. TableInv => BucketInv
  BY DEF TableInv, GoodTable, BucketInv
<1> QED
  BY <1>1, InitTableInv, TableInvStep, PTL DEF Spec

-----------------------------------------------------------------------------
(* Versions prove silence.                                                 *)

\* The version a call has read is one its bucket has given; while it is still
\* the peer's version, the peer has not been heard of since.  A ping of
\* evictionLoop has read the version of its probe, unless that is past.
VersionInv ==
  /\ \A c \in Caller :
       \/ calls[c].node = Self /\ calls[c].version = 0
       \/ /\ calls[c].node \in Peer
          /\ calls[c].version =< table[BucketOf[calls[c].node]].version
  /\ \A c \in Caller :
       /\ calls[c].pc # "idle" /\ calls[c].node \in Peer /\ calls[c].version # 0
       /\ table[BucketOf[calls[c].node]].versions[calls[c].node] = calls[c].version
       => c \in silent
  /\ calls[Evictor].pc # "idle" =>
       /\ calls[Evictor].node = evictor.probe.old
       /\ ProbeCurrent(table, evictor.probe) =>
            calls[Evictor].version = evictor.probe.version
  /\ \A c \in Caller : calls[c].timedOut => calls[c].pc = "leaving"
  /\ calls[Evictor].timedOut => ~ProbeCurrent(table, evictor.probe)
  /\ evictor.timedOut => /\ evictor.pc = "finish"
                         /\ ~ProbeCurrent(table, evictor.probe)

IInv == TableInv /\ VersionInv

\* A version that is current after a step was current before it, for a call
\* and for the probe with evictionLoop.
LEMMA CurrentBefore ==
  ASSUME TableInv, VersionStep(table, table')
  PROVE  /\ \A m \in Peer, v \in Nat :
              /\ v # 0 /\ v =< table[BucketOf[m]].version
              /\ table'[BucketOf[m]].versions[m] = v
              => table[BucketOf[m]].versions[m] = v
         /\ evictor.probe # None /\ ProbeCurrent(table', evictor.probe) =>
              ProbeCurrent(table, evictor.probe)
<1>1. ASSUME NEW m \in Peer, NEW v \in Nat, v # 0, v =< table[BucketOf[m]].version,
             table'[BucketOf[m]].versions[m] = v
      PROVE  table[BucketOf[m]].versions[m] = v
  BY <1>1, VersionStepOld DEF TableInv
<1>2. ASSUME evictor.probe # None, ProbeCurrent(table', evictor.probe)
      PROVE  ProbeCurrent(table, evictor.probe)
  <2> DEFINE p == evictor.probe
  <2>1. /\ p.old \in Peer /\ BucketOf[p.old] = p.bucket /\ p.version \in Nat
        /\ p.version # 0 /\ p.version =< table[p.bucket].version
    BY <1>2 DEF TableInv, ProbesKnown, KnownProbe, GoodProbe, ProbeType
  <2> QED
    BY <1>1, <1>2, <2>1 DEF ProbeCurrent
<1> QED
  BY <1>1, <1>2

\* What the steps keep that leave the calls and the eviction loop where they
\* are, or move them on without a result.
LEMMA VersionFrame ==
  ASSUME IInv, TableInv', VersionStep(table, table'),
         \A c \in Caller :
           /\ calls'[c].node = calls[c].node
           /\ calls'[c].version = calls[c].version
           /\ calls'[c].timedOut = calls[c].timedOut
           /\ calls'[c].pc # "idle" => calls[c].pc # "idle"
           /\ calls[c].pc = "leaving" => calls'[c].pc = "leaving",
         evictor'.probe = evictor.probe,
         evictor'.timedOut = evictor.timedOut,
         evictor.pc = "finish" => evictor'.pc = "finish",
         \A c \in silent \ silent' : calls[c].node \in Peer =>
           LET b == BucketOf[calls[c].node]
           IN  \/ table'[b].versions[calls[c].node] = 0
               \/ table'[b].versions[calls[c].node] > table[b].version
  PROVE  VersionInv'
<1> USE DEF IInv
<1>1. /\ calls \in [Caller -> CallType] /\ Evictor \in Caller
      /\ \A c \in Caller : calls[c].version \in Nat
      /\ silent \subseteq Caller
  BY DEF TableInv, TypeOK, CallType, Caller
<1>2. \A m \in Peer : /\ BucketOf[m] \in Bucket
                     /\ table[BucketOf[m]].version \in Nat
                     /\ table'[BucketOf[m]].version \in Nat
                     /\ table'[BucketOf[m]].version >= table[BucketOf[m]].version
  BY GoodBucketType, BucketAssumption DEF TableInv, VersionStep
<1>3. ASSUME NEW c \in Caller
      PROVE  \/ calls'[c].node = Self /\ calls'[c].version = 0
             \/ /\ calls'[c].node \in Peer
                /\ calls'[c].version =< table'[BucketOf[calls'[c].node]].version
  BY <1>1, <1>2 DEF VersionInv
<1>4. ASSUME NEW c \in Caller,
             calls'[c].pc # "idle", calls'[c].node \in Peer, calls'[c].version # 0,
             table'[BucketOf[calls'[c].node]].versions[calls'[c].node] = calls'[c].version
      PROVE  c \in silent'
  <2> DEFINE m == calls[c].node
             v == calls[c].version
  <2>1. m \in Peer /\ v \in Nat /\ v # 0 /\ table'[BucketOf[m]].versions[m] = v
    BY <1>1, <1>4
  <2>2. v =< table[BucketOf[m]].version
    BY <2>1, SelfAssumption DEF VersionInv
  <2>3. table[BucketOf[m]].versions[m] = v
    BY <2>1, <2>2, CurrentBefore
  <2>4. c \in silent
    BY <2>1, <2>3, <1>4 DEF VersionInv
  <2>5. ~ (table'[BucketOf[m]].versions[m] > table[BucketOf[m]].version)
    BY <2>1, <2>2, <1>2
  <2> QED
    BY <2>1, <2>4, <2>5
<1>5. ASSUME calls'[Evictor].pc # "idle"
      PROVE  /\ calls'[Evictor].node = evictor'.probe.old
             /\ ProbeCurrent(table', evictor'.probe) =>
                  calls'[Evictor].version = evictor'.probe.version
  <2>1. calls[Evictor].pc # "idle"
    BY <1>1, <1>5
  <2>2. evictor.probe # None
    BY <2>1 DEF TableInv, PcInv
  <2> QED
    BY <2>1, <2>2, <1>1, CurrentBefore DEF VersionInv
<1>6. ASSUME NEW c \in Caller, calls'[c].timedOut PROVE calls'[c].pc = "leaving"
  BY <1>6 DEF VersionInv
<1>7. ASSUME calls'[Evictor].timedOut PROVE ~ProbeCurrent(table', evictor'.probe)
  <2>1. calls[Evictor].timedOut /\ calls[Evictor].pc = "leaving"
    BY <1>1, <1>7 DEF VersionInv
  <2>2. evictor.probe # None
    BY <2>1 DEF TableInv, PcInv
  <2> QED
    BY <2>1, <2>2, CurrentBefore DEF VersionInv
<1>8. ASSUME evictor'.timedOut
      PROVE  evictor'.pc = "finish" /\ ~ProbeCurrent(table', evictor'.probe)
  <2>1. evictor.pc = "finish" /\ ~ProbeCurrent(table, evictor.probe)
    BY <1>8 DEF VersionInv
  <2>2. evictor.probe # None
    BY <2>1 DEF TableInv, PcInv
  <2> QED
    BY <2>1, <2>2, CurrentBefore
<1> QED
  BY <1>3, <1>4, <1>5, <1>6, <1>7, <1>8 DEF VersionInv

LEMMA InitVersionInv == Init => VersionInv
<1> SUFFICES ASSUME Init PROVE VersionInv
  OBVIOUS
<1>1. \A c \in Caller : calls[c] = IdleCall
  BY DEF Init
<1>2. /\ IdleCall.node = Self /\ IdleCall.version = 0 /\ IdleCall.pc = "idle"
      /\ IdleCall.timedOut = FALSE
  BY DEF IdleCall
<1>3. evictor.timedOut = FALSE /\ Evictor \in Caller
  BY DEF Init, IdleEvictor, Caller
<1> QED
  BY <1>1, <1>2, <1>3 DEF VersionInv

\* A call starts: its peer is silent since now, by definition.
LEMMA BeginVersionInv ==
  ASSUME IInv, TableInv', NEW c \in Caller, NEW n \in Peer, BeginCall(c, n),
         calls[c].pc = "idle",
         silent' = silent \cup {c},
         UNCHANGED <<table, evictor>>,
         c = Evictor => evictor.pc = "ping" /\ n = evictor.probe.old
  PROVE  VersionInv'
<1> USE DEF IInv
<1> DEFINE new == [IdleCall EXCEPT !.pc = "begun", !.node = n,
                                   !.version = ContactVersion(table, n)]
<1>1. calls \in [Caller -> CallType] /\ Evictor \in Caller
  BY DEF TableInv, TypeOK, Caller
<1>2. calls' = [calls EXCEPT ![c] = new]
  BY DEF BeginCall
<1>3. ContactVersion(table, n) = table[BucketOf[n]].versions[n]
  BY SelfAssumption DEF ContactVersion
<1>4. /\ new.node = n /\ new.pc = "begun" /\ new.timedOut = FALSE
      /\ new.version = table[BucketOf[n]].versions[n]
  BY <1>3 DEF IdleCall
<1>5. table[BucketOf[n]].versions[n] =< table[BucketOf[n]].version
  BY GoodBucketType, BucketAssumption DEF TableInv
<1> HIDE DEF new
<1>6. calls'[c] = new /\ \A d \in Caller : d # c => calls'[d] = calls[d]
  BY <1>1, <1>2
<1>7. \A d \in Caller :
        \/ calls'[d].node = Self /\ calls'[d].version = 0
        \/ /\ calls'[d].node \in Peer
           /\ calls'[d].version =< table'[BucketOf[calls'[d].node]].version
  BY <1>4, <1>5, <1>6 DEF VersionInv
<1>8. \A d \in Caller :
        /\ calls'[d].pc # "idle" /\ calls'[d].node \in Peer /\ calls'[d].version # 0
        /\ table'[BucketOf[calls'[d].node]].versions[calls'[d].node] = calls'[d].version
        => d \in silent'
  BY <1>6 DEF VersionInv
<1>9. calls'[Evictor].pc # "idle" =>
        /\ calls'[Evictor].node = evictor'.probe.old
        /\ ProbeCurrent(table', evictor'.probe) =>
             calls'[Evictor].version = evictor'.probe.version
  <2>1. CASE c = Evictor
    <3>1. evictor.probe # None
      BY <2>1 DEF TableInv, PcInv
    <3>2. BucketOf[n] = evictor.probe.bucket
      BY <2>1, <3>1 DEF TableInv, ProbesKnown, KnownProbe, GoodProbe
    <3> QED
      BY <2>1, <3>2, <1>4, <1>6 DEF ProbeCurrent
  <2>2. CASE c # Evictor
    BY <2>2, <1>1, <1>6 DEF VersionInv
  <2> QED
    BY <2>1, <2>2
<1>10. \A d \in Caller : calls'[d].timedOut => calls'[d].pc = "leaving"
  BY <1>4, <1>6 DEF VersionInv
<1>11. calls'[Evictor].timedOut => ~ProbeCurrent(table', evictor'.probe)
  BY <1>1, <1>4, <1>6 DEF VersionInv
<1>12. evictor'.timedOut =>
         evictor'.pc = "finish" /\ ~ProbeCurrent(table', evictor'.probe)
  BY DEF VersionInv
<1> QED
  BY <1>7, <1>8, <1>9, <1>10, <1>11, <1>12 DEF VersionInv

\* A call returns, with the outcome it has recorded.
LEMMA ReturnVersionInv ==
  ASSUME IInv, TableInv', NEW c \in Caller, NEW x \in BOOLEAN,
         x => calls[c].timedOut, Return(c, x),
         calls[c].pc # "idle", UNCHANGED table
  PROVE  VersionInv'
<1> USE DEF IInv
<1>1. /\ calls \in [Caller -> CallType] /\ Evictor \in Caller
      /\ evictor \in EvictorType
  BY DEF TableInv, TypeOK, Caller
<1>2. /\ calls'[c] = IdleCall /\ \A d \in Caller : d # c => calls'[d] = calls[d]
      /\ silent' = silent \ {c}
  BY <1>1 DEF Return
<1>3. /\ IdleCall.node = Self /\ IdleCall.version = 0 /\ IdleCall.pc = "idle"
      /\ IdleCall.timedOut = FALSE
  BY DEF IdleCall
<1>4. CASE c = Evictor
  <2>1. /\ evictor'.pc = "finish" /\ evictor'.probe = evictor.probe
        /\ evictor'.timedOut = x
    BY <1>1, <1>4 DEF Return, PingReturns, EvictorType
  <2>2. evictor'.timedOut => ~ProbeCurrent(table', evictor'.probe)
    BY <2>1, <1>4 DEF VersionInv
  <2> QED
    BY <2>1, <2>2, <1>2, <1>3, <1>4 DEF VersionInv
<1>5. CASE c # Evictor
  <2>1. UNCHANGED evictor
    BY <1>5 DEF Return
  <2>2. calls'[Evictor] = calls[Evictor]
    BY <1>1, <1>2, <1>5
  <2> QED
    BY <2>1, <2>2, <1>2, <1>3 DEF VersionInv
<1> QED
  BY <1>4, <1>5

\* A call times out: afterwards its peer is not at the version it has read.
LEMMA ExpireVersionInv ==
  ASSUME IInv, TableInv', VersionStep(table, table'), NEW c \in Caller, Expire(c)
  PROVE  VersionInv'
<1> USE DEF IInv
<1> DEFINE n == calls[c].node
           v == calls[c].version
<1>1. /\ calls \in [Caller -> CallType] /\ Evictor \in Caller
      /\ n \in Node /\ v \in Nat
  BY DEF TableInv, TypeOK, CallType, Caller
<1>2. /\ calls[c].pc = "expired"
      /\ table' = RemoveUnresponsive(table, n, v)
      /\ calls' = [calls EXCEPT ![c].pc = "leaving", ![c].timedOut = TRUE]
      /\ UNCHANGED <<evictor, silent>>
  BY DEF Expire
<1>3. /\ calls'[c].node = n /\ calls'[c].version = v
      /\ calls'[c].pc = "leaving"
      /\ \A d \in Caller : d # c => calls'[d] = calls[d]
  BY <1>1, <1>2 DEF CallType
<1>4. n \in Peer => table'[BucketOf[n]].versions[n] # v \/ v = 0
  BY <1>1, <1>2, RemoveUnresponsiveFacts DEF TableInv
<1>5. \A m \in Peer : /\ table[BucketOf[m]].version \in Nat
                     /\ table'[BucketOf[m]].version \in Nat
                     /\ table'[BucketOf[m]].version >= table[BucketOf[m]].version
  BY GoodBucketType, BucketAssumption DEF TableInv, VersionStep
<1>6. \A d \in Caller : calls'[d].node = calls[d].node /\ calls'[d].version = calls[d].version
                       /\ calls[d].version \in Nat
  BY <1>1, <1>3 DEF CallType
<1>7. ASSUME NEW d \in Caller
      PROVE  \/ calls'[d].node = Self /\ calls'[d].version = 0
             \/ /\ calls'[d].node \in Peer
                /\ calls'[d].version =< table'[BucketOf[calls'[d].node]].version
  BY <1>5, <1>6 DEF VersionInv
<1>8. ASSUME NEW d \in Caller,
             calls'[d].pc # "idle", calls'[d].node \in Peer, calls'[d].version # 0,
             table'[BucketOf[calls'[d].node]].versions[calls'[d].node] = calls'[d].version
      PROVE  d \in silent'
  <2>1. calls[d].pc # "idle"
    BY <1>2, <1>3, <1>8
  <2>2. calls[d].version =< table[BucketOf[calls[d].node]].version
    BY <1>6, <1>8, SelfAssumption DEF VersionInv
  <2>3. table[BucketOf[calls[d].node]].versions[calls[d].node] = calls[d].version
    BY <1>6, <1>8, <2>2, CurrentBefore
  <2> QED
    BY <1>2, <1>6, <1>8, <2>1, <2>3 DEF VersionInv
<1>9. ASSUME evictor.probe # None, ProbeCurrent(table', evictor.probe)
      PROVE  ProbeCurrent(table, evictor.probe)
  BY <1>9, CurrentBefore
<1>10. calls[Evictor].pc # "idle" => evictor.probe # None
  BY DEF TableInv, PcInv
<1>11. calls'[Evictor].pc # "idle" =>
         /\ calls'[Evictor].node = evictor'.probe.old
         /\ ProbeCurrent(table', evictor'.probe) =>
              calls'[Evictor].version = evictor'.probe.version
  BY <1>1, <1>2, <1>3, <1>6, <1>9, <1>10 DEF VersionInv
<1>12. \A d \in Caller : calls'[d].timedOut => calls'[d].pc = "leaving"
  BY <1>3 DEF VersionInv
<1>13. calls'[Evictor].timedOut => ~ProbeCurrent(table', evictor'.probe)
  <2>1. CASE c = Evictor
    <3> DEFINE p == evictor.probe
    <3>1. p # None /\ n = p.old
      BY <2>1, <1>2, <1>10 DEF VersionInv
    <3>2. p.old \in Peer /\ BucketOf[p.old] = p.bucket /\ p.version # 0
      BY <3>1 DEF TableInv, ProbesKnown, KnownProbe, GoodProbe, ProbeType
    <3>3. ASSUME ProbeCurrent(table', p) PROVE FALSE
      <4>1. v = p.version
        BY <2>1, <3>1, <3>3, <1>2, <1>9 DEF VersionInv
      <4>2. table'[BucketOf[n]].versions[n] = v
        BY <3>1, <3>2, <3>3, <4>1 DEF ProbeCurrent
      <4> QED
        BY <3>1, <3>2, <4>1, <4>2, <1>4
    <3> QED
      BY <3>3, <1>2
  <2>2. CASE c # Evictor
    <3>1. calls'[Evictor] = calls[Evictor]
      BY <2>2, <1>1, <1>3
    <3>2. ASSUME calls[Evictor].timedOut PROVE ~ProbeCurrent(table, evictor.probe)
                                             /\ evictor.probe # None
      BY <3>2, <1>1, <1>10 DEF VersionInv
    <3> QED
      BY <3>1, <3>2, <1>2, <1>9
  <2> QED
    BY <2>1, <2>2
<1>14. evictor'.timedOut =>
         evictor'.pc = "finish" /\ ~ProbeCurrent(table', evictor'.probe)
  <2>1. evictor.pc = "finish" => evictor.probe # None
    BY DEF TableInv, PcInv
  <2> QED
    BY <2>1, <1>2, <1>9 DEF VersionInv
<1> QED
  BY <1>7, <1>8, <1>11, <1>12, <1>13, <1>14 DEF VersionInv

LEMMA IInvStep == IInv /\ [Next]_vars => IInv'
<1> SUFFICES ASSUME IInv, [Next]_vars PROVE VersionInv'
  BY TableInvStep DEF IInv
<1> USE DEF IInv
<1>1. TableInv' /\ VersionStep(table, table')
  BY TableInvStep, TableStep
<1>2. /\ calls \in [Caller -> CallType] /\ Evictor \in Caller
      /\ silent \subseteq Caller /\ evictor \in EvictorType
  BY DEF TableInv, TypeOK, Caller
<1> DEFINE Kept(c) ==
      /\ calls'[c].node = calls[c].node
      /\ calls'[c].version = calls[c].version
      /\ calls'[c].timedOut = calls[c].timedOut
      /\ calls'[c].pc # "idle" => calls[c].pc # "idle"
      /\ calls[c].pc = "leaving" => calls'[c].pc = "leaving"
\* Steps that observe nobody, and move the calls on without a result.
<1>3. CASE UNCHANGED <<evictor, silent>> /\ \A c \in Caller : Kept(c)
  BY <1>1, <1>3, VersionFrame
<1>4. CASE UNCHANGED <<calls, evictor, silent>>
  BY <1>3, <1>4
\* Observations.
<1>5. ASSUME NEW o \in Observer, NEW rec \in ObserverType, ObserveContact(o, rec),
             UNCHANGED <<calls, evictor>>
      PROVE  VersionInv'
  <2>1. /\ rec.node \in Node /\ table' = Observe(table, rec.node)
        /\ silent' = {c \in silent : calls[c].node # rec.node}
    BY <1>5 DEF ObserveContact, ObserverType
  <2>2. rec.node \in Peer =>
          \/ table'[BucketOf[rec.node]].versions[rec.node] = 0
          \/ table'[BucketOf[rec.node]].versions[rec.node] > table[BucketOf[rec.node]].version
    BY <2>1, ObserveFacts DEF TableInv
  <2>3. \A c \in silent \ silent' : calls[c].node = rec.node
    BY <2>1
  <2>4. \A c \in silent \ silent' : calls[c].node \in Peer =>
          LET b == BucketOf[calls[c].node]
          IN  \/ table'[b].versions[calls[c].node] = 0
              \/ table'[b].versions[calls[c].node] > table[b].version
    BY <2>2, <2>3
  <2> QED
    BY <1>1, <1>5, <2>4, VersionFrame
<1>6. CASE \E c \in Caller : CallStep(c)
  <2> SUFFICES ASSUME NEW c \in Caller, CallStep(c) PROVE VersionInv'
    BY <1>6
  <2>0. calls[c] \in CallType /\ calls[c].timedOut \in BOOLEAN
    BY <1>2 DEF CallType
  <2>1. CASE Register(c)
    <3>1. CASE done
      <4>1. PICK x \in BOOLEAN : x = FALSE
        OBVIOUS
      <4>2. Return(c, x) /\ calls[c].pc # "idle" /\ UNCHANGED table
        BY <2>1, <3>1, <4>1 DEF Register
      <4> QED
        BY <1>1, <4>1, <4>2, ReturnVersionInv
    <3>2. CASE ~done
      <4>1. /\ calls[c].pc = "begun" /\ calls' = [calls EXCEPT ![c].pc = "attempt"]
            /\ UNCHANGED <<evictor, silent>>
        BY <2>1, <3>2 DEF Register
      <4>2. \A d \in Caller : Kept(d)
        BY <1>2, <4>1 DEF CallType
      <4> QED
        BY <1>3, <4>1, <4>2
    <3> QED
      BY <3>1, <3>2
  <2>2. CASE Attempt(c)
    <3>1. /\ calls[c].pc = "attempt"
          /\ \/ calls' = [calls EXCEPT ![c].pc = "waiting", ![c].sent = TRUE]
             \/ calls' = [calls EXCEPT ![c].pc = "leaving"]
          /\ UNCHANGED <<evictor, silent>>
      BY <2>2 DEF Attempt
    <3>2. CASE calls' = [calls EXCEPT ![c].pc = "waiting", ![c].sent = TRUE]
      <4>1. \A d \in Caller : Kept(d)
        <5>1. calls'[c] = [calls[c] EXCEPT !.pc = "waiting", !.sent = TRUE]
          BY <1>2, <3>2 DEF CallType
        <5>2. \A d \in Caller : d # c => calls'[d] = calls[d]
          BY <1>2, <3>2 DEF CallType
        <5>3. Kept(c)
          BY <2>0, <3>1, <5>1 DEF CallType
        <5>4. ASSUME NEW d \in Caller, d # c
              PROVE  Kept(d)
          BY <5>2, <5>4
        <5> QED
          BY <5>3, <5>4
      <4> QED
        BY <1>3, <3>1, <4>1
    <3>3. CASE calls' = [calls EXCEPT ![c].pc = "leaving"]
      <4>1. \A d \in Caller : Kept(d)
        <5>1. calls'[c] = [calls[c] EXCEPT !.pc = "leaving"]
          BY <1>2, <3>3 DEF CallType
        <5>2. \A d \in Caller : d # c => calls'[d] = calls[d]
          BY <1>2, <3>3 DEF CallType
        <5>3. Kept(c)
          BY <2>0, <3>1, <5>1 DEF CallType
        <5>4. ASSUME NEW d \in Caller, d # c
              PROVE  Kept(d)
          BY <5>2, <5>4
        <5> QED
          BY <5>3, <5>4
      <4> QED
        BY <1>3, <3>1, <4>1
    <3> QED
      BY <3>1, <3>2, <3>3
  <2>3. CASE Receives(c)
    <3>1. /\ calls[c].pc = "waiting" /\ calls' = [calls EXCEPT ![c].pc = "leaving"]
          /\ UNCHANGED <<evictor, silent>>
      BY <2>3 DEF Receives
    <3>2. \A d \in Caller : Kept(d)
      BY <1>2, <3>1 DEF CallType
    <3> QED
      BY <1>3, <3>1, <3>2
  <2>4. CASE Timer(c)
    <3>1. /\ calls[c].pc = "waiting" /\ UNCHANGED <<evictor, silent>>
          /\ \/ calls' = [calls EXCEPT ![c] = [calls[c] EXCEPT !.pc = "expired"]]
             \/ calls' = [calls EXCEPT ![c] = [calls[c] EXCEPT !.pc = "attempt",
                                                 !.attempt = calls[c].attempt + 1]]
      BY <1>2, <2>4 DEF Timer
    <3>2. /\ calls'[c].node = calls[c].node
          /\ calls'[c].version = calls[c].version
          /\ calls'[c].timedOut = calls[c].timedOut
      <4>1. CASE calls' = [calls EXCEPT ![c] = [calls[c] EXCEPT !.pc = "expired"]]
        <5>1. calls'[c] = [calls[c] EXCEPT !.pc = "expired"]
          BY <1>2, <4>1
        <5> QED
          BY <2>0, <5>1 DEF CallType
      <4>2. CASE calls' = [calls EXCEPT ![c] = [calls[c] EXCEPT !.pc = "attempt",
                                                 !.attempt = calls[c].attempt + 1]]
        <5>1. calls'[c] = [calls[c] EXCEPT !.pc = "attempt",
                                           !.attempt = calls[c].attempt + 1]
          BY <1>2, <4>2
        <5> QED
          BY <2>0, <5>1 DEF CallType
      <4> QED
        BY <3>1, <4>1, <4>2
    <3>3. \A d \in Caller : d # c => calls'[d] = calls[d]
      BY <1>2, <3>1
    <3>4. \A d \in Caller : Kept(d)
      BY <3>1, <3>2, <3>3
    <3> QED
      BY <1>3, <3>1, <3>4
  <2>5. CASE Expire(c)
    BY <1>1, <2>5, ExpireVersionInv
  <2>6. CASE Leave(c)
    <3>1. Return(c, calls[c].timedOut) /\ calls[c].pc # "idle" /\ UNCHANGED table
      BY <2>6 DEF Leave
    <3> QED
      BY <1>1, <2>0, <3>1, ReturnVersionInv
  <2> QED
    BY <2>1, <2>2, <2>3, <2>4, <2>5, <2>6 DEF CallStep
<1>7. CASE ReceiverStep
  <2>1. CASE Deliver
    <3>1. /\ calls' = [calls EXCEPT ![observers[Receiver].call].response = TRUE]
          /\ UNCHANGED <<evictor, silent>>
      BY <2>1 DEF Deliver
    <3>2. \A d \in Caller : Kept(d)
      BY <1>2, <3>1 DEF CallType
    <3> QED
      BY <1>3, <3>1, <3>2
  <2> QED
    BY <1>4, <1>7, <2>1 DEF ReceiverStep, Enqueue, GiveUp, ReceiverStops
<1>8. CASE \E w \in Worker : WorkerStep(w)
  <2>1. ASSUME NEW w \in Worker, WorkerObserve(w) PROVE VersionInv'
    <3>1. w \in Observer /\ observers[w] \in ObserverType
      BY DEF TableInv, TypeOK, Observer
    <3> QED
      BY <1>5, <2>1, <3>1 DEF WorkerObserve
  <2> QED
    BY <1>4, <1>8, <2>1 DEF WorkerStep, WorkerRefuses, Enqueue, GiveUp
<1>9. CASE EvictorStep
  <2>1. calls[Evictor].pc # "idle" => evictor.pc = "ping"
    BY DEF TableInv, PcInv
  <2>2. CASE TakeProbe \/ EndProbe
    <3>1. /\ calls[Evictor].pc = "idle" /\ ~calls[Evictor].timedOut
          /\ UNCHANGED <<calls, silent>>
      BY <1>2, <2>1, <2>2 DEF TakeProbe, EndProbe, VersionInv
    <3>2. ~evictor'.timedOut
      <4>1. CASE TakeProbe
        <5>1. ~evictor.timedOut
          BY <4>1 DEF TakeProbe, VersionInv
        <5> QED
          BY <4>1, <5>1, <1>2 DEF TakeProbe, EvictorType
      <4>2. CASE EndProbe
        BY <4>2 DEF EndProbe, IdleEvictor
      <4> QED
        BY <2>2, <4>1, <4>2
    <3>3. \A m \in Peer : /\ table[BucketOf[m]].version \in Nat
                         /\ table'[BucketOf[m]].version \in Nat
                         /\ table'[BucketOf[m]].version >= table[BucketOf[m]].version
      BY <1>1, GoodBucketType, BucketAssumption DEF TableInv, VersionStep
    <3>4. \A c \in Caller : calls[c].version \in Nat
      BY <1>2 DEF CallType
    <3>5. \A c \in Caller :
            \/ calls[c].node = Self /\ calls[c].version = 0
            \/ /\ calls[c].node \in Peer
               /\ calls[c].version =< table'[BucketOf[calls[c].node]].version
      BY <3>3, <3>4 DEF VersionInv
    <3>6. ASSUME NEW c \in Caller,
                 calls[c].pc # "idle", calls[c].node \in Peer, calls[c].version # 0,
                 table'[BucketOf[calls[c].node]].versions[calls[c].node] = calls[c].version
          PROVE  c \in silent
      <4>1. calls[c].version =< table[BucketOf[calls[c].node]].version
        BY <3>6, SelfAssumption DEF VersionInv
      <4>2. table[BucketOf[calls[c].node]].versions[calls[c].node] = calls[c].version
        BY <1>1, <3>4, <3>6, <4>1, CurrentBefore
      <4> QED
        BY <3>6, <4>2 DEF VersionInv
    <3> QED
      BY <3>1, <3>2, <3>5, <3>6 DEF VersionInv
  <2>3. CASE CheckProbe \/ EvictorStops
    <3>1. /\ evictor.pc # "finish" /\ UNCHANGED <<table, calls, silent>>
          /\ evictor'.probe = evictor.probe /\ evictor'.timedOut = evictor.timedOut
      BY <1>2, <2>3 DEF CheckProbe, EvictorStops, EvictorType
    <3>2. \A d \in Caller : Kept(d)
      BY <3>1
    <3> QED
      BY <1>1, <3>1, <3>2, VersionFrame
  <2>4. CASE PingOld
    <3>1. /\ BeginCall(Evictor, evictor.probe.old) /\ calls[Evictor].pc = "idle"
          /\ silent' = silent \cup {Evictor} /\ UNCHANGED <<table, evictor>>
          /\ evictor.pc = "ping"
      BY <2>4 DEF PingOld
    <3>2. evictor.probe.old \in Peer
      BY <3>1 DEF TableInv, PcInv, ProbesKnown, KnownProbe, GoodProbe, ProbeType
    <3> QED
      BY <1>1, <1>2, <3>1, <3>2, BeginVersionInv
  <2> QED
    BY <1>9, <2>2, <2>3, <2>4 DEF EvictorStep
<1>10. CASE CloserStep
  BY <1>4, <1>10 DEF CloserStep, CloseTransport, CloseReturns
<1>11. CASE Environment
  <2>1. ASSUME NEW c \in Caller, ReceiveReply(c) PROVE VersionInv'
    <3>1. [IdleObserver EXCEPT !.node = calls[c].node, !.call = c] \in ObserverType
      BY <1>2 DEF CallType, IdleObserver, ObserverType, ObserverPc
    <3>2. Receiver \in Observer
      BY DEF Observer
    <3> QED
      BY <1>5, <2>1, <3>1, <3>2 DEF ReceiveReply
  <2>2. ASSUME NEW n \in Node, ReceiveRequest(n) PROVE VersionInv'
    <3>1. [IdleObserver EXCEPT !.node = n] \in ObserverType
      BY DEF IdleObserver, ObserverType, ObserverPc
    <3>2. Receiver \in Observer
      BY DEF Observer
    <3> QED
      BY <1>5, <2>2, <3>1, <3>2 DEF ReceiveRequest
  <2>3. ASSUME NEW c \in Caller, Cancel(c) PROVE VersionInv'
    <3>1. /\ calls[c].pc \in {"attempt", "waiting"}
          /\ calls' = [calls EXCEPT ![c].pc = "leaving"]
          /\ UNCHANGED <<evictor, silent>>
      BY <2>3 DEF Cancel
    <3>2. \A d \in Caller : Kept(d)
      BY <1>2, <3>1 DEF CallType
    <3> QED
      BY <1>3, <3>1, <3>2
  <2>4. ASSUME NEW c \in App, NEW n \in Peer, Call(c, n) PROVE VersionInv'
    <3>1. /\ c \in Caller /\ c # Evictor /\ BeginCall(c, n) /\ calls[c].pc = "idle"
          /\ silent' = silent \cup {c} /\ UNCHANGED <<table, evictor>>
      BY <2>4, CallerAssumption DEF Call, Caller
    <3> QED
      BY <1>1, <3>1, BeginVersionInv
  <2> QED
    BY <1>4, <1>11, <2>1, <2>2, <2>3, <2>4
    DEF Environment, Dispatch, Seed, TransportFails, CloseStarts
<1>12. CASE UNCHANGED vars
  BY <1>4, <1>12 DEF vars
<1> QED
  BY <1>6, <1>7, <1>8, <1>9, <1>10, <1>11, <1>12 DEF Next

-----------------------------------------------------------------------------
\* A timed-out ping of evictionLoop has left the version of its probe behind.
THEOREM StaleProbes == Spec => []TimedOutProbeIsStale
<1>1. Init => IInv
  BY InitTableInv, InitVersionInv DEF IInv
<1>2. IInv => TimedOutProbeIsStale
  BY DEF IInv, VersionInv, TimedOutProbeIsStale
<1> QED
  BY <1>1, <1>2, IInvStep, PTL DEF Spec
\* A table that a step of call, observation or probe has changed has lost no
\* peer, unless the step is the timeout of a call to it.
LEMMA DropStep ==
  ASSUME IInv, [Next]_vars, NEW n \in Peer, InTable(table, n), ~InTable(table', n)
  PROVE  \E c \in Caller :
           /\ Expire(c)
           /\ calls[c].node = n
           /\ calls[c].version # 0
           /\ ContactVersion(table, n) = calls[c].version
<1> USE DEF IInv, TableInv
<1> DEFINE Goal == \E c \in Caller :
             /\ Expire(c)
             /\ calls[c].node = n
             /\ calls[c].version # 0
             /\ ContactVersion(table, n) = calls[c].version
<1>1. CASE UNCHANGED table
  BY <1>1
<1>2. ASSUME NEW o \in Observer, NEW rec \in ObserverType, ObserveContact(o, rec)
      PROVE  FALSE
  BY <1>2, ObserveFacts DEF ObserveContact, ObserverType
<1>3. ASSUME NEW c \in Caller, Expire(c)
      PROVE  Goal
  <2>1. calls[c].node \in Node /\ calls[c].version \in Nat
    BY DEF TypeOK, CallType
  <2>2. table' = RemoveUnresponsive(table, calls[c].node, calls[c].version)
    BY <1>3 DEF Expire
  <2>3. /\ n = calls[c].node /\ calls[c].version # 0
        /\ ContactVersion(table, calls[c].node) = calls[c].version
    BY <2>1, <2>2, RemoveUnresponsiveFacts
  <2> QED
    BY <1>3, <2>3
<1>4. ASSUME NEW c \in Caller, ReceiveReply(c)
      PROVE  FALSE
  <2>1. [IdleObserver EXCEPT !.node = calls[c].node, !.call = c] \in ObserverType
    BY DEF TypeOK, CallType, IdleObserver, ObserverType, ObserverPc
  <2>2. Receiver \in Observer
    BY DEF Observer
  <2> QED
    BY <1>2, <1>4, <2>1, <2>2 DEF ReceiveReply
<1>5. ASSUME NEW m \in Node, ReceiveRequest(m)
      PROVE  FALSE
  <2>1. [IdleObserver EXCEPT !.node = m] \in ObserverType
    BY DEF IdleObserver, ObserverType, ObserverPc
  <2>2. Receiver \in Observer
    BY DEF Observer
  <2> QED
    BY <1>2, <1>5, <2>1, <2>2 DEF ReceiveRequest
<1>6. ASSUME NEW w \in Worker, WorkerObserve(w)
      PROVE  FALSE
  <2>1. w \in Observer /\ observers[w] \in ObserverType
    BY DEF TypeOK, Observer
  <2> QED
    BY <1>2, <1>6, <2>1 DEF WorkerObserve
<1>7. ASSUME NEW o \in Observer, GiveUp(o)
      PROVE  FALSE
  <2>1. GoodProbe(observers[o].probe)
    BY <1>7 DEF GiveUp, PcInv, ProbesKnown, KnownProbe
  <2>2. PICK x \in BOOLEAN : x = FALSE
    OBVIOUS
  <2>3. table' = FinishProbe(table, observers[o].probe, x)
    BY <1>7, <2>2 DEF GiveUp
  <2>4. ~(x /\ ProbeCurrent(table, observers[o].probe))
    BY <2>2
  <2> QED
    BY <2>1, <2>3, <2>4, FinishProbeFacts
<1>8. ASSUME EndProbe
      PROVE  FALSE
  <2>1. GoodProbe(evictor.probe)
    BY <1>8 DEF EndProbe, PcInv, ProbesKnown, KnownProbe
  <2>2. evictor.timedOut \in BOOLEAN
    BY DEF TypeOK, EvictorType
  <2>3. ~(evictor.timedOut /\ ProbeCurrent(table, evictor.probe))
    BY DEF VersionInv
  <2>4. table' = FinishProbe(table, evictor.probe, evictor.timedOut)
    BY <1>8 DEF EndProbe
  <2> QED
    BY <2>1, <2>2, <2>3, <2>4, FinishProbeFacts
<1>9. ASSUME NEW m \in Node, Seed(m)
      PROVE  FALSE
  BY <1>9, AddContactFacts DEF Seed
<1>10. CASE \E c \in Caller : CallStep(c)
  BY <1>1, <1>3, <1>10
  DEF CallStep, Register, Attempt, Receives, Timer, Leave
<1>11. CASE ReceiverStep
  <2>1. Receiver \in Observer
    BY DEF Observer
  <2> QED
    BY <1>1, <1>7, <1>11, <2>1 DEF ReceiverStep, Deliver, Enqueue, ReceiverStops
<1>12. CASE \E w \in Worker : WorkerStep(w)
  <2>1. Worker \subseteq Observer
    BY DEF Observer
  <2> QED
    BY <1>1, <1>6, <1>7, <1>12, <2>1 DEF WorkerStep, WorkerRefuses, Enqueue
<1>13. CASE EvictorStep
  BY <1>1, <1>8, <1>13
  DEF EvictorStep, TakeProbe, CheckProbe, PingOld, EvictorStops
<1>14. CASE CloserStep
  BY <1>1, <1>14 DEF CloserStep, CloseTransport, CloseReturns
<1>15. CASE Environment
  BY <1>1, <1>4, <1>5, <1>9, <1>15
  DEF Environment, Cancel, Call, Dispatch, TransportFails, CloseStarts
<1>16. CASE UNCHANGED vars
  BY <1>1, <1>16 DEF vars
<1> QED
  BY <1>10, <1>11, <1>12, <1>13, <1>14, <1>15, <1>16 DEF Next

\* The peer of a call that drops it from the table has been silent for the
\* whole call, all of whose attempts are spent.
LEMMA SilentStep ==
  ASSUME IInv, [Next]_vars
  PROVE  \A n \in Peer : InTable(table, n) /\ ~InTable(table', n) =>
           \E c \in Caller :
             /\ calls[c].pc = "expired" /\ calls'[c].pc = "leaving"
             /\ calls[c].node = n
             /\ calls[c].attempt = Retries
             /\ c \in silent
<1> TAKE n \in Peer
<1> HAVE InTable(table, n) /\ ~InTable(table', n)
<1>1. PICK c \in Caller : /\ Expire(c)
                          /\ calls[c].node = n
                          /\ calls[c].version # 0
                          /\ ContactVersion(table, n) = calls[c].version
  BY DropStep
<1>2. calls[c].pc = "expired" /\ calls'[c].pc = "leaving"
  BY <1>1 DEF Expire, IInv, TableInv, TypeOK, CallType
<1>3. calls[c].attempt = Retries
  BY <1>2 DEF IInv, TableInv, PcInv
<1>4. table[BucketOf[n]].versions[n] = calls[c].version
  BY <1>1, SelfAssumption DEF ContactVersion
<1>5. c \in silent
  BY <1>1, <1>2, <1>4 DEF IInv, VersionInv
<1> QED
  BY <1>1, <1>2, <1>3, <1>5

\* A peer leaves the table only by the timeout of a call during which nobody
\* has heard of it.
THEOREM SilentDrops == Spec => OnlySilentPeersDropped
<1>1. Init => IInv
  BY InitTableInv, InitVersionInv DEF IInv
<1>2. IInv /\ [Next]_vars =>
        [\A n \in Peer : InTable(table, n) /\ ~InTable(table', n) =>
           \E c \in Caller :
             /\ calls[c].pc = "expired" /\ calls'[c].pc = "leaving"
             /\ calls[c].node = n
             /\ calls[c].attempt = Retries
             /\ c \in silent]_vars
  BY SilentStep
<1> QED
  BY <1>1, <1>2, IInvStep, PTL DEF Spec, OnlySilentPeersDropped

-----------------------------------------------------------------------------
(* Each bucket that is reserved has one probe.                             *)

Held == [o \in Observer |-> observers[o].probe]

Reserved == {b \in Bucket : table[b].probing}

\* When the observers hold the probes H, q is the queue and e is the probe of
\* evictionLoop: these are probes of different buckets, and those are R.
Reservation(H, q, e, R) ==
  /\ \A o \in Observer : H[o] # None => H[o].bucket \in R
  /\ \A i \in DOMAIN q : q[i].bucket \in R
  /\ e # None => e.bucket \in R
  /\ \A o, p \in Observer :
       H[o] # None /\ H[p] # None /\ H[o].bucket = H[p].bucket => o = p
  /\ \A i, j \in DOMAIN q : q[i].bucket = q[j].bucket => i = j
  /\ \A o \in Observer, i \in DOMAIN q : H[o] # None => H[o].bucket # q[i].bucket
  /\ \A o \in Observer : H[o] # None /\ e # None => H[o].bucket # e.bucket
  /\ \A i \in DOMAIN q : e # None => q[i].bucket # e.bucket
  /\ \A b \in R :
       \/ \E o \in Observer : H[o] # None /\ H[o].bucket = b
       \/ \E i \in DOMAIN q : q[i].bucket = b
       \/ e # None /\ e.bucket = b

Holding == [Observer -> ProbeType \cup {None}]

\* observe hands out a probe of a bucket that is not reserved.
LEMMA ReserveOne ==
  ASSUME NEW H \in Holding, NEW q, NEW e, NEW R, Reservation(H, q, e, R),
         NEW o \in Observer, H[o] = None, NEW p \in ProbeType, p.bucket \notin R
  PROVE  Reservation([H EXCEPT ![o] = p], q, e, R \cup {p.bucket})
<1> DEFINE G == [H EXCEPT ![o] = p]
<1>1. /\ G[o] = p /\ p # None /\ \A x \in Observer : x # o => G[x] = H[x]
  BY ProbeAssumption DEF Holding
<1> HIDE DEF G
<1>2. \A b \in R \cup {p.bucket} :
         \/ \E x \in Observer : G[x] # None /\ G[x].bucket = b
         \/ \E i \in DOMAIN q : q[i].bucket = b
         \/ e # None /\ e.bucket = b
  BY <1>1 DEF Reservation
<1>3. /\ \A x \in Observer : G[x] # None => G[x].bucket \in R \cup {p.bucket}
      /\ \A x \in Observer : x # o /\ G[x] # None => G[x].bucket \in R
      /\ \A i \in DOMAIN q : q[i].bucket \in R
      /\ e # None => e.bucket \in R
  BY <1>1 DEF Reservation
<1>4. \A x, y \in Observer :
         G[x] # None /\ G[y] # None /\ G[x].bucket = G[y].bucket => x = y
  BY <1>1, <1>3 DEF Reservation
<1>5. \A x \in Observer :
        G[x] # None => /\ \A i \in DOMAIN q : G[x].bucket # q[i].bucket
                       /\ e # None => G[x].bucket # e.bucket
  BY <1>1, <1>3 DEF Reservation
<1> QED
  BY <1>2, <1>3, <1>4, <1>5 DEF Reservation, G

\* An observer drops its probe and the reservation with it.
LEMMA ReleaseHeld ==
  ASSUME NEW H \in Holding, NEW q, NEW e, NEW R, Reservation(H, q, e, R),
         NEW o \in Observer, H[o] # None
  PROVE  Reservation([H EXCEPT ![o] = None], q, e, R \ {H[o].bucket})
<1> DEFINE G == [H EXCEPT ![o] = None]
<1>1. G[o] = None /\ \A x \in Observer : x # o => G[x] = H[x]
  BY DEF Holding
<1> HIDE DEF G
<1>2. /\ \A x \in Observer : G[x] # None => x # o /\ G[x].bucket # H[o].bucket
      /\ \A i \in DOMAIN q : q[i].bucket # H[o].bucket
      /\ e # None => e.bucket # H[o].bucket
  BY <1>1 DEF Reservation
<1>3. \A b \in R \ {H[o].bucket} :
         \/ \E x \in Observer : G[x] # None /\ G[x].bucket = b
         \/ \E i \in DOMAIN q : q[i].bucket = b
         \/ e # None /\ e.bucket = b
  BY <1>1 DEF Reservation
<1>4. /\ \A x \in Observer : G[x] # None => G[x].bucket \in R \ {H[o].bucket}
      /\ \A i \in DOMAIN q : q[i].bucket \in R \ {H[o].bucket}
      /\ e # None => e.bucket \in R \ {H[o].bucket}
  BY <1>1, <1>2 DEF Reservation
<1>5. \A x, y \in Observer :
         G[x] # None /\ G[y] # None /\ G[x].bucket = G[y].bucket => x = y
  BY <1>1, <1>2 DEF Reservation
<1>6. \A x \in Observer :
        G[x] # None => /\ \A i \in DOMAIN q : G[x].bucket # q[i].bucket
                       /\ e # None => G[x].bucket # e.bucket
  BY <1>1, <1>2 DEF Reservation
<1> QED
  BY <1>3, <1>4, <1>5, <1>6 DEF Reservation, G

\* It queues its probe.
LEMMA QueueHeld ==
  ASSUME NEW H \in Holding, NEW q \in Seq(ProbeType), NEW e, NEW R,
         Reservation(H, q, e, R), NEW o \in Observer, H[o] # None
  PROVE  Reservation([H EXCEPT ![o] = None], Append(q, H[o]), e, R)
<1> DEFINE G == [H EXCEPT ![o] = None]
           r == Append(q, H[o])
<1>1. G[o] = None /\ \A x \in Observer : x # o => G[x] = H[x]
  BY DEF Holding
<1>2. /\ DOMAIN q \subseteq DOMAIN r /\ Len(q) + 1 \in DOMAIN r
      /\ Len(q) + 1 \notin DOMAIN q
      /\ \A i \in DOMAIN r : i \in DOMAIN q \/ i = Len(q) + 1
      /\ \A i \in DOMAIN q : r[i] = q[i]
      /\ r[Len(q) + 1] = H[o]
  <2>1. H[o] \in ProbeType
    BY DEF Holding
  <2>2. /\ r \in Seq(ProbeType) /\ Len(r) = Len(q) + 1 /\ Len(q) \in Nat
        /\ \A i \in 1 .. Len(q) : r[i] = q[i]
        /\ r[Len(q) + 1] = H[o]
    BY <2>1
  <2>3. DOMAIN q = 1 .. Len(q) /\ DOMAIN r = 1 .. Len(q) + 1
    BY <2>2
  <2> QED
    BY <2>2, <2>3
<1> DEFINE last == Len(q) + 1
<1> HIDE DEF G, r, last
<1>3. /\ DOMAIN q \subseteq DOMAIN r /\ last \in DOMAIN r /\ last \notin DOMAIN q
      /\ \A i \in DOMAIN r : i \in DOMAIN q \/ i = last
      /\ \A i \in DOMAIN q : r[i] = q[i]
      /\ r[last] = H[o]
  BY <1>2 DEF last
<1>4. /\ \A x \in Observer : G[x] # None => x # o /\ G[x].bucket # H[o].bucket
      /\ \A i \in DOMAIN q : q[i].bucket # H[o].bucket
      /\ e # None => e.bucket # H[o].bucket
  BY <1>1 DEF Reservation
<1>5. \A b \in R :
         \/ \E x \in Observer : G[x] # None /\ G[x].bucket = b
         \/ \E i \in DOMAIN r : r[i].bucket = b
         \/ e # None /\ e.bucket = b
  <2> TAKE b \in R
  <2>1. CASE \E x \in Observer : H[x] # None /\ H[x].bucket = b
    BY <1>1, <1>3, <2>1
  <2>2. CASE \E i \in DOMAIN q : q[i].bucket = b
    BY <1>3, <2>2
  <2> QED
    BY <2>1, <2>2 DEF Reservation
<1>6. /\ \A x \in Observer : G[x] # None => G[x].bucket \in R
      /\ \A i \in DOMAIN r : r[i].bucket \in R
      /\ e # None => e.bucket \in R
  BY <1>1, <1>3 DEF Reservation
<1>7. \A x, y \in Observer :
         G[x] # None /\ G[y] # None /\ G[x].bucket = G[y].bucket => x = y
  BY <1>1, <1>4 DEF Reservation
<1>8. \A i, j \in DOMAIN r : r[i].bucket = r[j].bucket => i = j
  BY <1>3, <1>4 DEF Reservation
<1>9. \A x \in Observer :
        G[x] # None => /\ \A i \in DOMAIN r : G[x].bucket # r[i].bucket
                       /\ e # None => G[x].bucket # e.bucket
  BY <1>1, <1>3, <1>4 DEF Reservation
<1>10. \A i \in DOMAIN r : e # None => r[i].bucket # e.bucket
  BY <1>3, <1>4 DEF Reservation
<1>11. Reservation(G, r, e, R)
  BY <1>5, <1>6, <1>7, <1>8, <1>9, <1>10 DEF Reservation
<1> QED
  BY <1>11 DEF G, r

\* evictionLoop takes the oldest probe of the queue.
LEMMA TakeQueued ==
  ASSUME NEW H, NEW q \in Seq(ProbeType), q # << >>, NEW R,
         Reservation(H, q, None, R)
  PROVE  Reservation(H, Tail(q), Head(q), R)
<1> DEFINE r == Tail(q)
           e == Head(q)
<1>1. /\ 1 \in DOMAIN q /\ e = q[1] /\ e # None
      /\ \A i \in DOMAIN r : i + 1 \in DOMAIN q /\ i + 1 # 1 /\ r[i] = q[i + 1]
      /\ \A i \in DOMAIN q : i # 1 => i - 1 \in DOMAIN r /\ r[i - 1] = q[i]
      /\ \A i, j \in DOMAIN r : i + 1 = j + 1 => i = j
  <2>1. Len(q) \in Nat \ {0} /\ DOMAIN q = 1 .. Len(q)
    BY EmptySeq
  <2>2. e = q[1] /\ e \in ProbeType
    BY <2>1
  <2>3. Len(r) = Len(q) - 1 /\ DOMAIN r = 1 .. Len(q) - 1
        /\ \A i \in 1 .. Len(q) - 1 : r[i] = q[i + 1]
    BY <2>1, HeadTailProperties
  <2> HIDE DEF r, e
  <2>4. e # None
    BY <2>2, ProbeAssumption
  <2>5. \A i \in DOMAIN q : i # 1 => i - 1 \in DOMAIN r /\ r[i - 1] = q[i]
    <3> SUFFICES ASSUME NEW i \in 1 .. Len(q), i # 1
                 PROVE  i - 1 \in DOMAIN r /\ r[i - 1] = q[i]
      BY <2>1
    <3>1. i - 1 \in 1 .. Len(q) - 1 /\ (i - 1) + 1 = i
      BY <2>1
    <3> QED
      BY <2>3, <3>1
  <2> QED
    BY <2>1, <2>2, <2>3, <2>4, <2>5
<1> HIDE DEF r, e
<1>2. /\ \A o \in Observer : H[o] # None => H[o].bucket \in R
      /\ \A i \in DOMAIN r : r[i].bucket \in R
      /\ e # None => e.bucket \in R
  BY <1>1 DEF Reservation
<1>3. \A o, p \in Observer :
         H[o] # None /\ H[p] # None /\ H[o].bucket = H[p].bucket => o = p
  BY DEF Reservation
<1>4. \A i, j \in DOMAIN r : r[i].bucket = r[j].bucket => i = j
  BY <1>1 DEF Reservation
<1>5. \A o \in Observer :
        H[o] # None => /\ \A i \in DOMAIN r : H[o].bucket # r[i].bucket
                       /\ e # None => H[o].bucket # e.bucket
  BY <1>1 DEF Reservation
<1>6. \A i \in DOMAIN r : e # None => r[i].bucket # e.bucket
  BY <1>1 DEF Reservation
<1>7. \A b \in R :
         \/ \E o \in Observer : H[o] # None /\ H[o].bucket = b
         \/ \E i \in DOMAIN r : r[i].bucket = b
         \/ e # None /\ e.bucket = b
  <2> TAKE b \in R
  <2>1. CASE \E o \in Observer : H[o] # None /\ H[o].bucket = b
    BY <2>1
  <2>2. ASSUME NEW i \in DOMAIN q, q[i].bucket = b
        PROVE  (\E j \in DOMAIN r : r[j].bucket = b) \/ (e # None /\ e.bucket = b)
    <3>1. CASE i = 1
      BY <1>1, <2>2, <3>1
    <3>2. CASE i # 1
      <4>1. i - 1 \in DOMAIN r /\ r[i - 1].bucket = b
        BY <1>1, <2>2, <3>2
      <4> QED
        BY <4>1
    <3> QED
      BY <3>1, <3>2
  <2> QED
    BY <2>1, <2>2 DEF Reservation
<1> QED
  BY <1>2, <1>3, <1>4, <1>5, <1>6, <1>7 DEF Reservation, r, e

\* The probe is decided.
LEMMA ReleaseTaken ==
  ASSUME NEW H, NEW q, NEW e, NEW R, Reservation(H, q, e, R), e # None
  PROVE  Reservation(H, q, None, R \ {e.bucket})
<1>1. /\ \A o \in Observer : H[o] # None => H[o].bucket \in R \ {e.bucket}
      /\ \A i \in DOMAIN q : q[i].bucket \in R \ {e.bucket}
  BY DEF Reservation
<1>2. \A b \in R \ {e.bucket} :
         \/ \E o \in Observer : H[o] # None /\ H[o].bucket = b
         \/ \E i \in DOMAIN q : q[i].bucket = b
  BY DEF Reservation
<1> QED
  BY <1>1, <1>2 DEF Reservation

\* The probes and the reserved buckets of a state.
ResInv == Reservation(Held, evictions, evictor.probe, Reserved)

LEMMA HeldFacts ==
  ASSUME TableInv
  PROVE  Held \in Holding /\ \A o \in Observer : Held[o] = observers[o].probe
BY DEF TableInv, TypeOK, Held, Holding, ObserverType

LEMMA HeldMoves ==
  ASSUME TableInv, NEW o \in Observer, NEW rec, observers' = [observers EXCEPT ![o] = rec]
  PROVE  Held' = [Held EXCEPT ![o] = rec.probe]
<1>1. observers \in [Observer -> ObserverType]
  BY DEF TableInv, TypeOK
<1> QED
  BY <1>1 DEF Held

\* Nothing happens to the probes.
LEMMA ReservationRests ==
  ASSUME ResInv, Held' = Held, UNCHANGED evictions, evictor'.probe = evictor.probe,
         \A b \in Bucket : table'[b].probing = table[b].probing
  PROVE  ResInv'
<1>1. Reserved' = Reserved
  BY DEF Reserved
<1> QED
  BY <1>1 DEF ResInv

\* observeContact reserves the bucket of the probe that it takes.
LEMMA ObserveReserves ==
  ASSUME TableInv, ResInv, NEW o \in Observer, observers[o].probe = None,
         NEW rec \in ObserverType, ObserveContact(o, rec),
         UNCHANGED <<evictions, evictor>>
  PROVE  ResInv'
<1> DEFINE n == rec.node
           taken == [rec EXCEPT !.pc = "enqueue", !.probe = ProbeFor(table, n)]
<1>1. n \in Node /\ GoodTable(table) /\ table' = Observe(table, n)
  BY DEF TableInv, ObserverType, ObserveContact
<1>2. \A b \in Bucket :
        table'[b].probing = (table[b].probing \/ (n # Self /\ b = BucketOf[n]
                                                  /\ NeedsProbe(table, n)))
  BY <1>1, ObserveFacts
<1>3. Held \in Holding /\ Held[o] = None
  BY HeldFacts
<1>4. CASE NeedsProbe(table, n)
  <2> DEFINE p == ProbeFor(table, n)
  <2>1. /\ p \in ProbeType /\ p.bucket = BucketOf[n] /\ p.bucket \in Bucket
        /\ ~table[BucketOf[n]].probing /\ n # Self
    BY <1>1, <1>4, ProbeForFacts DEF GoodProbe, ProbeType, NeedsProbe
  <2> HIDE DEF p
  <2>2. Reserved' = Reserved \cup {p.bucket} /\ p.bucket \notin Reserved
    BY <1>2, <1>4, <2>1 DEF Reserved
  <2>3. observers' = [observers EXCEPT ![o] = taken] /\ taken.probe = p
    BY <1>4 DEF ObserveContact, ObserverType, p
  <2>4. Held' = [Held EXCEPT ![o] = p]
    BY <2>3, HeldMoves
  <2> QED
    BY <1>3, <2>1, <2>2, <2>4, ReserveOne DEF ResInv
<1>5. CASE ~NeedsProbe(table, n)
  <2>1. observers' = [observers EXCEPT ![o] = Continue(rec)] /\ Continue(rec).probe = None
    BY <1>5, ContinueType DEF ObserveContact
  <2>2. Held' = [Held EXCEPT ![o] = None]
    BY <2>1, HeldMoves
  <2>3. Held' = Held
    BY <1>3, <2>2 DEF Holding
  <2>4. \A b \in Bucket : table[b].probing \in BOOLEAN
    BY <1>1 DEF GoodTable, TableType, BucketType
  <2>5. \A b \in Bucket : table'[b].probing = table[b].probing
    BY <1>2, <1>5, <2>4
  <2> QED
    BY <2>3, <2>5, ReservationRests
<1> QED
  BY <1>4, <1>5

\* An observer moves on without a probe.
LEMMA ObserverRests ==
  ASSUME TableInv, ResInv, NEW o \in Observer, NEW rec, observers[o].probe = None,
         observers' = [observers EXCEPT ![o] = rec], rec.probe = None,
         UNCHANGED <<table, evictions, evictor>>
  PROVE  ResInv'
<1>1. Held' = [Held EXCEPT ![o] = None] /\ Held \in Holding /\ Held[o] = None
  BY HeldFacts, HeldMoves
<1>2. Held' = Held
  BY <1>1 DEF Holding
<1> QED
  BY <1>2, ReservationRests

\* finishProbe gives up the reservation of its probe's bucket.
LEMMA FinishReleases ==
  ASSUME TableInv, NEW p, GoodProbe(p), NEW timedOut \in BOOLEAN,
         table' = FinishProbe(table, p, timedOut)
  PROVE  Reserved' = Reserved \ {p.bucket}
<1>1. /\ ~table'[p.bucket].probing
      /\ \A b \in Bucket : b # p.bucket => table'[b].probing = table[b].probing
  BY FinishProbeFacts DEF TableInv
<1> QED
  BY <1>1 DEF Reserved

LEMMA ObserversReserve ==
  ASSUME TableInv, ResInv, ReceiverStep \/ \E w \in Worker : WorkerStep(w)
  PROVE  ResInv'
<1>1. Receiver \in Observer /\ Worker \subseteq Observer
  BY DEF Observer
<1>2. ASSUME NEW o \in Observer, observers[o].pc # "enqueue"
      PROVE  observers[o].probe = None
  BY <1>2 DEF TableInv, PcInv
<1>3. ASSUME NEW o \in Observer, observers[o].pc = "enqueue"
      PROVE  /\ Held[o] = observers[o].probe /\ Held[o] # None /\ Held \in Holding
             /\ GoodProbe(Held[o]) /\ Continue(observers[o]).probe = None
  <2>1. Held[o] = observers[o].probe /\ Held \in Holding
        /\ observers[o] \in ObserverType
    BY HeldFacts DEF TableInv, TypeOK
  <2>2. observers[o].probe # None
    BY <1>3 DEF TableInv, PcInv
  <2> QED
    BY <2>1, <2>2, ContinueType DEF TableInv, ProbesKnown, KnownProbe
<1>4. CASE Deliver
  <2>1. observers[Receiver].probe = None
    BY <1>1, <1>2, <1>4 DEF Deliver
  <2> QED
    BY <1>1, <1>4, <2>1, IdleTypes, ObserverRests DEF Deliver
<1>5. ASSUME NEW o \in Observer, Enqueue(o)
      PROVE  ResInv'
  <2>1. /\ evictions' = Append(evictions, Held[o])
        /\ UNCHANGED <<table, evictor>> /\ Held[o] # None /\ Held \in Holding
    BY <1>3, <1>5 DEF Enqueue
  <2>2. PICK rec : rec = Continue(observers[o])
    OBVIOUS
  <2>3. Held' = [Held EXCEPT ![o] = None]
    <3>1. observers' = [observers EXCEPT ![o] = rec] /\ rec.probe = None
      BY <1>3, <1>5, <2>2 DEF Enqueue
    <3> QED
      BY <3>1, HeldMoves
  <2>4. Reserved' = Reserved /\ evictions \in Seq(ProbeType)
    BY <2>1 DEF Reserved, TableInv, TypeOK
  <2> QED
    BY <2>1, <2>3, <2>4, QueueHeld DEF ResInv
<1>6. ASSUME NEW o \in Observer, GiveUp(o)
      PROVE  ResInv'
  <2>1. PICK no \in BOOLEAN : no = FALSE
    OBVIOUS
  <2>2. /\ table' = FinishProbe(table, Held[o], no) /\ GoodProbe(Held[o])
        /\ UNCHANGED <<evictions, evictor>> /\ Held[o] # None /\ Held \in Holding
    BY <1>3, <1>6, <2>1 DEF GiveUp
  <2>3. PICK rec : rec = Continue(observers[o])
    OBVIOUS
  <2>4. Held' = [Held EXCEPT ![o] = None]
    <3>1. observers' = [observers EXCEPT ![o] = rec] /\ rec.probe = None
      BY <1>3, <1>6, <2>3 DEF GiveUp
    <3> QED
      BY <3>1, HeldMoves
  <2>5. PICK p : p = Held[o]
    OBVIOUS
  <2>6. Reserved' = Reserved \ {p.bucket}
    BY <2>2, <2>5, FinishReleases
  <2> QED
    BY <2>2, <2>4, <2>5, <2>6, ReleaseHeld DEF ResInv
<1>7. CASE ReceiverStops
  <2>1. /\ observers[Receiver].probe = None
        /\ observers' = [observers EXCEPT ![Receiver] = [observers[Receiver] EXCEPT !.pc = "stopped"]]
        /\ UNCHANGED <<table, evictions, evictor>>
    BY <1>1, <1>2, <1>7 DEF ReceiverStops
  <2>2. [observers[Receiver] EXCEPT !.pc = "stopped"].probe = observers[Receiver].probe
    BY <1>1 DEF TableInv, TypeOK, ObserverType
  <2> QED
    BY <1>1, <2>1, <2>2, ObserverRests
<1>8. ASSUME NEW w \in Worker, WorkerObserve(w)
      PROVE  ResInv'
  <2>1. w \in Observer /\ observers[w] \in ObserverType /\ observers[w].probe = None
    BY <1>1, <1>2, <1>8 DEF TableInv, TypeOK, WorkerObserve
  <2> QED
    BY <1>8, <2>1, ObserveReserves DEF WorkerObserve
<1>9. ASSUME NEW w \in Worker, WorkerRefuses(w)
      PROVE  ResInv'
  <2>1. w \in Observer /\ observers[w].probe = None
    BY <1>1, <1>2, <1>9 DEF WorkerRefuses
  <2> QED
    BY <1>9, <2>1, IdleTypes, ObserverRests DEF WorkerRefuses
<1> QED
  BY <1>1, <1>4, <1>5, <1>6, <1>7, <1>8, <1>9 DEF ReceiverStep, WorkerStep

LEMMA EvictorReserves ==
  ASSUME TableInv, ResInv, EvictorStep
  PROVE  ResInv'
<1>1. evictor \in EvictorType /\ evictions \in Seq(ProbeType)
  BY DEF TableInv, TypeOK
<1>2. CASE TakeProbe
  <2>1. /\ evictor.probe = None /\ evictions # << >>
        /\ evictor'.probe = Head(evictions) /\ evictions' = Tail(evictions)
        /\ UNCHANGED <<table, observers>>
    BY <1>1, <1>2 DEF TakeProbe, TableInv, PcInv, EvictorType
  <2>2. Held' = Held /\ Reserved' = Reserved
    BY <2>1 DEF Held, Reserved
  <2> QED
    BY <1>1, <2>1, <2>2, TakeQueued DEF ResInv
<1>3. CASE CheckProbe \/ PingOld \/ EvictorStops
  <2>1. evictor'.probe = evictor.probe /\ UNCHANGED <<table, observers, evictions>>
    BY <1>1, <1>3 DEF CheckProbe, PingOld, EvictorStops, EvictorType
  <2>2. Held' = Held
    BY <2>1 DEF Held
  <2> QED
    BY <2>1, <2>2, ReservationRests
<1>4. CASE EndProbe
  <2>1. /\ evictor.probe # None /\ GoodProbe(evictor.probe)
        /\ evictor.timedOut \in BOOLEAN
        /\ table' = FinishProbe(table, evictor.probe, evictor.timedOut)
        /\ evictor'.probe = None /\ UNCHANGED <<observers, evictions>>
    BY <1>1, <1>4, IdleTypes
    DEF EndProbe, TableInv, PcInv, ProbesKnown, KnownProbe, EvictorType
  <2>2. PICK p : p = evictor.probe
    OBVIOUS
  <2>3. PICK timedOut \in BOOLEAN : timedOut = evictor.timedOut
    BY <2>1
  <2>4. Reserved' = Reserved \ {p.bucket}
    BY <2>1, <2>2, <2>3, FinishReleases
  <2>5. Held' = Held
    BY <2>1 DEF Held
  <2> QED
    BY <2>1, <2>2, <2>4, <2>5, ReleaseTaken DEF ResInv
<1> QED
  BY <1>2, <1>3, <1>4 DEF EvictorStep

LEMMA EnvironmentReserves ==
  ASSUME TableInv, ResInv, Environment
  PROVE  ResInv'
<1>1. /\ Receiver \in Observer /\ Worker \subseteq Observer /\ GoodTable(table)
      /\ \A o \in Observer : observers[o].pc = "idle" => observers[o].probe = None
  BY DEF Observer, TableInv, PcInv
<1>2. CASE UNCHANGED <<observers, evictions, evictor>>
           /\ \A b \in Bucket : table'[b].probing = table[b].probing
  <2>1. Held' = Held
    BY <1>2 DEF Held
  <2> QED
    BY <1>2, <2>1, ReservationRests
<1>3. ASSUME NEW c \in Caller, ReceiveReply(c)
      PROVE  ResInv'
  <2>1. [IdleObserver EXCEPT !.node = calls[c].node, !.call = c] \in ObserverType
    BY DEF TableInv, TypeOK, CallType, IdleObserver, ObserverType, ObserverPc
  <2> QED
    BY <1>1, <1>3, <2>1, ObserveReserves DEF ReceiveReply, CanReceive
<1>4. ASSUME NEW n \in Node, ReceiveRequest(n)
      PROVE  ResInv'
  <2>1. [IdleObserver EXCEPT !.node = n] \in ObserverType
    BY DEF IdleObserver, ObserverType, ObserverPc
  <2> QED
    BY <1>1, <1>4, <2>1, ObserveReserves DEF ReceiveRequest, CanReceive
<1>5. ASSUME NEW n \in Node, NEW w \in Worker, Dispatch(n, w)
      PROVE  ResInv'
  <2> DEFINE rec == [IdleObserver EXCEPT !.pc = "observe", !.node = n, !.again = TRUE]
  <2>1. rec.probe = None
    BY DEF IdleObserver
  <2>2. /\ w \in Observer /\ observers[w].probe = None
        /\ observers' = [observers EXCEPT ![w] = rec]
        /\ UNCHANGED <<table, evictions, evictor>>
    BY <1>1, <1>5 DEF Dispatch
  <2> HIDE DEF rec
  <2> QED
    BY <2>1, <2>2, ObserverRests
<1>6. ASSUME NEW n \in Node, Seed(n)
      PROVE  ResInv'
  <2>1. \A b \in Bucket : table'[b].probing = table[b].probing
    BY <1>1, <1>6, AddContactFacts DEF Seed
  <2> QED
    BY <1>2, <1>6, <2>1 DEF Seed
<1> QED
  BY <1>2, <1>3, <1>4, <1>5, <1>6
  DEF Environment, Cancel, Call, TransportFails, CloseStarts

LEMMA CallsReserve ==
  ASSUME TableInv, ResInv, NEW c \in Caller, CallStep(c)
  PROVE  ResInv'
<1>1. UNCHANGED <<observers, evictions>>
  BY DEF CallStep, Register, Attempt, Receives, Timer, Expire, Leave
<1>2. evictor'.probe = evictor.probe
  <2>1. evictor \in EvictorType
    BY DEF TableInv, TypeOK
  <2> QED
    BY <2>1 DEF CallStep, Register, Attempt, Receives, Timer, Expire, Leave, Return,
                PingReturns, EvictorType
<1>3. \A b \in Bucket : table'[b].probing = table[b].probing
  <2>1. CASE Expire(c)
    <3>1. calls[c].node \in Node /\ calls[c].version \in Nat /\ GoodTable(table)
      BY DEF TableInv, TypeOK, CallType
    <3> QED
      BY <2>1, <3>1, RemoveUnresponsiveFacts DEF Expire
  <2>2. CASE ~Expire(c)
    BY <2>2 DEF CallStep, Register, Attempt, Receives, Timer, Leave
  <2> QED
    BY <2>1, <2>2
<1>4. Held' = Held
  BY <1>1 DEF Held
<1> QED
  BY <1>1, <1>2, <1>3, <1>4, ReservationRests

LEMMA ReservationStep == TableInv /\ ResInv /\ [Next]_vars => ResInv'
<1> SUFFICES ASSUME TableInv, ResInv, [Next]_vars PROVE ResInv'
  OBVIOUS
<1>1. CASE CloserStep \/ UNCHANGED vars
  <2>1. UNCHANGED <<table, observers, evictions, evictor>>
    BY <1>1 DEF CloserStep, CloseTransport, CloseReturns, vars
  <2>2. Held' = Held
    BY <2>1 DEF Held
  <2> QED
    BY <2>1, <2>2, ReservationRests
<1> QED
  BY <1>1, CallsReserve, ObserversReserve, EvictorReserves, EnvironmentReserves DEF Next

LEMMA ReservationInit == Init => ResInv
<1> SUFFICES ASSUME Init PROVE ResInv
  OBVIOUS
<1>1. /\ \A o \in Observer : Held[o] = None
      /\ evictor.probe = None /\ evictions = << >>
  BY IdleTypes DEF Init, Held
<1>2. Reserved = {}
  BY DEF Init, Reserved, NewRoutingTable, EmptyBucket
<1> QED
  BY <1>1, <1>2 DEF ResInv, Reservation

LEMMA ReservationInvariant == Spec => [](TableInv /\ ResInv)
<1>1. TableInv /\ ResInv /\ [Next]_vars => (TableInv /\ ResInv)'
  BY TableInvStep, ReservationStep
<1> QED
  BY <1>1, InitTableInv, ReservationInit, PTL DEF Spec

\* "One probe per bucket prevents competing replacement decisions"
\* (routing_maintenance.go:10): the probing flag of a bucket is set exactly while
\* one probe of it exists, with an observer, in the queue or with evictionLoop.
THEOREM OneProbePerBucket == Spec => []ProbeReservation
<1>1. TableInv /\ ResInv => ProbeReservation
  <2> SUFFICES ASSUME TableInv, ResInv PROVE ProbeReservation
    OBVIOUS
  <2>1. \A o \in Observer : Held[o] = observers[o].probe
    BY HeldFacts
  <2>2. \A x \in Places :
          \/ \E o \in Observer : /\ x = <<"observer", o>> /\ Held[o] # None
                               /\ ProbeAt(x) = Held[o]
          \/ \E i \in DOMAIN evictions : x = <<"queue", i>> /\ ProbeAt(x) = evictions[i]
          \/ x = <<"evictor", Evictor>> /\ evictor.probe # None
             /\ ProbeAt(x) = evictor.probe
    BY <2>1 DEF Places, ProbeAt
  <2>3. \A x \in Places : ProbeAt(x).bucket \in Reserved
    BY <2>2 DEF ResInv, Reservation
  <2>4. \A x, y \in Places : ProbeAt(x).bucket = ProbeAt(y).bucket => x = y
    <3> SUFFICES ASSUME NEW x \in Places, NEW y \in Places,
                        ProbeAt(x).bucket = ProbeAt(y).bucket
                 PROVE  x = y
      OBVIOUS
    <3>1. CASE \E o \in Observer : /\ x = <<"observer", o>> /\ Held[o] # None
                                 /\ ProbeAt(x) = Held[o]
      BY <2>2, <3>1 DEF ResInv, Reservation
    <3>2. CASE \E i \in DOMAIN evictions : x = <<"queue", i>> /\ ProbeAt(x) = evictions[i]
      BY <2>2, <3>2 DEF ResInv, Reservation
    <3>3. CASE x = <<"evictor", Evictor>> /\ evictor.probe # None
               /\ ProbeAt(x) = evictor.probe
      BY <2>2, <3>3 DEF ResInv, Reservation
    <3> QED
      BY <2>2, <3>1, <3>2, <3>3
  <2>5. ASSUME NEW b \in Bucket, table[b].probing
        PROVE  \E x \in Places : ProbeAt(x).bucket = b
    <3>1. b \in Reserved
      BY <2>5 DEF Reserved
    <3>2. CASE \E o \in Observer : Held[o] # None /\ Held[o].bucket = b
      <4>1. PICK o \in Observer : Held[o] # None /\ Held[o].bucket = b
        BY <3>2
      <4>2. <<"observer", o>> \in Places /\ ProbeAt(<<"observer", o>>) = observers[o].probe
        BY <2>1, <4>1 DEF Places, ProbeAt
      <4> QED
        BY <2>1, <4>1, <4>2
    <3>3. CASE \E i \in DOMAIN evictions : evictions[i].bucket = b
      <4>1. PICK i \in DOMAIN evictions : evictions[i].bucket = b
        BY <3>3
      <4>2. <<"queue", i>> \in Places /\ ProbeAt(<<"queue", i>>) = evictions[i]
        BY DEF Places, ProbeAt
      <4> QED
        BY <4>1, <4>2
    <3>4. CASE evictor.probe # None /\ evictor.probe.bucket = b
      <4>1. /\ <<"evictor", Evictor>> \in Places
            /\ ProbeAt(<<"evictor", Evictor>>) = evictor.probe
        BY <3>4 DEF Places, ProbeAt
      <4> QED
        BY <3>4, <4>1
    <3> QED
      BY <3>1, <3>2, <3>3, <3>4 DEF ResInv, Reservation
  <2> QED
    BY <2>3, <2>4, <2>5 DEF ProbeReservation, Reserved
<1> QED
  BY <1>1, ReservationInvariant, PTL

\* "The queue is bounded by one probe per bucket" (maintenance.go:124): an observer
\* that has a probe to queue, the receiver with Network.mu held among them, finds a
\* slot.  The queued probes and the observer's are of different buckets, and the
\* queue has a slot for each bucket.
THEOREM QueueHasRoom == Spec => []EnqueueNeverBlocks
<1>1. TableInv /\ ResInv => EnqueueNeverBlocks
  <2> SUFFICES ASSUME TableInv, ResInv, NEW o \in Observer, observers[o].pc = "enqueue"
               PROVE  Len(evictions) < EvictionsCap
    BY DEF EnqueueNeverBlocks
  <2> DEFINE b == observers[o].probe.bucket
             rest == Bucket \ {b}
             slots == 1 .. Len(evictions)
             f == [i \in slots |-> evictions[i].bucket]
  <2>1. /\ observers[o].probe # None /\ Held[o] = observers[o].probe /\ b \in Bucket
        /\ evictions \in Seq(ProbeType) /\ Len(evictions) \in Nat
        /\ DOMAIN evictions = slots
    <3>1. observers[o].probe # None /\ evictions \in Seq(ProbeType)
      BY DEF TableInv, PcInv, TypeOK
    <3>2. KnownProbe(table, observers[o].probe)
      BY <3>1 DEF TableInv, ProbesKnown
    <3> QED
      BY <3>1, <3>2, HeldFacts DEF KnownProbe, GoodProbe, ProbeType
  <2>2. \A i \in slots : evictions[i].bucket \in rest
    <3>1. \A i \in slots : evictions[i] \in ProbeType /\ evictions[i].bucket # b
      BY <2>1 DEF ResInv, Reservation
    <3> QED
      BY <3>1 DEF ProbeType
  <2>3. f \in Injection(slots, rest)
    <3>1. f \in [slots -> rest]
      BY <2>2
    <3>2. \A i, j \in slots : f[i] = f[j] => i = j
      BY <2>1 DEF ResInv, Reservation
    <3> QED
      BY <3>1, <3>2 DEF Injection, IsInjective
  <2>4. IsFiniteSet(rest) /\ Cardinality(rest) = Cardinality(Bucket) - 1
    BY <2>1, FS_RemoveElement, CapAssumption
  <2>5. Cardinality(slots) =< Cardinality(rest)
    BY <2>3, <2>4, FS_Injection
  <2>6. Cardinality(slots) = Len(evictions)
    <3>1. 1 \in Int /\ Len(evictions) \in Int
      BY <2>1
    <3>2. Cardinality(slots) = IF 1 > Len(evictions) THEN 0 ELSE Len(evictions) - 1 + 1
      BY <3>1, FS_Interval
    <3> QED
      BY <2>1, <3>2
  <2>7. Cardinality(Bucket) \in Nat
    BY CapAssumption, FS_CardinalityType
  <2> QED
    BY <2>1, <2>4, <2>5, <2>6, <2>7, CapAssumption
<1> QED
  BY <1>1, ReservationInvariant, PTL

-----------------------------------------------------------------------------
(* The node implements PeerSet.                                            *)

Known(t) == {n \in Peer : InTable(t, n)}

\* The table u is t with n admitted to room that there was, or knows the same.
MayAdmit(t, u, n) ==
  \/ Known(u) = Known(t)
  \/ /\ n \in Peer \ Known(t) /\ Len(t[BucketOf[n]].list) < K
     /\ Known(u) = Known(t) \cup {n}

\* A bucket lists as many peers as it knows.
LEMMA RoomFacts ==
  ASSUME NEW t, GoodTable(t), NEW b \in Bucket
  PROVE  Cardinality({n \in Known(t) : BucketOf[n] = b}) = Len(t[b].list)
<1> DEFINE S == {n \in Known(t) : BucketOf[n] = b}
           list == t[b].list
<1>1. /\ list \in Seq(Peer) /\ Len(list) \in Nat /\ DOMAIN list = 1 .. Len(list)
      /\ \A i, j \in DOMAIN list : list[i] = list[j] => i = j
      /\ \A n \in Listed(t[b]) : BucketOf[n] = b
  BY GoodBucketType DEF GoodBucket, NoDuplicates, BucketType
<1>2. S = {list[i] : i \in 1 .. Len(list)}
  <2>1. Listed(t[b]) \subseteq Peer
    BY <1>1 DEF Listed
  <2>2. \A n \in Peer : BucketOf[n] = b => (InTable(t, n) <=> n \in Listed(t[b]))
    BY DEF InTable
  <2>3. S = Listed(t[b])
    BY <1>1, <2>1, <2>2 DEF Known
  <2> QED
    BY <1>1, <2>3 DEF Listed
<1> HIDE DEF S, list
<1>3. list \in Bijection(1 .. Len(list), S)
  <2>1. list \in [1 .. Len(list) -> S]
    BY <1>1, <1>2
  <2>2. IsInjective(list) /\ \A n \in S : \E i \in 1 .. Len(list) : list[i] = n
    BY <1>1, <1>2 DEF IsInjective
  <2> QED
    BY <2>1, <2>2 DEF Bijection, Injection, Surjection
<1>4. ExistsBijection(1 .. Len(list), S)
  BY <1>3 DEF ExistsBijection
<1> QED
  BY <1>1, <1>4, FS_CountingElements DEF S, list

\* Only the bucket of n changes, and in it only the version of n, which it gets
\* when it has one or there is room.
LEMMA AdmitFacts ==
  ASSUME NEW t, GoodTable(t), NEW u, GoodTable(u), NEW n \in Peer,
         \A m \in Peer : m # n =>
           u[BucketOf[m]].versions[m] = t[BucketOf[m]].versions[m],
         t[BucketOf[n]].versions[n] # 0 => u[BucketOf[n]].versions[n] # 0,
         t[BucketOf[n]].versions[n] = 0 /\ u[BucketOf[n]].versions[n] # 0 =>
           Len(t[BucketOf[n]].list) < K
  PROVE  MayAdmit(t, u, n)
<1>1. \A m \in Peer : m # n => (m \in Known(u) <=> m \in Known(t))
  BY InTableVersion DEF Known
<1>2. /\ n \in Known(t) <=> t[BucketOf[n]].versions[n] # 0
      /\ n \in Known(u) <=> u[BucketOf[n]].versions[n] # 0
  BY InTableVersion DEF Known
<1>3. Known(t) \subseteq Peer /\ Known(u) \subseteq Peer
  BY DEF Known
<1>4. CASE n \in Known(t) \/ n \notin Known(u)
  <2>1. n \in Known(t) <=> n \in Known(u)
    BY <1>2, <1>4
  <2>2. \A m \in Peer : m \in Known(t) <=> m \in Known(u)
    BY <1>1, <2>1
  <2>3. Known(u) = Known(t)
    BY <1>3, <2>2
  <2> QED
    BY <2>3 DEF MayAdmit
<1>5. CASE n \notin Known(t) /\ n \in Known(u)
  <2>1. Known(u) = Known(t) \cup {n}
    BY <1>1, <1>3, <1>5
  <2> QED
    BY <1>2, <1>5, <2>1 DEF MayAdmit
<1> QED
  BY <1>4, <1>5

\* What BucketAdd does to the versions.
LEMMA BucketAddAdmits ==
  ASSUME NEW bk \in BucketType, NEW b, GoodBucket(bk, b), NEW n \in Peer
  PROVE  /\ \A m \in Peer : m # n => BucketAdd(bk, n).versions[m] = bk.versions[m]
         /\ bk.versions[n] # 0 => BucketAdd(bk, n).versions[n] # 0
         /\ bk.versions[n] = 0 /\ BucketAdd(bk, n).versions[n] # 0 => Len(bk.list) < K
<1> DEFINE u == BucketAdd(bk, n)
<1>1. bk.version \in Nat /\ (bk.versions[n] # 0 <=> n \in Listed(bk))
  BY DEF BucketType, GoodBucket, VersionsMatchList
<1>2. /\ \A m \in Peer : m # n => u.versions[m] = bk.versions[m]
      /\ n \in Listed(bk) \/ Len(bk.list) < K => u.versions[n] = bk.version + 1
  BY BucketAddEffect
<1>3. ~(n \in Listed(bk) \/ Len(bk.list) < K) => u = bk
  BY DEF BucketAdd
<1> HIDE DEF u
<1>4. CASE n \in Listed(bk) \/ Len(bk.list) < K
  <2>1. u.versions[n] # 0
    BY <1>1, <1>2, <1>4
  <2> QED
    BY <1>1, <1>2, <1>4, <2>1 DEF u
<1>5. CASE ~(n \in Listed(bk) \/ Len(bk.list) < K)
  BY <1>3, <1>5 DEF u
<1> QED
  BY <1>4, <1>5

LEMMA AddContactAdmits ==
  ASSUME NEW t, GoodTable(t), NEW n \in Node
  PROVE  MayAdmit(t, AddContact(t, n), n)
<1>1. CASE n = Self
  BY <1>1 DEF AddContact, MayAdmit
<1>2. CASE n # Self
  <2> DEFINE u == AddContact(t, n)
             b == BucketOf[n]
  <2>1. n \in Peer /\ b \in Bucket /\ t[b] \in BucketType /\ GoodBucket(t[b], b)
        /\ GoodTable(u)
    BY <1>2, GoodBucketType, BucketAssumption, AddContactFacts DEF Node
  <2>2. u[b] = BucketAdd(t[b], n) /\ \A c \in Bucket : c # b => u[c] = t[c]
    BY <1>2, <2>1 DEF AddContact, GoodTable, TableType
  <2>3. /\ \A m \in Peer : m # n => u[b].versions[m] = t[b].versions[m]
        /\ t[b].versions[n] # 0 => u[b].versions[n] # 0
        /\ t[b].versions[n] = 0 /\ u[b].versions[n] # 0 => Len(t[b].list) < K
    BY <2>1, <2>2, BucketAddAdmits
  <2> HIDE DEF u
  <2>4. \A m \in Peer : m # n => u[BucketOf[m]].versions[m] = t[BucketOf[m]].versions[m]
    BY <2>2, <2>3, BucketAssumption
  <2> QED
    BY <2>1, <2>3, <2>4, AdmitFacts DEF u
<1> QED
  BY <1>1, <1>2

\* A probe that found its peer alive, or the peer's version past, drops nobody.
LEMMA FinishProbeAdmits ==
  ASSUME NEW t, GoodTable(t), NEW p, GoodProbe(p), NEW timedOut \in BOOLEAN,
         ~(timedOut /\ ProbeCurrent(t, p))
  PROVE  MayAdmit(t, FinishProbe(t, p, timedOut), p.replacement)
<1> DEFINE u == FinishProbe(t, p, timedOut)
           b == p.bucket
           n == p.replacement
           b0 == [t[b] EXCEPT !.probing = FALSE]
<1>1. /\ b \in Bucket /\ n \in Peer /\ BucketOf[n] = b /\ GoodTable(u)
      /\ t[b] \in BucketType /\ GoodBucket(t[b], b)
  BY FinishProbeFacts, GoodBucketType DEF GoodProbe, ProbeType
<1>2. /\ b0 \in BucketType /\ b0.list = t[b].list /\ b0.versions = t[b].versions
      /\ b0.version = t[b].version
  BY <1>1 DEF BucketType
<1>3. GoodBucket(b0, b)
  BY <1>1, <1>2 DEF GoodBucket, NoDuplicates, VersionsMatchList, ListByVersion, Listed
<1>4. u[b] = Replace(b0, p, timedOut) /\ \A c \in Bucket : c # b => u[c] = t[c]
  BY <1>1 DEF FinishProbe, GoodTable, TableType
<1>5. Replace(b0, p, timedOut) \in {b0, BucketAdd(b0, n)}
  <2>1. timedOut => b0.versions[p.old] # p.version
    BY <1>2 DEF ProbeCurrent
  <2> HIDE DEF b0
  <2> QED
    BY <2>1 DEF Replace
<1>6. /\ \A m \in Peer : m # n => u[b].versions[m] = t[b].versions[m]
      /\ t[b].versions[n] # 0 => u[b].versions[n] # 0
      /\ t[b].versions[n] = 0 /\ u[b].versions[n] # 0 => Len(t[b].list) < K
  <2> HIDE DEF b0, u
  <2> QED
    BY <1>1, <1>2, <1>3, <1>4, <1>5, BucketAddAdmits
<1> HIDE DEF u
<1>7. \A m \in Peer : m # n => u[BucketOf[m]].versions[m] = t[BucketOf[m]].versions[m]
  BY <1>4, <1>6, BucketAssumption
<1> QED
  BY <1>1, <1>6, <1>7, AdmitFacts DEF u

\* Room in the terms of PeerSet.
LEMMA RoomOfPeers ==
  ASSUME GoodTable(table), NEW b \in Bucket
  PROVE  Peers!HasRoom(b) <=> Len(table[b].list) < K
<1>1. Peers!Members(b) = {n \in Known(table) : BucketOf[n] = b}
  BY DEF Peers!Members, Known
<1>2. Cardinality(Peers!Members(b)) = Len(table[b].list)
  BY <1>1, RoomFacts
<1>3. Peers!Cardinality(Peers!Members(b)) = Cardinality(Peers!Members(b))
  BY DEF Peers!Cardinality, Cardinality
<1> QED
  BY <1>2, <1>3 DEF Peers!HasRoom

\* An admission or nothing, without a change of the reservations ...
LEMMA AdmitIsPeerStep ==
  ASSUME GoodTable(table), NEW n, MayAdmit(table, table', n), Reserved' = Reserved
  PROVE  [Peers!Next]_<<Known(table), Reserved>>
<1>1. Known(table)' = Known(table')
  BY DEF Known, InTable
<1>2. CASE Known(table') = Known(table)
  BY <1>1, <1>2
<1>3. CASE /\ n \in Peer \ Known(table) /\ Len(table[BucketOf[n]].list) < K
           /\ Known(table') = Known(table) \cup {n}
  <2>1. BucketOf[n] \in Bucket
    BY <1>3, BucketAssumption
  <2>2. Peers!HasRoom(BucketOf[n])
    BY <1>3, <2>1, RoomOfPeers
  <2>3. Peers!Admit(n)
    BY <1>1, <1>3, <2>2 DEF Peers!Admit, Known, Reserved
  <2> QED
    BY <1>3, <2>3 DEF Peers!Next
<1> QED
  BY <1>2, <1>3 DEF MayAdmit

\* ... or together with the end of the reservation.
LEMMA ReleaseIsPeerStep ==
  ASSUME TableInv, NEW p, GoodProbe(p), p.bucket \in Reserved, NEW timedOut \in BOOLEAN,
         ~(timedOut /\ ProbeCurrent(table, p)), table' = FinishProbe(table, p, timedOut)
  PROVE  [Peers!Next]_<<Known(table), Reserved>>
<1>1. /\ GoodTable(table) /\ p.bucket \in Bucket /\ p.replacement \in Peer
      /\ BucketOf[p.replacement] = p.bucket
  BY DEF TableInv, GoodProbe, ProbeType
<1>2. Reserved' = Reserved \ {p.bucket}
  BY FinishReleases
<1>3. MayAdmit(table, table', p.replacement) /\ Known(table)' = Known(table')
  BY <1>1, FinishProbeAdmits DEF Known, InTable
<1>4. CASE Known(table') = Known(table)
  <2>1. Peers!Release(p.bucket)
    BY <1>2, <1>3, <1>4 DEF Peers!Release, Known, Reserved
  <2> QED
    BY <1>1, <2>1 DEF Peers!Next
<1>5. CASE /\ p.replacement \in Peer \ Known(table) /\ Len(table[p.bucket].list) < K
           /\ Known(table') = Known(table) \cup {p.replacement}
  <2>1. Peers!HasRoom(p.bucket)
    BY <1>1, <1>5, RoomOfPeers
  <2>2. Peers!Release(p.bucket)
    BY <1>1, <1>2, <1>3, <1>5, <2>1 DEF Peers!Release, Known, Reserved
  <2> QED
    BY <1>1, <2>2 DEF Peers!Next
<1> QED
  BY <1>1, <1>3, <1>4, <1>5 DEF MayAdmit

\* An observation admits the peer to the room there is, or reserves a full bucket.
LEMMA ObserveIsPeerStep ==
  ASSUME GoodTable(table), NEW n \in Node, table' = Observe(table, n)
  PROVE  [Peers!Next]_<<Known(table), Reserved>>
<1> DEFINE b == BucketOf[n]
<1>1. /\ GoodTable(table')
      /\ \A c \in Bucket :
           table'[c].probing = (table[c].probing \/ (n # Self /\ c = b
                                                     /\ NeedsProbe(table, n)))
  BY ObserveFacts
<1>2. \A c \in Bucket : table[c].probing \in BOOLEAN /\ table'[c].probing \in BOOLEAN
  BY <1>1 DEF GoodTable, TableType, BucketType
<1>3. Known(table)' = Known(table')
  BY DEF Known, InTable
<1>4. CASE n = Self \/ Admits(table[b], n)
  <2>1. table' = AddContact(table, n)
    BY <1>4 DEF Observe, AddContact
  <2>2. MayAdmit(table, table', n)
    BY <2>1, AddContactAdmits
  <2>3. Reserved' = Reserved
    BY <1>1, <1>2, <1>4 DEF Reserved, NeedsProbe
  <2> QED
    BY <2>2, <2>3, AdmitIsPeerStep
<1>5. CASE n # Self /\ ~Admits(table[b], n)
  <2>1. b \in Bucket
    BY <1>5, BucketAssumption DEF Node
  <2>2. table' = [table EXCEPT ![b].probing = TRUE]
    BY <1>5 DEF Observe
  <2>3. \A c \in Bucket : table'[c].list = table[c].list
    BY <2>2 DEF GoodTable, TableType, BucketType
  <2>4. Known(table') = Known(table)
    BY <2>3, BucketAssumption DEF Known, InTable, Listed
  <2>5. ~Peers!HasRoom(b)
    BY <1>5, <2>1, RoomOfPeers DEF Admits
  <2>6. CASE table[b].probing
    <3>1. Reserved' = Reserved
      BY <1>1, <1>2, <2>6 DEF Reserved, NeedsProbe
    <3> QED
      BY <1>3, <2>4, <3>1
  <2>7. CASE ~table[b].probing
    <3>1. Reserved' = Reserved \cup {b} /\ b \notin Reserved
      BY <1>1, <1>2, <1>5, <2>1, <2>7 DEF Reserved, NeedsProbe
    <3>2. Peers!Reserve(b)
      BY <1>3, <2>4, <2>5, <3>1 DEF Peers!Reserve, Known, Reserved
    <3> QED
      BY <2>1, <3>2 DEF Peers!Next
  <2> QED
    BY <2>6, <2>7
<1> QED
  BY <1>4, <1>5

LEMMA RemovalAdmitsNobody ==
  ASSUME NEW t, GoodTable(t), NEW n \in Node, NEW v \in Nat,
         NEW u, u = RemoveUnresponsive(t, n, v), GoodTable(u)
  PROVE  Known(u) \subseteq Known(t)
<1>1. CASE u = t
  BY <1>1
<1>2. CASE u # t
  <2> DEFINE b == BucketOf[n]
             bk == BucketRemove(t[b], n)
  <2>1. u = [t EXCEPT ![b] = bk] /\ n \in Peer
    BY <1>2 DEF RemoveUnresponsive, ContactVersion, Node
  <2>2. b \in Bucket /\ t[b] \in BucketType
    BY <2>1, BucketAssumption, GoodBucketType
  <2>3. \A m \in Peer : bk.versions[m] = t[b].versions[m] \/ bk.versions[m] = 0
    BY <2>1, <2>2, BucketRemoveEffect
  <2> HIDE DEF bk
  <2>4. \A m \in Peer : \/ u[BucketOf[m]].versions[m] = t[BucketOf[m]].versions[m]
                        \/ u[BucketOf[m]].versions[m] = 0
    BY <2>1, <2>2, <2>3, BucketAssumption DEF GoodTable, TableType
  <2> QED
    BY <2>4, InTableVersion DEF Known
<1> QED
  BY <1>1, <1>2

\* A call that times out drops its peer or nobody.
LEMMA ExpireIsPeerStep ==
  ASSUME TableInv, NEW c \in Caller, Expire(c)
  PROVE  [Peers!Next]_<<Known(table), Reserved>>
<1>1. calls[c].node \in Node /\ calls[c].version \in Nat /\ GoodTable(table)
  BY DEF TableInv, TypeOK, CallType
<1>2. PICK n \in Node : n = calls[c].node
  BY <1>1
<1>3. table' = RemoveUnresponsive(table, n, calls[c].version)
  BY <1>2 DEF Expire
<1>4. /\ GoodTable(table') /\ VersionStep(table, table')
      /\ \A b \in Bucket : table'[b].probing = table[b].probing
      /\ \A m \in Peer : InTable(table, m) /\ ~InTable(table', m) => m = n
  BY <1>1, <1>3, RemoveUnresponsiveFacts
<1>5. Reserved' = Reserved /\ Known(table)' = Known(table')
  BY <1>4 DEF Reserved, Known, InTable
<1>6. Known(table') \subseteq Known(table)
  BY <1>1, <1>3, <1>4, RemovalAdmitsNobody
<1>7. Known(table) \subseteq Known(table') \cup {n}
  BY <1>4 DEF Known
<1>8. CASE Known(table') = Known(table)
  BY <1>5, <1>8
<1>9. CASE Known(table') # Known(table)
  <2>1. /\ n \in Known(table) /\ n \in Peer
        /\ Known(table') = Known(table) \ {n}
    BY <1>6, <1>7, <1>9 DEF Known
  <2>2. Peers!Drop(n)
    BY <1>5, <2>1 DEF Peers!Drop, Known, Reserved
  <2> QED
    BY <2>1, <2>2 DEF Peers!Next
<1> QED
  BY <1>8, <1>9

LEMMA NetworkPeerStep ==
  ASSUME IInv, ResInv, [Next]_vars
  PROVE  [Peers!Next]_<<Known(table), Reserved>>
<1> DEFINE Goal == [Peers!Next]_<<Known(table), Reserved>>
<1>1. TableInv /\ VersionInv /\ GoodTable(table) /\ TypeOK
  BY DEF IInv, TableInv
<1>2. ASSUME UNCHANGED table
      PROVE  Goal
  BY <1>2 DEF Known, InTable, Reserved
<1>3. ASSUME NEW o \in Observer, NEW rec \in ObserverType, ObserveContact(o, rec)
      PROVE  Goal
  <2>1. PICK n \in Node : n = rec.node
    BY DEF ObserverType
  <2>2. table' = Observe(table, n)
    BY <1>3, <2>1 DEF ObserveContact
  <2> QED
    BY <1>1, <2>2, ObserveIsPeerStep
<1>4. ASSUME NEW c \in Caller, ReceiveReply(c)
      PROVE  Goal
  <2>1. [IdleObserver EXCEPT !.node = calls[c].node, !.call = c] \in ObserverType
    BY <1>1 DEF TypeOK, CallType, IdleObserver, ObserverType, ObserverPc
  <2>2. Receiver \in Observer
    BY DEF Observer
  <2> QED
    BY <1>3, <1>4, <2>1, <2>2 DEF ReceiveReply
<1>5. ASSUME NEW m \in Node, ReceiveRequest(m)
      PROVE  Goal
  <2>1. [IdleObserver EXCEPT !.node = m] \in ObserverType
    BY DEF IdleObserver, ObserverType, ObserverPc
  <2>2. Receiver \in Observer
    BY DEF Observer
  <2> QED
    BY <1>3, <1>5, <2>1, <2>2 DEF ReceiveRequest
<1>6. ASSUME NEW w \in Worker, WorkerObserve(w)
      PROVE  Goal
  <2>1. w \in Observer /\ observers[w] \in ObserverType
    BY <1>1 DEF TypeOK, Observer
  <2> QED
    BY <1>3, <1>6, <2>1 DEF WorkerObserve
<1>7. ASSUME NEW o \in Observer, GiveUp(o)
      PROVE  Goal
  <2>1. observers[o].probe # None /\ GoodProbe(observers[o].probe)
    BY <1>1, <1>7 DEF GiveUp, TableInv, PcInv, ProbesKnown, KnownProbe
  <2>2. PICK p : p = observers[o].probe
    OBVIOUS
  <2>3. PICK x \in BOOLEAN : x = FALSE
    OBVIOUS
  <2>4. table' = FinishProbe(table, p, x) /\ ~(x /\ ProbeCurrent(table, p))
    BY <1>7, <2>2, <2>3 DEF GiveUp
  <2>5. p.bucket \in Reserved
    BY <1>1, <2>1, <2>2, HeldFacts DEF ResInv, Reservation
  <2> QED
    BY <1>1, <2>1, <2>2, <2>4, <2>5, ReleaseIsPeerStep
<1>8. ASSUME EndProbe
      PROVE  Goal
  <2>1. evictor.probe # None /\ GoodProbe(evictor.probe)
    BY <1>1, <1>8 DEF EndProbe, TableInv, PcInv, ProbesKnown, KnownProbe
  <2>2. PICK p : p = evictor.probe
    OBVIOUS
  <2>3. PICK x \in BOOLEAN : x = evictor.timedOut
    BY <1>1 DEF TypeOK, EvictorType
  <2>4. table' = FinishProbe(table, p, x) /\ ~(x /\ ProbeCurrent(table, p))
    BY <1>1, <1>8, <2>2, <2>3 DEF EndProbe, VersionInv
  <2>5. p.bucket \in Reserved
    BY <2>1, <2>2 DEF ResInv, Reservation
  <2> QED
    BY <1>1, <2>1, <2>2, <2>4, <2>5, ReleaseIsPeerStep
<1>9. ASSUME NEW m \in Node, Seed(m)
      PROVE  Goal
  <2>1. MayAdmit(table, table', m)
    BY <1>1, <1>9, AddContactAdmits DEF Seed
  <2>2. Reserved' = Reserved
    BY <1>1, <1>9, AddContactFacts DEF Seed, Reserved
  <2> QED
    BY <1>1, <2>1, <2>2, AdmitIsPeerStep
<1> SUFFICES Goal
  OBVIOUS
<1> HIDE DEF Goal
<1>10. CASE \E c \in Caller : CallStep(c)
  <2>1. ASSUME NEW c \in Caller, Expire(c)
        PROVE  Goal
    BY <1>1, <2>1, ExpireIsPeerStep DEF Goal
  <2> QED
    BY <1>2, <1>10, <2>1 DEF CallStep, Register, Attempt, Receives, Timer, Leave
<1>11. CASE ReceiverStep
  <2>1. Receiver \in Observer
    BY DEF Observer
  <2> QED
    BY <1>2, <1>7, <1>11, <2>1 DEF ReceiverStep, Deliver, Enqueue, ReceiverStops
<1>12. CASE \E w \in Worker : WorkerStep(w)
  <2>1. Worker \subseteq Observer
    BY DEF Observer
  <2> QED
    BY <1>2, <1>6, <1>7, <1>12, <2>1 DEF WorkerStep, WorkerRefuses, Enqueue
<1>13. CASE EvictorStep
  BY <1>2, <1>8, <1>13 DEF EvictorStep, TakeProbe, CheckProbe, PingOld, EvictorStops
<1>14. CASE CloserStep
  BY <1>2, <1>14 DEF CloserStep, CloseTransport, CloseReturns
<1>15. CASE Environment
  BY <1>2, <1>4, <1>5, <1>9, <1>15
  DEF Environment, Cancel, Call, Dispatch, TransportFails, CloseStarts
<1>16. CASE UNCHANGED vars
  BY <1>2, <1>16 DEF vars
<1> QED
  BY <1>10, <1>11, <1>12, <1>13, <1>14, <1>15, <1>16 DEF Next

\* The node implements PeerSet: whatever the goroutines do, no peer is pushed out
\* by another, a bucket that is full is reserved while one replacement is decided,
\* and each step of the table and of its reservations is one of the four that
\* PeerSet allows.
THEOREM NodeImplementsPeerSet == Spec => ImplementsPeerSet
<1>1. Init => IInv /\ ResInv
  BY InitTableInv, InitVersionInv, ReservationInit DEF IInv
<1>2. IInv /\ ResInv /\ [Next]_vars => (IInv /\ ResInv)'
  BY IInvStep, ReservationStep DEF IInv
<1>3. Init => Peers!Init
  <2> SUFFICES ASSUME Init PROVE Known(table) = {} /\ Reserved = {}
    BY DEF Peers!Init, Known, Reserved
  <2> QED
    BY BucketAssumption
    DEF Init, NewRoutingTable, EmptyBucket, Known, Reserved, InTable, Listed
<1>4. IInv /\ ResInv /\ [Next]_vars =>
        [Peers!Next]_<<{n \in Peer : InTable(table, n)},
                       {b \in Bucket : table[b].probing}>>
  BY NetworkPeerStep DEF Known, Reserved
<1> QED
  BY <1>1, <1>2, <1>3, <1>4, PTL DEF Spec, ImplementsPeerSet, Peers!Spec
-----------------------------------------------------------------------------
(* After Close.                                                            *)

\* What Close has waited for when it returns, and what keeps the receiver from
\* taking another packet.
ClosedDown ==
  /\ closer \in {"waiting", "returned"} => closed
  /\ closer = "returned" =>
       /\ observers[Receiver].pc = "stopped"
       /\ \A w \in Worker : observers[w].pc = "idle"
       /\ evictor.pc = "stopped"

\* The node's own goroutines at rest.
AtRest ==
  /\ observers' = observers /\ evictor' = evictor /\ evictions' = evictions
  /\ calls'[Evictor] = calls[Evictor]

\* A goroutine that has stopped is not woken: no packet is taken, and no call is
\* on its way whose return would be a step of evictionLoop.
LEMMA StoppedStays ==
  ASSUME TableInv, ClosedDown, closer = "returned", [Next]_vars
  PROVE  AtRest
<1>1. /\ closed /\ observers[Receiver].pc = "stopped" /\ evictor.pc = "stopped"
      /\ \A w \in Worker : observers[w].pc = "idle"
  BY DEF ClosedDown
<1>2. calls \in [Caller -> CallType] /\ calls[Evictor].pc = "idle"
  BY <1>1 DEF TableInv, TypeOK, PcInv, CallType, Caller
<1>3. ASSUME NEW c \in Caller, CallStep(c)
      PROVE  AtRest
  <2>1. c # Evictor
    BY <1>2, <1>3 DEF CallStep, Register, Attempt, Receives, Timer, Expire, Leave
  <2>2. UNCHANGED <<observers, evictor, evictions>>
    BY <1>3, <2>1 DEF CallStep, Register, Attempt, Receives, Timer, Expire, Leave, Return
  <2>3. \E rec : calls' = [calls EXCEPT ![c] = rec]
    BY <1>3 DEF CallStep, Register, Attempt, Receives, Timer, Expire, Leave, Return
  <2> QED
    BY <1>2, <2>1, <2>2, <2>3 DEF AtRest, Caller
<1>4. ~ReceiverStep
  BY <1>1 DEF ReceiverStep, Deliver, Enqueue, GiveUp, ReceiverStops
<1>5. ASSUME NEW w \in Worker
      PROVE  ~WorkerStep(w)
  BY <1>1 DEF WorkerStep, WorkerObserve, WorkerRefuses, Enqueue, GiveUp
<1>6. ~EvictorStep
  BY <1>1 DEF EvictorStep, TakeProbe, CheckProbe, PingOld, EndProbe, EvictorStops
<1>7. CASE CloserStep
  BY <1>7 DEF CloserStep, CloseTransport, CloseReturns, AtRest
<1>8. CASE Environment
  <2>1. ASSUME NEW c \in Caller, ReceiveReply(c) \/ Cancel(c)
        PROVE  AtRest
    <3>1. c # Evictor /\ UNCHANGED <<observers, evictor, evictions>>
          /\ calls' = [calls EXCEPT ![c].pc = "leaving"]
      BY <1>1, <2>1, CallerAssumption DEF ReceiveReply, CanReceive, Cancel
    <3> QED
      BY <1>2, <3>1 DEF AtRest, Caller
  <2>2. ASSUME NEW c \in App, NEW n \in Peer, Call(c, n)
        PROVE  AtRest
    <3>1. c # Evictor /\ UNCHANGED <<observers, evictor, evictions>>
          /\ \E rec : calls' = [calls EXCEPT ![c] = rec]
      BY <2>2, CallerAssumption DEF Call, BeginCall
    <3> QED
      BY <1>2, <3>1 DEF AtRest, Caller
  <2>3. ASSUME NEW n \in Node, \/ ReceiveRequest(n) \/ Seed(n)
                               \/ \E w \in Worker : Dispatch(n, w)
        PROVE  AtRest
    BY <1>1, <2>3 DEF ReceiveRequest, Dispatch, CanReceive, Seed, AtRest
  <2>4. CASE TransportFails \/ CloseStarts
    BY <2>4 DEF TransportFails, CloseStarts, AtRest
  <2> QED
    BY <1>8, <2>1, <2>2, <2>3, <2>4 DEF Environment
<1>9. CASE UNCHANGED vars
  BY <1>9 DEF vars, AtRest
<1> QED
  BY <1>3, <1>4, <1>5, <1>6, <1>7, <1>8, <1>9 DEF Next

LEMMA ClosedDownStep == TableInv /\ ClosedDown /\ [Next]_vars => ClosedDown'
<1> SUFFICES ASSUME TableInv, ClosedDown, [Next]_vars PROVE ClosedDown'
  OBVIOUS
<1>1. \/ /\ closer' = closer /\ (closed => closed')
      \/ CloseStarts
      \/ CloseTransport
      \/ CloseReturns
  <2>1. CASE \E c \in Caller : CallStep(c)
    BY <2>1 DEF CallStep, Register, Attempt, Receives, Timer, Expire, Leave
  <2>2. CASE ReceiverStep \/ \E w \in Worker : WorkerStep(w)
    BY <2>2 DEF ReceiverStep, WorkerStep, Deliver, Enqueue, GiveUp, ReceiverStops,
                WorkerObserve, WorkerRefuses
  <2>3. CASE EvictorStep
    BY <2>3 DEF EvictorStep, TakeProbe, CheckProbe, PingOld, EndProbe, EvictorStops
  <2>4. CASE CloserStep
    BY <2>4 DEF CloserStep
  <2>5. CASE Environment
    BY <2>5 DEF Environment, ReceiveReply, Cancel, Call, ReceiveRequest, Seed, Dispatch,
                TransportFails
  <2>6. CASE UNCHANGED vars
    BY <2>6 DEF vars
  <2> QED
    BY <2>1, <2>2, <2>3, <2>4, <2>5, <2>6 DEF Next
<1>2. CASE closer' = closer /\ (closed => closed')
  <2>1. CASE closer = "returned"
    BY <1>2, <2>1, StoppedStays DEF ClosedDown, AtRest
  <2>2. CASE closer # "returned"
    BY <1>2, <2>2 DEF ClosedDown
  <2> QED
    BY <2>1, <2>2
<1>3. CASE CloseStarts
  BY <1>3 DEF CloseStarts, ClosedDown
<1>4. CASE CloseTransport
  BY <1>4 DEF CloseTransport, ClosedDown
<1>5. CASE CloseReturns
  BY <1>5 DEF CloseReturns, ClosedDown
<1> QED
  BY <1>1, <1>2, <1>3, <1>4, <1>5

\* "It ... waits for RPC, eviction, refresh and replication workers" (kademlia.go:84):
\* once Close has returned, the receiver, the registry workers and evictionLoop
\* take no step, however many packets still arrive and calls still return.
THEOREM ClosedNodeIsQuiet == Spec => QuietAfterClose
<1>1. Init => ClosedDown
  BY DEF Init, ClosedDown
<1>2. TableInv /\ ClosedDown /\ [Next]_vars =>
        [closer = "returned" =>
           /\ observers' = observers
           /\ evictor' = evictor
           /\ evictions' = evictions
           /\ calls'[Evictor] = calls[Evictor]]_vars
  BY StoppedStays DEF AtRest
<1> QED
  BY <1>1, <1>2, InitTableInv, TableInvStep, ClosedDownStep, PTL
  DEF Spec, QuietAfterClose
=============================================================================
