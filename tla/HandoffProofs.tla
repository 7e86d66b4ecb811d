---------------------------- MODULE HandoffProofs ----------------------------
(* Proofs about the hand-off (module Handoff): its queue and its memory, and *)
(* what a transfer owes to its peer (OwedInv).                               *)
EXTENDS Handoff, TLAPS

\* The peer being served is that of a transfer that is under way.
ServingInv == peer # None <=> pc \in {"values", "heads"}

IInv == TypeOK /\ QueueExact /\ ServingInv

-----------------------------------------------------------------------------
(* Lists without repetition.                                               *)

Injective(s) == \A i, j \in DOMAIN s : s[i] = s[j] => i = j

\* Appending a new element, as the channel does.
LEMMA AppendFacts ==
  ASSUME NEW s \in Seq(Peer), NEW p \in Peer, Injective(s), p \notin ToSet(s)
  PROVE  /\ Append(s, p) \in Seq(Peer)
         /\ Len(Append(s, p)) = Len(s) + 1
         /\ Injective(Append(s, p))
         /\ ToSet(Append(s, p)) = ToSet(s) \cup {p}
BY DEF Injective, ToSet

\* Taking the first element, as the loop does.
LEMMA TailFacts ==
  ASSUME NEW s \in Seq(Peer), s # << >>, Injective(s)
  PROVE  /\ Tail(s) \in Seq(Peer) /\ Head(s) \in Peer
         /\ Len(Tail(s)) = Len(s) - 1
         /\ Injective(Tail(s))
         /\ ToSet(s) = ToSet(Tail(s)) \cup {Head(s)}
         /\ Head(s) \notin ToSet(Tail(s))
<1>1. /\ Len(s) \in Nat \ {0} /\ Head(s) = s[1]
      /\ Tail(s) \in Seq(Peer) /\ Len(Tail(s)) = Len(s) - 1
      /\ \A i \in 1 .. Len(s) - 1 : Tail(s)[i] = s[i + 1]
  OBVIOUS
<1>2. Head(s) \in Peer /\ DOMAIN s = 1 .. Len(s) /\ DOMAIN Tail(s) = 1 .. Len(s) - 1
  BY <1>1
<1>3. Injective(Tail(s))
  BY <1>1, <1>2 DEF Injective
<1>4. Head(s) \notin ToSet(Tail(s))
  BY <1>1, <1>2 DEF Injective, ToSet
<1>5. ToSet(s) = ToSet(Tail(s)) \cup {Head(s)}
  <2>1. ASSUME NEW i \in 1 .. Len(s)
        PROVE  s[i] \in ToSet(Tail(s)) \cup {Head(s)}
    <3>1. CASE i = 1
      BY <3>1, <1>1
    <3>2. CASE i # 1
      <4>1. i - 1 \in 1 .. Len(s) - 1 /\ s[i] = Tail(s)[i - 1]
        BY <3>2, <1>1
      <4> QED
        BY <4>1, <1>2 DEF ToSet
    <3> QED
      BY <3>1, <3>2
  <2>2. ASSUME NEW i \in 1 .. Len(s) - 1
        PROVE  Tail(s)[i] \in ToSet(s)
    BY <1>1, <1>2 DEF ToSet
  <2>3. Head(s) \in ToSet(s)
    BY <1>1, <1>2 DEF ToSet
  <2> QED
    BY <1>2, <2>1, <2>2, <2>3 DEF ToSet
<1> QED
  BY <1>1, <1>2, <1>3, <1>4, <1>5

\* Moving an element to the front of the history.
LEMMA MoveToFrontFacts ==
  ASSUME NEW s \in Seq(Peer), NEW i \in DOMAIN s, Injective(s)
  PROVE  /\ MoveToFront(s, i) \in Seq(Peer)
         /\ Len(MoveToFront(s, i)) = Len(s)
         /\ Injective(MoveToFront(s, i))
<1> DEFINE t == MoveToFront(s, i)
<1>1. DOMAIN s = 1 .. Len(s) /\ Len(s) \in Nat /\ \A j \in 1 .. Len(s) : s[j] \in Peer
  OBVIOUS
<1>2. \A j \in 1 .. Len(s) :
        t[j] = IF j = 1 THEN s[i] ELSE IF j =< i THEN s[j - 1] ELSE s[j]
  BY DEF MoveToFront
<1>3. t \in [1 .. Len(s) -> Peer]
  BY <1>1 DEF MoveToFront
<1>4. t \in Seq(Peer) /\ Len(t) = Len(s) /\ DOMAIN t = 1 .. Len(s)
  BY <1>1, <1>3
<1> DEFINE from(j) == IF j = 1 THEN i ELSE IF j =< i THEN j - 1 ELSE j
<1>5. /\ \A j \in 1 .. Len(s) : from(j) \in 1 .. Len(s) /\ t[j] = s[from(j)]
      /\ \A j, k \in 1 .. Len(s) : from(j) = from(k) => j = k
  BY <1>1, <1>2
<1> HIDE DEF t, from
<1>6. Injective(t)
  BY <1>1, <1>4, <1>5 DEF Injective
<1> QED
  BY <1>4, <1>6 DEF t

\* A new peer at the front of the history, the last one forgotten if need be.
LEMMA RememberedFacts ==
  ASSUME recent \in Seq(Peer), Injective(recent), Len(recent) =< HistorySize,
         NEW p \in Peer, p \notin ToSet(recent)
  PROVE  /\ Remembered(p) \in Seq(Peer)
         /\ Len(Remembered(p)) =< HistorySize
         /\ Injective(Remembered(p))
<1> DEFINE s == << p >> \o recent
<1>1. /\ s \in Seq(Peer) /\ Len(s) = Len(recent) + 1 /\ Len(recent) \in Nat
      /\ s[1] = p
      /\ \A j \in 2 .. Len(s) : s[j] = recent[j - 1]
  OBVIOUS
<1>2. \A j \in 1 .. Len(recent) : recent[j] # p
  BY DEF ToSet
<1>3. Injective(s)
  BY <1>1, <1>2 DEF Injective
<1>4. CASE Len(s) > HistorySize
  <2> DEFINE t == SubSeq(s, 1, Len(s) - 1)
  <2>1. /\ t \in Seq(Peer) /\ Len(t) = Len(s) - 1
        /\ \A j \in 1 .. Len(s) - 1 : t[j] = s[j]
    BY <1>1
  <2>2. Injective(t)
    BY <1>1, <1>3, <2>1 DEF Injective
  <2>3. Remembered(p) = t
    BY <1>4 DEF Remembered
  <2> QED
    BY <1>1, <2>1, <2>2, <2>3, SizeAssumption
<1>5. CASE ~(Len(s) > HistorySize)
  <2>1. Remembered(p) = s
    BY <1>5 DEF Remembered
  <2> QED
    BY <1>1, <1>3, <1>5, <2>1, SizeAssumption
<1> QED
  BY <1>4, <1>5

-----------------------------------------------------------------------------
(* The inductive invariant.                                                *)

LEMMA InitIInv == Init => IInv
<1> SUFFICES ASSUME Init PROVE IInv
  OBVIOUS
<1>1. /\ inbox \in Seq(Peer) /\ Len(inbox) = 0 /\ DOMAIN inbox = {}
      /\ recent \in Seq(Peer) /\ Len(recent) = 0 /\ DOMAIN recent = {}
  BY DEF Init
<1>2. /\ pending = {} /\ contacts = {} /\ stored = {} /\ todo = {}
      /\ owed = {} /\ offered = {} /\ served = {} /\ done = FALSE
      /\ pc = "idle" /\ peer = None /\ sending = None
  BY DEF Init
<1>3. Len(inbox) =< QueueSize /\ Len(recent) =< HistorySize
  BY <1>1, SizeAssumption
<1>4. TypeOK
  BY <1>1, <1>2, <1>3 DEF TypeOK
<1>5. QueueExact
  BY <1>1, <1>2 DEF QueueExact, ToSet
<1>6. ServingInv
  BY <1>2 DEF ServingInv
<1> QED
  BY <1>4, <1>5, <1>6 DEF IInv

LEMMA NextIInv == IInv /\ [Next]_vars => IInv'
<1> SUFFICES ASSUME IInv, [Next]_vars PROVE IInv'
  OBVIOUS
<1> USE DEF IInv
<1>a. Injective(inbox) /\ Injective(recent)
  BY DEF QueueExact, Injective
<1>1. ASSUME NEW p \in Peer, ObserveKnown(p) PROVE IInv'
  <2>1. PICK i \in DOMAIN recent : recent' = MoveToFront(recent, i)
    BY <1>1 DEF ObserveKnown
  <2>2. recent' \in Seq(Peer) /\ Len(recent') = Len(recent) /\ Injective(recent')
    BY <1>a, <2>1, MoveToFrontFacts DEF TypeOK
  <2>3. UNCHANGED <<inbox, pending, contacts, stored, loop, done, owed, offered,
                   served>>
    BY <1>1 DEF ObserveKnown
  <2> QED
    BY <2>2, <2>3 DEF TypeOK, QueueExact, ServingInv, Injective, loop, ToSet
<1>2. ASSUME NEW p \in Peer, ObserveNew(p) PROVE IInv'
  <2>1. p \notin ToSet(inbox) /\ p # peer
    BY <1>2, PeerAssumption DEF ObserveNew, QueueExact
  <2>2. /\ recent' \in Seq(Peer) /\ Len(recent') =< HistorySize
        /\ Injective(recent')
    BY <1>2, <1>a, RememberedFacts DEF ObserveNew, TypeOK
  <2>3. /\ inbox' \in Seq(Peer) /\ Len(inbox') = Len(inbox) + 1
        /\ Injective(inbox') /\ ToSet(inbox') = ToSet(inbox) \cup {p}
    BY <1>2, <1>a, <2>1, AppendFacts DEF ObserveNew, TypeOK
  <2>3a. Len(inbox') =< QueueSize
    BY <1>2, <2>3, SizeAssumption DEF ObserveNew, TypeOK
  <2>4. /\ pending' = pending \cup {p} /\ served' = served \ {p}
        /\ UNCHANGED <<contacts, stored, loop, done, owed, offered>>
    BY <1>2 DEF ObserveNew
  <2>5. TypeOK'
    BY <2>2, <2>3, <2>3a, <2>4 DEF TypeOK, loop
  <2>6. QueueExact'
    <3>1. pending' = ToSet(inbox') \cup ({peer'} \ {None})
      BY <2>3, <2>4 DEF QueueExact, loop
    <3>2. peer' \notin ToSet(inbox')
      BY <2>1, <2>3, <2>4 DEF QueueExact, loop
    <3> QED
      BY <3>1, <3>2, <2>2, <2>3 DEF QueueExact, Injective, ToSet
  <2> QED
    BY <2>4, <2>5, <2>6 DEF ServingInv, loop
<1>3. CASE Take
  <2>1. /\ inbox' \in Seq(Peer) /\ Head(inbox) \in Peer
        /\ Len(inbox') = Len(inbox) - 1 /\ Injective(inbox')
        /\ ToSet(inbox) = ToSet(inbox') \cup {Head(inbox)}
        /\ Head(inbox) \notin ToSet(inbox')
    BY <1>3, <1>a, TailFacts DEF Take, TypeOK
  <2>2. peer = None
    BY <1>3 DEF Take, ServingInv
  <2>3. /\ peer' = Head(inbox) /\ pc' = "values"
        /\ todo' \in SUBSET Key /\ owed' \in SUBSET Key /\ offered' = {}
        /\ UNCHANGED <<pending, recent, contacts, stored, sending, done, served>>
    BY <1>3 DEF Take, TypeOK, Key
  <2>4. peer' # None
    BY <2>1, <2>3, PeerAssumption
  <2>5. TypeOK'
    BY <2>1, <2>3, SizeAssumption DEF TypeOK
  <2>6. QueueExact'
    <3>1. pending' = ToSet(inbox') \cup ({peer'} \ {None})
      BY <2>1, <2>2, <2>3, <2>4 DEF QueueExact
    <3> QED
      BY <3>1, <2>1, <2>3 DEF QueueExact, Injective, ToSet
  <2> QED
    BY <2>3, <2>4, <2>5, <2>6 DEF ServingInv
<1>4. ASSUME NEW k \in todo, DrawValue(k) \/ DrawHead(k) PROVE IInv'
  <2>1. /\ todo' \in SUBSET Key /\ sending' \in Key \cup {None}
        /\ offered' \in SUBSET Key
        /\ UNCHANGED <<queue, contacts, stored, pc, peer, done, owed, served>>
    BY <1>4 DEF DrawValue, DrawHead, Draw, TypeOK
  <2> QED
    BY <2>1 DEF TypeOK, QueueExact, ServingInv, queue, ToSet
<1>5. CASE CallReturns
  BY <1>5 DEF CallReturns, TypeOK, QueueExact, ServingInv, queue, ToSet
<1>6. CASE Heads
  <2>1. /\ todo' \in SUBSET Key
        /\ pc' = "heads" /\ pc = "values"
        /\ UNCHANGED <<queue, contacts, stored, peer, sending, done, owed, offered,
                   served>>
    BY <1>6 DEF Heads, TypeOK
  <2> QED
    BY <2>1 DEF TypeOK, QueueExact, ServingInv, queue, ToSet
<1>7. CASE Finish
  <2>1. /\ peer # None /\ peer' = None /\ pc' = "idle"
        /\ pending' = pending \ {peer}
        /\ owed' = {} /\ offered' = {} /\ served' = served \cup {peer}
        /\ UNCHANGED <<inbox, recent, contacts, stored, todo, sending, done>>
    BY <1>7 DEF Finish, ServingInv
  <2>2. pending' = ToSet(inbox') \cup ({peer'} \ {None})
    BY <2>1 DEF QueueExact, ToSet
  <2>3. None \notin ToSet(inbox')
    BY <2>1, PeerAssumption DEF TypeOK, ToSet
  <2>4. TypeOK'
    BY <2>1 DEF TypeOK
  <2>5. QueueExact'
    BY <2>1, <2>2, <2>3 DEF QueueExact, ToSet
  <2> QED
    BY <2>1, <2>4, <2>5 DEF ServingInv
<1>8. CASE Stops
  BY <1>8 DEF Stops, TypeOK, QueueExact, ServingInv, queue, ToSet
<1>9. ASSUME NEW p \in Peer, Learn(p) \/ Forget(p) PROVE IInv'
  <2>1. /\ contacts' \in SUBSET Peer /\ owed' \in SUBSET Key
        /\ UNCHANGED <<queue, stored, loop, done, offered, served>>
    BY <1>9 DEF Learn, Forget, TypeOK
  <2> QED
    BY <2>1 DEF TypeOK, QueueExact, ServingInv, queue, loop, ToSet
<1>10. ASSUME NEW k \in Key, Put(k) PROVE IInv'
  BY <1>10 DEF Put, TypeOK, QueueExact, ServingInv, queue, loop, ToSet
<1>11. CASE Shutdown
  BY <1>11 DEF Shutdown, TypeOK, QueueExact, ServingInv, queue, loop, ToSet
<1>12. CASE UNCHANGED vars
  BY <1>12 DEF vars, TypeOK, QueueExact, ServingInv, ToSet
<1> QED
  BY <1>1, <1>2, <1>3, <1>4, <1>5, <1>6, <1>7, <1>8, <1>9, <1>10, <1>11, <1>12
     DEF Next, Transfer, Observe

\* Every variable keeps its type: the queue and its memory keep their bounds
\* (handoff.go:52, 55).
THEOREM HandoffTypeCorrect == Spec => []TypeOK
<1>1. IInv => TypeOK
  BY DEF IInv
<1> QED
  BY <1>1, InitIInv, NextIInv, PTL DEF Spec

\* For any number of peers and any sizes: pending is exactly the queue and the
\* peer that is served, and no peer is queued twice (handoff.go:16).
THEOREM QueueIsExact == Spec => []QueueExact
<1>1. IInv => QueueExact
  BY DEF IInv
<1> QED
  BY <1>1, InitIInv, NextIInv, PTL DEF Spec

-----------------------------------------------------------------------------
(* The memory of the queue.                                                *)

\* What a list remembers after its element i is moved to the front.
LEMMA MovedElements ==
  ASSUME NEW s \in Seq(Peer), NEW i \in DOMAIN s
  PROVE  ToSet(MoveToFront(s, i)) \subseteq ToSet(s)
<1>1. DOMAIN s = 1 .. Len(s) /\ Len(s) \in Nat
  OBVIOUS
<1>2. DOMAIN MoveToFront(s, i) = 1 .. Len(s)
  BY DEF MoveToFront
<1>3. ASSUME NEW j \in 1 .. Len(s) PROVE MoveToFront(s, i)[j] \in ToSet(s)
  <2>1. MoveToFront(s, i)[j]
          = IF j = 1 THEN s[i] ELSE IF j =< i THEN s[j - 1] ELSE s[j]
    BY DEF MoveToFront
  <2> QED
    BY <1>1, <2>1 DEF ToSet
<1> QED
  BY <1>2, <1>3 DEF ToSet

\* What the queue remembers after a new peer.
LEMMA RememberedElements ==
  ASSUME recent \in Seq(Peer), NEW p \in Peer
  PROVE  ToSet(Remembered(p)) \subseteq ToSet(recent) \cup {p}
<1> DEFINE s == << p >> \o recent
<1>1. /\ s \in Seq(Peer) /\ Len(s) = Len(recent) + 1 /\ Len(recent) \in Nat
      /\ s[1] = p
      /\ \A j \in 2 .. Len(s) : s[j] = recent[j - 1]
  OBVIOUS
<1>2. \A j \in 1 .. Len(s) : s[j] \in ToSet(recent) \cup {p}
  BY <1>1 DEF ToSet
<1>3. CASE Len(s) > HistorySize
  <2> DEFINE t == SubSeq(s, 1, Len(s) - 1)
  <2>1. DOMAIN t = 1 .. Len(s) - 1 /\ \A j \in 1 .. Len(s) - 1 : t[j] = s[j]
    BY <1>1
  <2>2. Remembered(p) = t
    BY <1>3 DEF Remembered
  <2> QED
    BY <1>1, <1>2, <2>1, <2>2 DEF ToSet
<1>4. CASE ~(Len(s) > HistorySize)
  BY <1>1, <1>2, <1>4 DEF Remembered, ToSet
<1> QED
  BY <1>3, <1>4

LEMMA RememberedStep == IInv /\ RememberedIsServed /\ [Next]_vars => RememberedIsServed'
<1> SUFFICES ASSUME IInv, RememberedIsServed, [Next]_vars
             PROVE  RememberedIsServed'
  OBVIOUS
<1> USE DEF RememberedIsServed
<1>1. ASSUME NEW p \in Peer, ObserveKnown(p) PROVE RememberedIsServed'
  <2>1. PICK i \in DOMAIN recent : recent' = MoveToFront(recent, i)
    BY <1>1 DEF ObserveKnown
  <2>2. ToSet(recent') \subseteq ToSet(recent)
    BY <2>1, MovedElements DEF IInv, TypeOK
  <2> QED
    BY <1>1, <2>2 DEF ObserveKnown
<1>2. ASSUME NEW p \in Peer, ObserveNew(p) PROVE RememberedIsServed'
  <2>1. ToSet(recent') \subseteq ToSet(recent) \cup {p}
    BY <1>2, RememberedElements DEF ObserveNew, IInv, TypeOK
  <2> QED
    BY <1>2, <2>1 DEF ObserveNew
<1>3. CASE Finish
  BY <1>3 DEF Finish, ToSet
<1>4. CASE UNCHANGED <<recent, pending, served>>
  BY <1>4 DEF ToSet
<1> QED
  BY <1>1, <1>2, <1>3, <1>4
     DEF Next, Transfer, Observe, Take, DrawValue, DrawHead, Draw, CallReturns, Heads,
         Stops, Learn, Forget, Put, Shutdown, queue, vars

LEMMA RememberedInit == Init => RememberedIsServed
BY DEF Init, RememberedIsServed, ToSet

\* For any number of peers and any sizes of the queue and its history: no peer is
\* remembered instead of being served (handoff.go:35-37).
THEOREM RememberedAreServed == Spec => []RememberedIsServed
BY InitIInv, NextIInv, RememberedInit, RememberedStep, PTL DEF Spec

-----------------------------------------------------------------------------
(* What a transfer owes, and has offered.                                  *)

\* What is still owed is held and still fit for the peer; each value of it has
\* been sent or is still to be drawn, and once the loop has gone on to the heads
\* of its own accord, each value has been sent and each head is sent or to come.
OwedInv ==
  /\ \A k \in owed : k \in stored /\ Eligible(peer, k, contacts)
  /\ pc = "values" => owed \cap Value \subseteq offered \cup todo
  /\ pc = "heads" => owed \cap HeadKey \subseteq offered \cup todo
  /\ pc = "heads" /\ ~done => owed \cap Value \subseteq offered

LEMMA OwedInit == Init => OwedInv
BY DEF Init, OwedInv

\* Drawing a key of the snapshot loses none that is owed: the key is sent, or it
\* is not owed any more.
LEMMA DrawOwes ==
  ASSUME OwedInv, NEW k, Draw(k)
  PROVE  /\ offered \subseteq offered'
         /\ \A j \in owed : j \in todo => j \in offered' \cup todo'
<1>1. CASE Eligible(peer, k, contacts)
  BY <1>1 DEF Draw
<1>2. CASE ~Eligible(peer, k, contacts)
  BY <1>2 DEF Draw, OwedInv
<1> QED
  BY <1>1, <1>2

LEMMA OwedStep == TypeOK /\ OwedInv /\ [Next]_vars => OwedInv'
<1> SUFFICES ASSUME TypeOK, OwedInv, [Next]_vars PROVE OwedInv'
  OBVIOUS
<1>1. CASE UNCHANGED <<contacts, stored, loop, done, owed, offered>>
  BY <1>1 DEF OwedInv, Eligible, loop
<1>2. CASE Take
  <2>1. \A j \in owed' : j \in stored /\ Eligible(peer', j, contacts)
    BY <1>2 DEF Take
  <2>2. pc' = "values" /\ todo' = stored \cap Value /\ UNCHANGED <<stored, contacts>>
    BY <1>2 DEF Take
  <2> QED
    BY <2>1, <2>2 DEF OwedInv, Eligible
<1>3. ASSUME NEW k \in todo, DrawValue(k) \/ DrawHead(k)
      PROVE  OwedInv'
  <2>1. Draw(k)
    BY <1>3 DEF DrawValue, DrawHead
  <2>2. /\ offered \subseteq offered'
        /\ \A j \in owed : j \in todo => j \in offered' \cup todo'
    BY <2>1, DrawOwes
  <2>3. UNCHANGED <<contacts, stored, pc, peer, done, owed>>
    BY <2>1 DEF Draw
  <2> QED
    BY <2>2, <2>3 DEF OwedInv, Eligible
<1>4. CASE CallReturns
  BY <1>4 DEF CallReturns, OwedInv, Eligible
<1>5. CASE Heads
  <2>1. /\ pc = "values" /\ pc' = "heads" /\ todo' = stored \cap HeadKey
        /\ ~done => todo = {}
        /\ UNCHANGED <<contacts, stored, peer, done, owed, offered>>
    BY <1>5 DEF Heads
  <2> QED
    BY <2>1 DEF OwedInv, Eligible
<1>6. CASE Finish
  BY <1>6 DEF Finish, OwedInv
<1>7. CASE Stops
  BY <1>7 DEF Stops, OwedInv, Eligible
<1>8. ASSUME NEW p \in Peer, Learn(p) \/ Forget(p)
      PROVE  OwedInv'
  <2>1. /\ owed' = {k \in owed : Eligible(peer, k, contacts')}
        /\ UNCHANGED <<stored, pc, peer, todo, done, offered>>
    BY <1>8 DEF Learn, Forget, loop
  <2> QED
    BY <2>1 DEF OwedInv, Eligible
<1>9. ASSUME NEW k \in Key, Put(k)
      PROVE  OwedInv'
  BY <1>9 DEF Put, OwedInv, Eligible, loop
<1>10. CASE Shutdown
  BY <1>10 DEF Shutdown, OwedInv, Eligible, loop
<1>11. ASSUME NEW p \in Peer, Observe(p)
       PROVE  OwedInv'
  BY <1>1, <1>11 DEF Observe, ObserveKnown, ObserveNew
<1>12. CASE UNCHANGED vars
  BY <1>1, <1>12 DEF vars, loop
<1> QED
  BY <1>2, <1>3, <1>4, <1>5, <1>6, <1>7, <1>8, <1>9, <1>10, <1>11, <1>12
  DEF Next, Transfer

\* For any peers, keys, distances and sizes: a transfer that the end of the node
\* does not cut short has sent its peer all that was held when it began and for
\* which the peer has stayed eligible, whatever calls failed, peers came and went
\* and values arrived on the way (handoff.go:107).
THEOREM OwedKeysOffered == Spec => []OwedIsOffered
<1>1. TypeOK /\ OwedInv => OwedIsOffered
  <2> SUFFICES ASSUME TypeOK, OwedInv, pc = "heads", todo = {}, ~done,
                      NEW k \in owed
               PROVE  k \in offered
    BY DEF OwedIsOffered
  <2>1. k \in Value \/ k \in HeadKey
    BY DEF TypeOK, Key
  <2> QED
    BY <2>1 DEF OwedInv
<1>2. IInv => TypeOK
  BY DEF IInv
<1> QED
  BY <1>1, <1>2, InitIInv, NextIInv, OwedInit, OwedStep, PTL DEF Spec
=============================================================================
