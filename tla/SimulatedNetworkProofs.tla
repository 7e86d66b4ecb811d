------------------------ MODULE SimulatedNetworkProofs ------------------------
(* Proofs about the in-process network (module SimulatedNetwork).          *)
EXTENDS SimulatedNetwork, TLAPS

\* The map of timers of an open endpoint holds the timers that are armed and
\* those whose callbacks wait; with the packets that have arrived they fit in
\* the inbox.  A closed endpoint has no timers.
Space(e) ==
  /\ inbox[e] + timers[e] =< InboxSize
  /\ IF e \in closed THEN armed[e] = 0 /\ timers[e] = 0
     ELSE timers[e] = armed[e] + fired[e]

SpaceInv == \A e \in Endpoint : Space(e)

\* Only an endpoint that has listened is ever closed.
ClosedInv == \A e \in closed : address[e] # None

IInv == TypeOK /\ SpaceInv /\ ClosedInv /\ AddressExclusive

\* A closed endpoint has returned no more than it might at its Close, and a
\* Receive of it past the last poll was there at its Close.
DeadInv == \A e \in closed : Returnable(e) =< mayReturn[e]

Conserved(e) ==
  sent[e] = armed[e] + fired[e] + inbox[e] + dropped[e] + received[e]
              + (IF receiver[e] \in {"taken", "polled"} THEN 1 ELSE 0)

-----------------------------------------------------------------------------
LEMMA InitIInv == Init => IInv /\ PacketsConserved
BY EndpointAssumption, InboxAssumption
   DEF Init, IInv, TypeOK, SpaceInv, Space, ClosedInv, AddressExclusive, Listening,
       PacketsConserved

\* The endpoint that a packet is accepted for is open.
LEMMA SendsToOpen ==
  ASSUME IInv, NEW a \in Address, Send(a)
  PROVE  endpoints[a] \in Endpoint /\ endpoints[a] \notin closed
BY DEF IInv, TypeOK, AddressExclusive, Listening, Send

LEMMA TypeStep == IInv /\ [Next]_vars => TypeOK'
<1> SUFFICES ASSUME IInv, [Next]_vars PROVE TypeOK'
  OBVIOUS
<1> USE DEF IInv, TypeOK
<1>1. ASSUME NEW a \in Address, Send(a) PROVE TypeOK'
  BY <1>1, SendsToOpen DEF Send
<1>2. ASSUME NEW a \in Address, NEW e \in Endpoint, Listen(e, a) PROVE TypeOK'
  BY <1>2 DEF Listen
<1>3. ASSUME NEW e \in Endpoint, Fire(e) PROVE TypeOK'
  BY <1>3 DEF Fire
<1>4. ASSUME NEW e \in Endpoint, Deliver(e) PROVE TypeOK'
  <2>1. e \notin closed => timers[e] > 0
    BY <1>4 DEF Deliver, SpaceInv, Space
  <2>2. fired' \in [Endpoint -> Nat]
    BY <1>4 DEF Deliver
  <2>3. timers' \in [Endpoint -> Nat]
    BY <1>4, <2>1 DEF Deliver
  <2>4. inbox' \in [Endpoint -> Nat]
    BY <1>4 DEF Deliver
  <2>5. dropped' \in [Endpoint -> Nat]
    BY <1>4 DEF Deliver
  <2> QED
    BY <1>4, <2>2, <2>3, <2>4, <2>5 DEF Deliver
<1>5. ASSUME NEW e \in Endpoint, Close(e) PROVE TypeOK'
  <2>1. endpoints' \in [Address -> Endpoint \cup {None}]
    BY <1>5 DEF Close
  <2>2. dropped' \in [Endpoint -> Nat]
    BY <1>5 DEF Close
  <2>3. armed' \in [Endpoint -> Nat] /\ timers' \in [Endpoint -> Nat]
    BY <1>5 DEF Close
  <2>4. mayReturn' \in [Endpoint -> Nat]
    BY <1>5 DEF Close, Returnable
  <2> QED
    BY <1>5, <2>1, <2>2, <2>3, <2>4 DEF Close
<1>6. ASSUME NEW e \in Endpoint,
             Receive(e) \/ Select(e) \/ Poll(e) \/ Return(e) \/ ReceiveFails(e)
      PROVE  TypeOK'
  BY <1>6 DEF Receive, Select, Poll, Return, ReceiveFails, Move, Others
<1>7. CASE UNCHANGED vars
  BY <1>7 DEF vars
<1> QED
  BY <1>1, <1>2, <1>3, <1>4, <1>5, <1>6, <1>7 DEF Next

LEMMA SpaceStep == IInv /\ [Next]_vars => SpaceInv'
<1> SUFFICES ASSUME IInv, [Next]_vars, NEW f \in Endpoint PROVE Space(f)'
  BY DEF SpaceInv
<1>0. Space(f) /\ TypeOK
  BY DEF IInv, SpaceInv
<1> USE DEF TypeOK, Space
<1>1. ASSUME NEW a \in Address, Send(a) PROVE Space(f)'
  <2> DEFINE e == endpoints[a]
  <2>1. e \in Endpoint /\ e \notin closed
    BY <1>1, SendsToOpen
  <2>2. CASE f = e
    <3>1. inbox[f] + timers[f] < InboxSize
      BY <1>1, <2>2 DEF Send, HasSpace
    <3>2. UNCHANGED <<closed, fired>>
      BY <1>1 DEF Send
    <3>3. \/ inbox'[f] = inbox[f] + 1 /\ timers'[f] = timers[f] /\ armed'[f] = armed[f]
          \/ inbox'[f] = inbox[f] /\ timers'[f] = timers[f] + 1
               /\ armed'[f] = armed[f] + 1
      BY <1>0, <1>1, <2>2 DEF Send
    <3> QED
      BY <1>0, <2>1, <2>2, <3>1, <3>2, <3>3, InboxAssumption
  <2>3. CASE f # e
    <3>1. /\ inbox'[f] = inbox[f] /\ timers'[f] = timers[f] /\ armed'[f] = armed[f]
          /\ UNCHANGED <<closed, fired>>
      BY <1>0, <1>1, <2>3 DEF Send
    <3> QED
      BY <1>0, <3>1
  <2> QED
    BY <2>2, <2>3
<1>2. ASSUME NEW a \in Address, NEW e \in Endpoint, Listen(e, a) PROVE Space(f)'
  BY <1>0, <1>2 DEF Listen
<1>3. ASSUME NEW e \in Endpoint, Fire(e) PROVE Space(f)'
  BY <1>0, <1>3 DEF Fire
<1>4. ASSUME NEW e \in Endpoint, Deliver(e) PROVE Space(f)'
  BY <1>0, <1>4 DEF Deliver
<1>5. ASSUME NEW e \in Endpoint, Close(e) PROVE Space(f)'
  <2>1. /\ closed' = closed \cup {e} /\ UNCHANGED <<inbox, fired>>
        /\ armed' = [armed EXCEPT ![e] = 0] /\ timers' = [timers EXCEPT ![e] = 0]
    BY <1>5 DEF Close
  <2>2. CASE f = e
    <3>1. /\ inbox'[f] = inbox[f] /\ timers'[f] = 0 /\ armed'[f] = 0
          /\ f \in closed'
      BY <1>0, <2>1, <2>2
    <3>2. inbox[f] =< InboxSize
      BY <1>0, InboxAssumption
    <3> QED
      BY <1>0, <3>1, <3>2, InboxAssumption
  <2>3. CASE f # e
    <3>1. /\ inbox'[f] = inbox[f] /\ timers'[f] = timers[f] /\ armed'[f] = armed[f]
          /\ fired'[f] = fired[f] /\ (f \in closed' <=> f \in closed)
      BY <1>0, <2>1, <2>3
    <3> QED
      BY <1>0, <3>1
  <2> QED
    BY <2>2, <2>3
<1>6. ASSUME NEW e \in Endpoint,
             Receive(e) \/ Select(e) \/ Poll(e) \/ Return(e) \/ ReceiveFails(e)
      PROVE  Space(f)'
  <2>1. UNCHANGED <<timers, armed, fired, closed>>
    BY <1>6 DEF Receive, Select, Poll, Return, ReceiveFails, Others
  <2>2. inbox'[f] =< inbox[f]
    BY <1>0, <1>6 DEF Receive, Select, Poll, Return, ReceiveFails
  <2>3. inbox'[f] \in Nat
    BY <1>0, <1>6 DEF Receive, Select, Poll, Return, ReceiveFails
  <2>4. inbox'[f] + timers[f] =< InboxSize
    BY <1>0, <2>2, <2>3, InboxAssumption
  <2> QED
    BY <1>0, <2>1, <2>4
<1>7. CASE UNCHANGED vars
  BY <1>0, <1>7 DEF vars
<1> QED
  BY <1>1, <1>2, <1>3, <1>4, <1>5, <1>6, <1>7 DEF Next

LEMMA ClosedStep == IInv /\ [Next]_vars => ClosedInv'
<1> SUFFICES ASSUME IInv, [Next]_vars PROVE ClosedInv'
  OBVIOUS
<1> USE EndpointAssumption DEF IInv, TypeOK, ClosedInv, Listening
<1>1. ASSUME NEW a \in Address, NEW e \in Endpoint, Listen(e, a)
      PROVE  ClosedInv'
  BY <1>1 DEF Listen
<1>2. ASSUME NEW e \in Endpoint, Close(e) PROVE ClosedInv'
  BY <1>2 DEF Close
<1>3. CASE UNCHANGED <<address, closed>>
  BY <1>3
<1> QED
  BY <1>1, <1>2, <1>3
     DEF Next, Send, Fire, Deliver, Receive, Select, Poll, Return, ReceiveFails, Others,
         vars

LEMMA ExclusiveStep == IInv /\ [Next]_vars => AddressExclusive'
<1> SUFFICES ASSUME IInv, [Next]_vars PROVE AddressExclusive'
  OBVIOUS
<1> USE DEF IInv, TypeOK, AddressExclusive, Listening
<1>1. ASSUME NEW a \in Address, NEW e \in Endpoint, Listen(e, a)
      PROVE  AddressExclusive'
  <2>1. /\ endpoints' = [endpoints EXCEPT ![a] = e]
        /\ address' = [address EXCEPT ![e] = a]
        /\ closed' = closed
        /\ address[e] = None /\ endpoints[a] = None
    BY <1>1 DEF Listen
  <2>2. e \notin closed
    BY <2>1 DEF ClosedInv
  <2> QED
    BY <2>1, <2>2, EndpointAssumption
<1>2. ASSUME NEW e \in Endpoint, Close(e) PROVE AddressExclusive'
  <2>1. /\ closed' = closed \cup {e} /\ UNCHANGED address
        /\ endpoints' = [endpoints EXCEPT ![address[e]] = None]
        /\ address[e] # None /\ e \notin closed
    BY <1>2 DEF Close
  <2> QED
    BY <2>1, EndpointAssumption
<1>3. CASE UNCHANGED <<endpoints, address, closed>>
  BY <1>3
<1> QED
  BY <1>1, <1>2, <1>3
     DEF Next, Send, Fire, Deliver, Receive, Select, Poll, Return, ReceiveFails, Others,
         vars

LEMMA ConservedStep == IInv /\ PacketsConserved /\ [Next]_vars => PacketsConserved'
<1> SUFFICES ASSUME IInv, PacketsConserved, [Next]_vars, NEW f \in Endpoint
             PROVE  Conserved(f)'
  BY DEF PacketsConserved, Conserved
<1>0. Conserved(f) /\ TypeOK
  BY DEF IInv, PacketsConserved, Conserved
<1> USE DEF TypeOK, Conserved
<1>1. ASSUME NEW a \in Address, Send(a) PROVE Conserved(f)'
  BY <1>0, <1>1, SendsToOpen DEF Send
<1>2. ASSUME NEW a \in Address, NEW e \in Endpoint, Listen(e, a)
      PROVE  Conserved(f)'
  BY <1>0, <1>2 DEF Listen
<1>3. ASSUME NEW e \in Endpoint, Fire(e) PROVE Conserved(f)'
  BY <1>0, <1>3 DEF Fire
<1>4. ASSUME NEW e \in Endpoint, Deliver(e) PROVE Conserved(f)'
  BY <1>0, <1>4 DEF Deliver
<1>5. ASSUME NEW e \in Endpoint, Close(e) PROVE Conserved(f)'
  BY <1>0, <1>5 DEF Close
<1>6. ASSUME NEW e \in Endpoint, Receive(e) \/ ReceiveFails(e)
      PROVE  Conserved(f)'
  BY <1>0, <1>6 DEF Receive, ReceiveFails, Move, Others
<1>7. ASSUME NEW e \in Endpoint, Select(e) PROVE Conserved(f)'
  BY <1>0, <1>7 DEF Select, Move, Others
<1>8. ASSUME NEW e \in Endpoint, Poll(e) \/ Return(e)
      PROVE  Conserved(f)'
  BY <1>0, <1>8 DEF Poll, Return, Move, Others
<1>9. CASE UNCHANGED vars
  BY <1>0, <1>9 DEF vars
<1> QED
  BY <1>1, <1>2, <1>3, <1>4, <1>5, <1>6, <1>7, <1>8, <1>9 DEF Next

LEMMA DeadInit == Init => DeadInv
BY DEF Init, DeadInv

LEMMA DeadStep == TypeOK /\ DeadInv /\ [Next]_vars => DeadInv'
<1> SUFFICES ASSUME TypeOK, DeadInv, [Next]_vars, NEW f \in closed'
             PROVE  (Returnable(f) =< mayReturn[f])'
  BY DEF DeadInv
<1> USE DEF TypeOK, Returnable
<1>1. ASSUME NEW e \in Endpoint, Close(e)
      PROVE  (Returnable(f) =< mayReturn[f])'
  <2>1. /\ mayReturn' = [mayReturn EXCEPT ![e] = Returnable(e)]
        /\ closed' = closed \cup {e} /\ UNCHANGED <<receiver, received>>
    BY <1>1 DEF Close
  <2> QED
    BY <2>1 DEF DeadInv
<1>2. ASSUME NEW e \in Endpoint,
             Receive(e) \/ Select(e) \/ Poll(e) \/ Return(e) \/ ReceiveFails(e)
      PROVE  (Returnable(f) =< mayReturn[f])'
  <2>1. f \in closed /\ Returnable(f) =< mayReturn[f] /\ mayReturn' = mayReturn
    BY <1>2 DEF DeadInv, Receive, Select, Poll, Return, ReceiveFails, Others
  <2>2. \/ receiver'[f] = receiver[f] /\ received'[f] = received[f]
        \/ receiver'[f] # "polled" /\ received'[f] \in Nat /\ received'[f] =< Returnable(f)
    BY <1>2, <2>1 DEF Receive, Select, Poll, Return, ReceiveFails, Move, Others
  <2> QED
    BY <2>1, <2>2
<1>3. CASE UNCHANGED <<closed, receiver, received, mayReturn>>
  BY <1>3 DEF DeadInv
<1> QED
  BY <1>1, <1>2, <1>3 DEF Next, Send, Listen, Fire, Deliver, vars

LEMMA NextIInv == IInv /\ [Next]_vars => IInv'
BY TypeStep, SpaceStep, ClosedStep, ExclusiveStep DEF IInv

-----------------------------------------------------------------------------
(* The theorems.                                                           *)

\* For any size of the inbox, and any endpoints: a callback never blocks on a
\* full inbox with the network's lock held (simulated_network.go:105, 124).
THEOREM NeverBlocks == Spec => []DeliverNeverBlocks
<1>1. IInv => DeliverNeverBlocks
  BY InboxAssumption DEF IInv, TypeOK, SpaceInv, Space, DeliverNeverBlocks
<1> QED
  BY <1>1, InitIInv, NextIInv, PTL DEF Spec

\* An address belongs to its open endpoint (simulated_network.go:59-79, 142).
THEOREM AddressesAreExclusive == Spec => []AddressExclusive
<1>1. IInv => AddressExclusive
  BY DEF IInv
<1> QED
  BY <1>1, InitIInv, NextIInv, PTL DEF Spec

\* No packet is duplicated, or delivered to a later endpoint of its address.
THEOREM Conservation == Spec => []PacketsConserved
BY InitIInv, NextIInv, ConservedStep, PTL DEF Spec

\* What waits in an inbox when its endpoint closes is never returned: only a
\* Receive past its last poll of done returns its packet (transport.go:57-67).
THEOREM InboxDies == Spec => []InboxDiesWithEndpoint
<1>1. TypeOK /\ DeadInv => InboxDiesWithEndpoint
  BY DEF TypeOK, DeadInv, Returnable, InboxDiesWithEndpoint
<1>2. IInv => TypeOK
  BY DEF IInv
<1> QED
  BY <1>1, <1>2, InitIInv, NextIInv, DeadInit, DeadStep, PTL DEF Spec
=============================================================================
