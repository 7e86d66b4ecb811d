--------------------------- MODULE SimulatedNetwork ---------------------------
(***************************************************************************)
(* The in-process network of the tests and experiments                     *)
(* (simulated_network.go, and receiveDatagram of transport.go): endpoints  *)
(* that listen on an address, send, receive and close, and the timers that *)
(* carry packets with a latency.  SimulatedNetwork.mu makes every step but *)
(* Fire and those of Receive atomic.  What is in a packet does not matter  *)
(* here: packets are counted.                                              *)
(***************************************************************************)
EXTENDS Integers

CONSTANTS Endpoint,    \* the SimulatedTransports that are ever made
          Address,
          InboxSize,   \* simulatedInboxSize
          MaxSent,     \* bound: the packets accepted for one endpoint
          None

ASSUME EndpointAssumption == None \notin Endpoint /\ None \notin Address
ASSUME InboxAssumption == InboxSize \in Nat \ {0} /\ MaxSent \in Nat

VARIABLES
  latency,     \* Config.Latency is not zero
  endpoints,   \* SimulatedNetwork.endpoints
  address,     \* the address of each endpoint, None before Listen
  closed,      \* the endpoints that are closed
  inbox,       \* the packets in each inbox
  timers,      \* the size of each map of timers
  armed,       \* the timers that will fire
  fired,       \* the callbacks that have not run yet
  receiver,    \* the position of the goroutine in Receive
  sent,        \* history: the packets accepted for each endpoint
  dropped,     \* history: those that Close or a late callback dropped
  received,    \* history: those that Receive has returned
  mayReturn    \* history: for a closed endpoint, those that Receive had
               \* returned at its Close, and the one past the last poll of done

vars == <<latency, endpoints, address, closed, inbox, timers, armed, fired,
          receiver, sent, dropped, received, mayReturn>>

Listening(e) == address[e] # None /\ e \notin closed

Init ==
  /\ latency \in BOOLEAN
  /\ endpoints = [a \in Address |-> None]
  /\ address = [e \in Endpoint |-> None]
  /\ closed = {}
  /\ inbox = [e \in Endpoint |-> 0]
  /\ timers = [e \in Endpoint |-> 0]
  /\ armed = [e \in Endpoint |-> 0]
  /\ fired = [e \in Endpoint |-> 0]
  /\ receiver = [e \in Endpoint |-> "idle"]
  /\ sent = [e \in Endpoint |-> 0]
  /\ dropped = [e \in Endpoint |-> 0]
  /\ received = [e \in Endpoint |-> 0]
  /\ mayReturn = [e \in Endpoint |-> 0]

-----------------------------------------------------------------------------

\* An address that is in use is refused.
Listen(e, a) ==
  /\ address[e] = None
  /\ endpoints[a] = None
  /\ endpoints' = [endpoints EXCEPT ![a] = e]
  /\ address' = [address EXCEPT ![e] = a]
  /\ UNCHANGED <<latency, closed, inbox, timers, armed, fired, receiver, sent,
                 dropped, received, mayReturn>>

\* Fault: only the packets that have arrived count against the inbox.
HasSpaceNow(e) == inbox[e] < InboxSize

\* A slot of the inbox is reserved for every packet that is on its way.
HasSpace(e) == inbox[e] + timers[e] < InboxSize

\* Send by an open endpoint.  A packet that is lost, or that finds no endpoint
\* or no space, changes nothing.
Send(a) ==
  LET e == endpoints[a]
  IN  /\ \E from \in Endpoint : Listening(from)
      /\ e # None /\ HasSpace(e)
      /\ sent[e] < MaxSent
      /\ sent' = [sent EXCEPT ![e] = @ + 1]
      /\ \/ /\ ~latency
            /\ inbox' = [inbox EXCEPT ![e] = @ + 1]
            /\ UNCHANGED <<timers, armed>>
         \/ /\ latency
            /\ timers' = [timers EXCEPT ![e] = @ + 1]
            /\ armed' = [armed EXCEPT ![e] = @ + 1]
            /\ UNCHANGED inbox
      /\ UNCHANGED <<latency, endpoints, address, closed, fired, receiver,
                     dropped, received, mayReturn>>

\* The latency has passed: the callback runs, and waits for the lock.
Fire(e) ==
  /\ armed[e] > 0
  /\ armed' = [armed EXCEPT ![e] = @ - 1]
  /\ fired' = [fired EXCEPT ![e] = @ + 1]
  /\ UNCHANGED <<latency, endpoints, address, closed, inbox, timers, receiver,
                 sent, dropped, received, mayReturn>>

\* Fault: the packet goes to whoever has the address now.
DeliverByAddress(e) ==
  LET r == endpoints[address[e]]
  IN  /\ fired[e] > 0
      /\ fired' = [fired EXCEPT ![e] = @ - 1]
      /\ timers' = IF e \in closed THEN timers ELSE [timers EXCEPT ![e] = @ - 1]
      /\ IF r = None
           THEN dropped' = [dropped EXCEPT ![e] = @ + 1] /\ UNCHANGED inbox
           ELSE inbox' = [inbox EXCEPT ![r] = @ + 1] /\ UNCHANGED dropped
      /\ UNCHANGED <<latency, endpoints, address, closed, armed, receiver, sent,
                     received, mayReturn>>

\* The callback, under the lock: a closed endpoint, whose map has been cleared,
\* gets nothing.  The send on the inbox would block with the lock held.
Deliver(e) ==
  /\ fired[e] > 0
  /\ fired' = [fired EXCEPT ![e] = @ - 1]
  /\ IF e \in closed
       THEN dropped' = [dropped EXCEPT ![e] = @ + 1] /\ UNCHANGED <<timers, inbox>>
       ELSE /\ inbox[e] < InboxSize
            /\ timers' = [timers EXCEPT ![e] = @ - 1]
            /\ inbox' = [inbox EXCEPT ![e] = @ + 1]
            /\ UNCHANGED dropped
  /\ UNCHANGED <<latency, endpoints, address, closed, armed, receiver, sent,
                 received, mayReturn>>

\* The packets that Receive may have returned when all is over, if the endpoint
\* closes now: a Receive past its last poll of done returns its packet.
Returnable(e) == received[e] + (IF receiver[e] = "polled" THEN 1 ELSE 0)

\* Close frees the address, stops the timers that have not fired and clears
\* the map; what is in the inbox stays there.
Close(e) ==
  /\ Listening(e)
  /\ closed' = closed \cup {e}
  /\ endpoints' = [endpoints EXCEPT ![address[e]] = None]
  /\ dropped' = [dropped EXCEPT ![e] = @ + armed[e]]
  /\ armed' = [armed EXCEPT ![e] = 0]
  /\ timers' = [timers EXCEPT ![e] = 0]
  /\ mayReturn' = [mayReturn EXCEPT ![e] = Returnable(e)]
  /\ UNCHANGED <<latency, address, inbox, fired, receiver, sent, received>>

-----------------------------------------------------------------------------
(* receiveDatagram.                                                        *)

Move(e, from, to) ==
  /\ receiver[e] = from
  /\ receiver' = [receiver EXCEPT ![e] = to]

Others == <<latency, endpoints, address, closed, timers, armed, fired, sent,
            mayReturn>>

\* Receive polls done ...
Receive(e) ==
  /\ address[e] # None /\ e \notin closed
  /\ Move(e, "idle", "select")
  /\ UNCHANGED <<Others, inbox, dropped, received>>

\* ... takes a packet, even when done is closed by now ...
Select(e) ==
  /\ inbox[e] > 0
  /\ Move(e, "select", "taken")
  /\ inbox' = [inbox EXCEPT ![e] = @ - 1]
  /\ UNCHANGED <<Others, dropped, received>>

\* Fault: done is not polled again.
PollSkipped(e) ==
  /\ Move(e, "taken", "polled")
  /\ UNCHANGED <<Others, inbox, dropped, received>>

\* ... polls done again, and loses the packet if it is closed ...
Poll(e) ==
  /\ \/ e \notin closed /\ Move(e, "taken", "polled") /\ UNCHANGED dropped
     \/ /\ e \in closed /\ Move(e, "taken", "idle")
        /\ dropped' = [dropped EXCEPT ![e] = @ + 1]
  /\ UNCHANGED <<Others, inbox, received>>

\* ... and returns the packet, although Close may have come since.
Return(e) ==
  /\ Move(e, "polled", "idle")
  /\ received' = [received EXCEPT ![e] = @ + 1]
  /\ UNCHANGED <<Others, inbox, dropped>>

\* Receive returns net.ErrClosed, or the error of its context.
ReceiveFails(e) ==
  /\ Move(e, "select", "idle")
  /\ UNCHANGED <<Others, inbox, dropped, received>>

-----------------------------------------------------------------------------
Next ==
  \/ \E a \in Address : Send(a) \/ \E e \in Endpoint : Listen(e, a)
  \/ \E e \in Endpoint :
       \/ Fire(e) \/ Deliver(e) \/ Close(e)
       \/ Receive(e) \/ Select(e) \/ Poll(e) \/ Return(e) \/ ReceiveFails(e)

Spec == Init /\ [][Next]_vars

-----------------------------------------------------------------------------
(* What the network promises.                                              *)

\* The type invariant.
TypeOK ==
  /\ latency \in BOOLEAN
  /\ endpoints \in [Address -> Endpoint \cup {None}]
  /\ address \in [Endpoint -> Address \cup {None}]
  /\ closed \in SUBSET Endpoint
  /\ inbox \in [Endpoint -> Nat]
  /\ timers \in [Endpoint -> Nat]
  /\ armed \in [Endpoint -> Nat]
  /\ fired \in [Endpoint -> Nat]
  /\ receiver \in [Endpoint -> {"idle", "select", "taken", "polled"}]
  /\ sent \in [Endpoint -> Nat]
  /\ dropped \in [Endpoint -> Nat]
  /\ received \in [Endpoint -> Nat]
  /\ mayReturn \in [Endpoint -> Nat]

\* A callback, which holds the network's only lock, always finds a free slot
\* in the inbox: otherwise no endpoint could send, listen or close any more
\* (simulated_network.go:105, 124).
DeliverNeverBlocks ==
  \A e \in Endpoint : fired[e] > 0 /\ e \notin closed => inbox[e] < InboxSize

\* No packet is duplicated, and none reaches another endpoint than the one it
\* was accepted for, although its address may be reused while the packet is on
\* its way ("Closing its transport frees it for reuse",
\* simulated_network.go:59).
PacketsConserved ==
  \A e \in Endpoint :
    sent[e] = armed[e] + fired[e] + inbox[e] + dropped[e] + received[e]
                + (IF receiver[e] \in {"taken", "polled"} THEN 1 ELSE 0)

\* An address belongs to the open endpoint that listens on it, if any.
AddressExclusive ==
  \A a \in Address : \A e \in Endpoint :
    endpoints[a] = e <=> Listening(e) /\ address[e] = a

\* The packets in the inbox die with their endpoint: after Close, Receive returns
\* at most the one packet that was past the last poll of done by then, and none
\* that waited in the inbox or had only just been taken from it, although the
\* select may still take packets when done is closed (transport.go:57-67).
InboxDiesWithEndpoint == \A e \in closed : received[e] =< mayReturn[e]
=============================================================================
