------------------------------- MODULE Handoff -------------------------------
(***************************************************************************)
(* The hand-off queue of one node and the goroutine that serves it         *)
(* (handoff.go): receivers and callers observe peers, handoffLoop sends    *)
(* each new peer the stored values and registry heads it has become        *)
(* responsible for.                                                        *)
(*                                                                         *)
(* The routing table (module Network) and the store change under the       *)
(* hands of the loop: contacts and stored are read at the lines that read  *)
(* them and may change anywhere in between.  STORE and REGISTRY_UPDATE are *)
(* calls that return with or without an error (NetworkProps, CallsReturn). *)
(***************************************************************************)
EXTENDS Integers, Sequences, FiniteSets

CONSTANTS Peer, Self,
          Value, HeadKey, \* keys: of values, and of the heads of packages
          Distance,      \* [Value \cup HeadKey -> [Peer \cup {Self} -> Nat]]
          K,
          QueueSize,     \* handoffQueueSize
          HistorySize,   \* handoffHistorySize
          None

Key == Value \cup HeadKey

ASSUME PeerAssumption == IsFiniteSet(Peer) /\ Self \notin Peer /\ None \notin Peer
ASSUME KeyAssumption == Value \cap HeadKey = {}
ASSUME DistanceAssumption ==
  /\ Distance \in [Key -> [Peer \cup {Self} -> Nat]]
  /\ \A k \in Key : \A p, q \in Peer \cup {Self} :
       Distance[k][p] = Distance[k][q] => p = q
ASSUME SizeAssumption == QueueSize \in Nat /\ HistorySize \in Nat \ {0}
ASSUME KAssumption == K \in Nat \ {0}

VARIABLES
  inbox,     \* the channel of peers waiting for handoffLoop
  pending,   \* handoffQueue.pending
  recent,    \* the list order, front first; the map recent holds its elements
  contacts,  \* the peers of the routing table
  stored,    \* the keys of dataStore and registry
  pc,        \* the position of handoffLoop
  peer,      \* the peer it serves
  todo,      \* the rest of the snapshot it iterates over
  sending,   \* the key whose call is under way
  done,      \* network.done is closed
  owed,      \* history: the keys held when the transfer began, for which peer
             \* has been eligible all along
  offered,   \* history: the keys sent to peer
  served     \* history: the peers whose transfer has ended since they were
             \* last queued

vars == <<inbox, pending, recent, contacts, stored, pc, peer, todo, sending,
          done, owed, offered, served>>

queue == <<inbox, pending, recent>>
loop == <<pc, peer, todo, sending>>

ToSet(s) == {s[i] : i \in DOMAIN s}

\* The list s with its element i moved to the front.
MoveToFront(s, i) ==
  [j \in 1 .. Len(s) |-> IF j = 1 THEN s[i] ELSE IF j =< i THEN s[j - 1] ELSE s[j]]

Init ==
  /\ inbox = << >> /\ pending = {} /\ recent = << >>
  /\ contacts = {} /\ stored = {}
  /\ pc = "idle" /\ peer = None /\ todo = {} /\ sending = None
  /\ done = FALSE
  /\ owed = {} /\ offered = {} /\ served = {}

-----------------------------------------------------------------------------
(* observe, under queue.mu.                                                *)

\* Fault: nothing is ever forgotten.
RememberedForever(p) == << p >> \o recent

\* p moves to the front; beyond HistorySize, the oldest is forgotten.
Remembered(p) ==
  LET s == << p >> \o recent
  IN  IF Len(s) > HistorySize THEN SubSeq(s, 1, Len(s) - 1) ELSE s

\* A peer that is remembered only becomes the most recent one.
ObserveKnown(p) ==
  /\ \E i \in DOMAIN recent : recent[i] = p /\ recent' = MoveToFront(recent, i)
  /\ UNCHANGED <<inbox, pending, contacts, stored, loop, done, owed, offered,
                 served>>

\* Fault: the pending map is not consulted.
ObserveTwice(p) ==
  /\ p \notin ToSet(recent)
  /\ Len(inbox) < QueueSize
  /\ inbox' = Append(inbox, p)
  /\ pending' = pending \cup {p}
  /\ recent' = Remembered(p)
  /\ served' = served \ {p}
  /\ UNCHANGED <<contacts, stored, loop, done, owed, offered>>

\* Fault: a peer that finds the queue full is remembered all the same.
ObserveMarks(p) ==
  /\ p \notin ToSet(recent) /\ p \notin pending
  /\ recent' = Remembered(p)
  /\ served' = served \ {p}
  /\ IF Len(inbox) < QueueSize
       THEN inbox' = Append(inbox, p) /\ pending' = pending \cup {p}
       ELSE UNCHANGED <<inbox, pending>>
  /\ UNCHANGED <<contacts, stored, loop, done, owed, offered>>

\* A new peer is queued if there is room.  A peer that is pending, or finds
\* the queue full, changes nothing.
ObserveNew(p) ==
  /\ p \notin ToSet(recent) /\ p \notin pending
  /\ Len(inbox) < QueueSize
  /\ inbox' = Append(inbox, p)
  /\ pending' = pending \cup {p}
  /\ recent' = Remembered(p)
  /\ served' = served \ {p}
  /\ UNCHANGED <<contacts, stored, loop, done, owed, offered>>

-----------------------------------------------------------------------------
(* handoffLoop and transferToNewPeer.                                      *)

\* handoffEligible: the new peer p would be among the K closest to k, and no
\* other known node is closer to k than this one.
Eligible(p, k, known) ==
  LET others == known \ {p}
  IN  /\ \A c \in others : Distance[k][c] > Distance[k][Self]
      /\ Cardinality({c \in others \cup {Self} : Distance[k][c] < Distance[k][p]}) < K

\* The loop takes a peer and a snapshot of the values.
Take ==
  /\ pc = "idle"
  /\ inbox # << >>
  /\ peer' = Head(inbox)
  /\ inbox' = Tail(inbox)
  /\ pc' = "values"
  /\ todo' = stored \cap Value
  /\ owed' = {k \in stored : Eligible(peer', k, contacts)}
  /\ offered' = {}
  /\ UNCHANGED <<pending, recent, contacts, stored, sending, done, served>>

\* One key of the snapshot k is drawn, and sent if peer is eligible for it now.
Draw(k) ==
  /\ sending = None
  /\ todo' = todo \ {k}
  /\ IF Eligible(peer, k, contacts)
       THEN sending' = k /\ offered' = offered \cup {k}
       ELSE UNCHANGED <<sending, offered>>
  /\ UNCHANGED <<queue, contacts, stored, pc, peer, done, owed, served>>

\* The values; done is polled before each of them.
DrawValue(k) == pc = "values" /\ ~done /\ k \in todo /\ Draw(k)

\* The deferred function sends the heads; after done its calls fail at once.
DrawHead(k) == pc = "heads" /\ k \in todo /\ Draw(k)

\* Fault: a failed call ends the transfer.
CallEndsTransfer ==
  /\ sending # None
  /\ sending' = None
  /\ \/ UNCHANGED todo
     \/ todo' = {}
  /\ UNCHANGED <<queue, contacts, stored, pc, peer, done, owed, offered, served>>

\* The call returns.  An error is logged; after done it ends the values, as the
\* next poll of done would.
CallReturns ==
  /\ sending # None
  /\ sending' = None
  /\ UNCHANGED <<queue, contacts, stored, pc, peer, todo, done, owed, offered,
                 served>>

\* The end of the values; the snapshot of the heads is only taken now.
Heads ==
  /\ pc = "values" /\ sending = None
  /\ todo = {} \/ done
  /\ pc' = "heads"
  /\ todo' = stored \cap HeadKey
  /\ UNCHANGED <<queue, contacts, stored, peer, sending, done, owed, offered,
                 served>>

\* Fault: the peer remains pending.
FinishKeepsPending ==
  /\ pc = "heads" /\ todo = {} /\ sending = None
  /\ pc' = "idle" /\ peer' = None
  /\ served' = served \cup {peer}
  /\ owed' = {} /\ offered' = {}
  /\ UNCHANGED <<queue, contacts, stored, todo, sending, done>>

\* The peer is not pending any more, again under queue.mu.
Finish ==
  /\ pc = "heads" /\ todo = {} /\ sending = None
  /\ pc' = "idle" /\ peer' = None
  /\ served' = served \cup {peer}
  /\ pending' = pending \ {peer}
  /\ owed' = {} /\ offered' = {}
  /\ UNCHANGED <<inbox, recent, contacts, stored, todo, sending, done>>

\* Fault: the loop serves its queue before it stops.
StopsWhenServed ==
  /\ pc = "idle" /\ done /\ inbox = << >>
  /\ pc' = "stopped"
  /\ UNCHANGED <<queue, contacts, stored, peer, todo, sending, done, owed, offered,
                 served>>

\* The select of the loop: done may be chosen although peers are waiting.
Stops ==
  /\ pc = "idle" /\ done
  /\ pc' = "stopped"
  /\ UNCHANGED <<queue, contacts, stored, peer, todo, sending, done, owed, offered,
                 served>>

-----------------------------------------------------------------------------
(* The rest of the node.                                                   *)

\* A store, a replica or a registry update arrives; nothing is ever removed.
Put(k) ==
  /\ stored' = stored \cup {k}
  /\ UNCHANGED <<queue, contacts, loop, done, owed, offered, served>>

\* The routing table gains or loses a peer.
Learn(p) ==
  /\ p \notin contacts /\ contacts' = contacts \cup {p}
  /\ owed' = {k \in owed : Eligible(peer, k, contacts')}
  /\ UNCHANGED <<queue, stored, loop, done, offered, served>>

Forget(p) ==
  /\ p \in contacts /\ contacts' = contacts \ {p}
  /\ owed' = {k \in owed : Eligible(peer, k, contacts')}
  /\ UNCHANGED <<queue, stored, loop, done, offered, served>>

Shutdown ==
  /\ ~done /\ done' = TRUE
  /\ UNCHANGED <<queue, contacts, stored, loop, owed, offered, served>>

-----------------------------------------------------------------------------
Transfer ==
  \/ Take
  \/ \E k \in todo : DrawValue(k) \/ DrawHead(k)
  \/ CallReturns \/ Heads \/ Finish

Observe(p) == ObserveKnown(p) \/ ObserveNew(p)

Next ==
  \/ Transfer \/ Stops
  \/ \E p \in Peer : Observe(p) \/ Learn(p) \/ Forget(p)
  \/ \E k \in Key : Put(k)
  \/ Shutdown

Spec == Init /\ [][Next]_vars

\* The loop is a goroutine, and its calls return.  select chooses at random
\* among the cases that are ready: done cannot be passed over for ever.
FairSpec == Spec /\ WF_vars(Transfer) /\ SF_vars(Stops)

-----------------------------------------------------------------------------
(* What the queue promises.                                                *)

\* The type invariant, with the bounds on the queue and on its memory.
TypeOK ==
  /\ inbox \in Seq(Peer) /\ Len(inbox) =< QueueSize
  /\ pending \in SUBSET Peer
  /\ recent \in Seq(Peer) /\ Len(recent) =< HistorySize
  /\ contacts \in SUBSET Peer
  /\ stored \in SUBSET Key
  /\ pc \in {"idle", "values", "heads", "stopped"}
  /\ peer \in Peer \cup {None}
  /\ todo \in SUBSET Key
  /\ sending \in Key \cup {None}
  /\ done \in BOOLEAN
  /\ owed \in SUBSET Key /\ offered \in SUBSET Key /\ served \in SUBSET Peer

\* "Pending peers cannot be queued twice" (handoff.go:16): pending is exactly
\* the queue and the peer being served, each of them once, even when a peer is
\* forgotten by recent while it still waits; and recent has no peer twice.
QueueExact ==
  /\ pending = ToSet(inbox) \cup ({peer} \ {None})
  /\ \A i, j \in DOMAIN inbox : inbox[i] = inbox[j] => i = j
  /\ peer \notin ToSet(inbox)
  /\ \A i, j \in DOMAIN recent : recent[i] = recent[j] => i = j

\* "If the queue is full, leave the peer unmarked so later traffic can retry
\* admission" (handoff.go:35): a peer that is remembered, and whose further
\* traffic is therefore ignored, still waits or has been served since it was
\* last queued; it is not remembered instead of being served.
RememberedIsServed == ToSet(recent) \subseteq pending \cup served

\* A transfer that is not cut short by the end of the node has sent its peer
\* every value and head that the node held when it began and for which the
\* peer stayed eligible, whatever calls failed on the way.
OwedIsOffered ==
  pc = "heads" /\ todo = {} /\ sending = None /\ ~done => owed \subseteq offered

\* A queued peer is served, unless the node is closed.
PendingServed == \A p \in Peer : p \in pending ~> (p \notin pending \/ done)

\* Close waits for handoffLoop, which stops although peers keep arriving.
HandoffStops == done ~> pc = "stopped"
=============================================================================
