---------------------------- MODULE StorageProofs ----------------------------
(* Proof that a call of Store that returns nil has left a copy at each of its *)
(* targets, for any nodes, distances, batches, limits and faults.            *)
EXTENDS Storage, TLAPS

\* The parts of a call belong to its targets; who has acknowledged has the
\* value (is in H), or crashed later, and admits the value.
Tracked(c, H) ==
  /\ c.todo \subseteq c.targets
  /\ c.started \subseteq c.targets
  /\ c.sent \subseteq c.targets
  /\ c.stored \subseteq c.sent \cap Accepting \cap (H \cup c.crashed)

\* Until a failure is recorded, a target without the value is still to be served.
Covered(c, H) ==
  c.failed \/ \A t \in c.targets : t \in c.todo \cup c.started \cup c.sent \cup H \cup c.crashed

\* No call, no parts of one; a call that looks for its targets has no batch.
Unstarted(c) ==
  /\ c.pc = "idle" => c = NoCall
  /\ c.pc = "lookup" => c.started = {} /\ c.sent = {} /\ c.stored = {}

Sound(c, H) == c \in CallType /\ Tracked(c, H) /\ Covered(c, H) /\ Unstarted(c)

\* A node executes Store only if it admits the value.
Inv ==
  /\ TypeOK
  /\ \A n \in Node : Sound(call[n], holders)
  /\ \A n \in Node : call[n].pc # "idle" => n \in Accepting

-----------------------------------------------------------------------------
\* The n closest nodes of a set belong to it.
LEMMA ClosestInSet == \A S, n : Closest(S, n) \subseteq S
BY DEF Closest

\* A node without a call satisfies what the invariant says of calls.
LEMMA NoCallSound == \A H : Sound(NoCall, H)
BY DEF Sound, Tracked, Covered, Unstarted, CallType, NoCall

\* More copies do no harm.
LEMMA MoreCopies == ASSUME NEW c, NEW H, NEW G, H \subseteq G, Sound(c, H) PROVE Sound(c, G)
BY DEF Sound, Tracked, Covered, Unstarted

\* A step that changes the call of one node and takes no copy away.
LEMMA OneCall ==
  ASSUME Inv, NEW n \in Node, NEW c,
         call' = [call EXCEPT ![n] = c], Sound(c, holders'),
         c.pc # "idle" => n \in Accepting,
         holders \subseteq holders', holders' \subseteq up \cap Accepting, up' = up,
         requests' \subseteq Node \X Node, UNCHANGED <<crashes, calm, handed>>
  PROVE  Inv'
<1>1. \A m \in Node : call'[m] = IF m = n THEN c ELSE call[m]
  BY DEF Inv, TypeOK
<1>2. \A m \in Node : Sound(call'[m], holders')
  BY <1>1, MoreCopies DEF Inv
<1>3. \A m \in Node : call'[m].pc # "idle" => m \in Accepting
  BY <1>1 DEF Inv
<1>4. c \in CallType
  BY DEF Sound
<1>5. TypeOK'
  BY <1>4 DEF Inv, TypeOK
<1> QED
  BY <1>2, <1>3, <1>5 DEF Inv

\* The same, of a step that only the call sees.
LEMMA CallMoves ==
  ASSUME Inv, NEW n \in Node, NEW c,
         call' = [call EXCEPT ![n] = c], Sound(c, holders),
         c.pc # "idle" => n \in Accepting,
         UNCHANGED <<up, holders, requests, crashes, calm, handed>>
  PROVE  Inv'
<1>1. holders \subseteq up \cap Accepting /\ requests \subseteq Node \X Node
  BY DEF Inv, TypeOK
<1> QED
  BY <1>1, OneCall

-----------------------------------------------------------------------------
\* The invariant holds initially.
LEMMA InitialInv == Init => Inv
<1> SUFFICES ASSUME Init PROVE Inv
  OBVIOUS
<1>1. call = [n \in Node |-> NoCall]
  BY DEF Init
<1>2. NoCall \in CallType
  BY DEF NoCall, CallType
<1>3. call \in [Node -> CallType]
  BY <1>1, <1>2
<1>4. up \subseteq Node /\ holders \subseteq up \cap Accepting /\ requests \subseteq Node \X Node
      /\ handed \subseteq Node
  BY StorageAssumption DEF Init
<1>5. crashes \in 0..MaxCrashes /\ calm \in BOOLEAN
  <2>1. crashes = 0 /\ calm = FALSE
    BY DEF Init
  <2>2. MaxCrashes \in Nat
    BY StorageAssumption
  <2>3. crashes \in 0..MaxCrashes
    BY <2>1, <2>2
  <2> QED
    BY <2>1, <2>3
<1>6. \A n \in Node : Sound(call[n], holders)
  BY <1>1, NoCallSound
<1>7. \A n \in Node : call[n].pc = "idle"
  BY <1>1 DEF NoCall
<1> QED
  BY <1>3, <1>4, <1>5, <1>6, <1>7 DEF Inv, TypeOK

\* Every step of a call keeps it.
LEMMA CallKeepsInv == ASSUME Inv, NEW n \in Node, CallStep(n) PROVE Inv'
<1> DEFINE d == call[n]
<1>1. Sound(d, holders) /\ d \in CallType
  BY DEF Inv, Sound
<1>2. d.pc # "idle" => n \in Accepting
  BY DEF Inv
<1>3. call = [m \in Node |-> call[m]]
  BY DEF Inv, TypeOK
<1>4. NoCall.pc = "idle"
  BY DEF NoCall
<1>5. holders \subseteq up \cap Accepting /\ requests \subseteq Node \X Node
  BY DEF Inv, TypeOK
<1>0. d.pc # "idle"
  BY DEF CallStep, SelectTargets, LookupStopped, NextBatch, Break, Return, Over, Work,
         Acknowledged, Unacknowledged, Calling
<1>6. CASE SelectTargets(n)
  <2>1. PICK found \in SUBSET Node :
          call' = [call EXCEPT ![n].pc = "batches",
                               ![n].targets = Closest(found \cup {n}, K),
                               ![n].todo = Closest(found \cup {n}, K)]
    <3>1. up \subseteq Node
      BY DEF Inv, TypeOK
    <3>2. Closest(up \ {n}, K) \subseteq Node
      BY <3>1, ClosestInSet
    <3>3. \A found \in IF calm THEN {Closest(up \ {n}, K)} ELSE SUBSET (up \ {n}) :
            found \in SUBSET Node
      BY <3>1, <3>2
    <3> QED
      BY <1>6, <3>3, Zenon DEF SelectTargets
  <2> DEFINE T == Closest(found \cup {n}, K)
             c == [d EXCEPT !.pc = "batches", !.targets = T, !.todo = T]
  <2>2. T \subseteq Node
    BY ClosestInSet
  <2> HIDE DEF T
  <2>3. call' = [call EXCEPT ![n] = c]
    BY <1>3, <2>1 DEF T
  <2>4. d.sent = {} /\ d.started = {} /\ d.stored = {}
    BY <1>0, <1>1, <1>6 DEF SelectTargets, Sound, Unstarted
  <2>5. Sound(c, holders)
    BY <1>0, <1>1, <2>2, <2>4 DEF Sound, Tracked, Covered, Unstarted, CallType
  <2>6. n \in Accepting
    BY <1>2, <1>6 DEF SelectTargets
  <2> QED
    BY <1>6, <2>3, <2>5, <2>6, CallMoves DEF SelectTargets
<1>7. CASE LookupStopped(n)
  BY <1>4, <1>7, NoCallSound, CallMoves DEF LookupStopped
<1>8. CASE NextBatch(n)
  <2> DEFINE B == Closest(d.todo, Alpha)
             c == [d EXCEPT !.todo = @ \ B, !.started = B]
  <2>1. B \subseteq d.todo
    BY ClosestInSet
  <2> HIDE DEF B
  <2>2. call' = [call EXCEPT ![n] = c]
    BY <1>3, <1>8 DEF NextBatch, B
  <2>3. d.pc = "batches" /\ d.started = {} /\ d.sent = {}
    BY <1>8 DEF NextBatch, Drained
  <2>4. Sound(c, holders) /\ c.pc = d.pc
    BY <1>0, <1>1, <2>1, <2>3 DEF Sound, Tracked, Covered, Unstarted, CallType
  <2> QED
    BY <1>2, <1>8, <2>2, <2>4, CallMoves DEF NextBatch
<1>9. CASE Break(n)
  <2> DEFINE c == [d EXCEPT !.todo = {}, !.failed = TRUE]
  <2>1. call' = [call EXCEPT ![n] = c]
    BY <1>3, <1>9 DEF Break
  <2>2. Sound(c, holders) /\ c.pc = d.pc
    BY <1>0, <1>1 DEF Sound, Tracked, Covered, Unstarted, CallType
  <2> QED
    BY <1>2, <1>9, <2>1, <2>2, CallMoves DEF Break
<1>10. CASE Return(n)
  BY <1>4, <1>10, NoCallSound, CallMoves DEF Return
<1>11. ASSUME NEW t \in Node, Work(n, t) PROVE Inv'
  <2>1. CASE d.cancelled
    <3> DEFINE c == [d EXCEPT !.started = @ \ {t}, !.failed = TRUE]
    <3>1. call' = [call EXCEPT ![n] = c]
      BY <1>3, <1>11, <2>1 DEF Work
    <3>2. Sound(c, holders) /\ c.pc = d.pc
      BY <1>0, <1>1 DEF Sound, Tracked, Covered, Unstarted, CallType
    <3> QED
      BY <1>2, <1>11, <2>1, <3>1, <3>2, CallMoves DEF Work
  <2>2. CASE ~d.cancelled /\ t = n
    <3> DEFINE c == [d EXCEPT !.started = @ \ {t}]
    <3>1. call' = [call EXCEPT ![n] = c] /\ holders' = holders \cup {n}
      BY <1>3, <1>11, <2>2 DEF Work
    <3>2. Sound(c, holders') /\ c.pc = d.pc
      BY <1>0, <1>1, <2>2, <3>1 DEF Sound, Tracked, Covered, Unstarted, CallType
    <3>3. n \in up /\ n \in Accepting
      BY <1>2, <1>11 DEF Work, Calling
    <3>4. up' = up /\ requests' = requests /\ UNCHANGED <<crashes, calm, handed>>
      BY <1>11, <2>2 DEF Work
    <3>5. holders \subseteq holders' /\ holders' \subseteq up \cap Accepting
      BY <1>5, <3>1, <3>3
    <3>6. requests' \subseteq Node \X Node
      BY <1>5, <3>4
    <3> HIDE DEF c, d
    <3> QED
      BY <3>1, <3>2, <3>3, <3>4, <3>5, <3>6, OneCall
  <2>3. CASE ~d.cancelled /\ t # n
    <3> DEFINE c == [d EXCEPT !.started = @ \ {t}, !.sent = @ \cup {t}]
    <3>1. call' = [call EXCEPT ![n] = c]
      BY <1>3, <1>11, <2>3 DEF Work
    <3>2. t \in d.started /\ n \in Accepting
      BY <1>2, <1>11 DEF Work, Calling
    <3>3. Sound(c, holders)
      BY <1>0, <1>1, <3>2 DEF Sound, Tracked, Covered, Unstarted, CallType
    <3>4. holders' = holders /\ up' = up /\ requests' = requests \cup {<<n, t>>}
          /\ UNCHANGED <<crashes, calm, handed>>
      BY <1>11, <2>3 DEF Work
    <3>5. requests' \subseteq Node \X Node
      BY <1>5, <3>4
    <3> HIDE DEF c, d
    <3> QED
      BY <1>5, <3>1, <3>2, <3>3, <3>4, <3>5, OneCall
  <2> QED
    BY <2>1, <2>2, <2>3, <1>1 DEF CallType
<1>12. ASSUME NEW t \in Node, Acknowledged(n, t) PROVE Inv'
  <2> DEFINE c == [d EXCEPT !.sent = @ \ {t}, !.stored = @ \ {t}]
  <2>1. call' = [call EXCEPT ![n] = c]
    BY <1>3, <1>12 DEF Acknowledged
  <2>2. t \in d.stored
    BY <1>12 DEF Acknowledged
  <2>3. Sound(c, holders) /\ c.pc = d.pc
    BY <1>0, <1>1, <2>2 DEF Sound, Tracked, Covered, Unstarted, CallType
  <2> QED
    BY <1>2, <1>12, <2>1, <2>3, CallMoves DEF Acknowledged
<1>13. ASSUME NEW t \in Node, Unacknowledged(n, t) PROVE Inv'
  <2> DEFINE c == [d EXCEPT !.sent = @ \ {t}, !.stored = @ \ {t}, !.failed = TRUE]
  <2>1. call' = [call EXCEPT ![n] = c]
    BY <1>3, <1>13 DEF Unacknowledged
  <2>2. Sound(c, holders) /\ c.pc = d.pc
    BY <1>0, <1>1 DEF Sound, Tracked, Covered, Unstarted, CallType
  <2> QED
    BY <1>2, <1>13, <2>1, <2>2, CallMoves DEF Unacknowledged
<1> QED
  BY <1>6, <1>7, <1>8, <1>9, <1>10, <1>11, <1>12, <1>13 DEF CallStep

\* A call starts, or is cancelled.
LEMMA BeginKeepsInv == ASSUME Inv, NEW n \in Node, StartStore(n) \/ Cancel(n) PROVE Inv'
<1> DEFINE d == call[n]
<1>1. Sound(d, holders) /\ d \in CallType /\ (d.pc # "idle" => n \in Accepting)
  BY DEF Inv, Sound
<1>2. call = [m \in Node |-> call[m]]
  BY DEF Inv, TypeOK
<1>3. CASE StartStore(n)
  <2> DEFINE c == [d EXCEPT !.pc = "lookup"]
  <2>1. call' = [call EXCEPT ![n] = c]
    BY <1>2, <1>3 DEF StartStore
  <2>2. d.pc = "idle"
    BY <1>3 DEF StartStore
  <2>3. d = NoCall
    BY <1>1, <2>2 DEF Sound, Unstarted
  <2>6. d.targets = {} /\ d.todo = {} /\ d.started = {} /\ d.sent = {} /\ d.stored = {}
    BY <2>3 DEF NoCall
  <2>4. Sound(c, holders)
    BY <1>1, <2>6 DEF Sound, Tracked, Covered, Unstarted, CallType
  <2>5. n \in Accepting
    BY <1>3, StorageAssumption DEF StartStore, Inv, TypeOK
  <2> QED
    BY <1>3, <2>1, <2>4, <2>5, CallMoves DEF StartStore
<1>4. CASE Cancel(n)
  <2> DEFINE c == [d EXCEPT !.cancelled = TRUE]
  <2>1. call' = [call EXCEPT ![n] = c]
    BY <1>2, <1>4 DEF Cancel
  <2>3. d.pc # "idle"
    BY <1>4 DEF Cancel, Calling
  <2>2. Sound(c, holders) /\ c.pc = d.pc
    BY <1>1, <2>3 DEF Sound, Tracked, Covered, Unstarted, CallType
  <2> QED
    BY <1>1, <1>4, <2>1, <2>2, CallMoves DEF Cancel
<1> QED
  BY <1>3, <1>4

\* A request arrives.
LEMMA DeliverKeepsInv == ASSUME Inv, NEW n \in Node, NEW t \in Node, Deliver(n, t) PROVE Inv'
<1> DEFINE d == call[n]
           c == IF t \notin d.sent THEN d
                ELSE IF t \in Accepting THEN [d EXCEPT !.stored = @ \cup {t}]
                ELSE [d EXCEPT !.sent = @ \ {t}, !.failed = TRUE]
<1>1. Sound(d, holders) /\ d \in CallType /\ (d.pc # "idle" => n \in Accepting)
  BY DEF Inv, Sound
<1>2. d.stored \subseteq holders \cup d.crashed /\ holders \subseteq Accepting
  BY <1>1 DEF Sound, Tracked, Inv, TypeOK
<1>3. call' = [call EXCEPT ![n] = c]
  BY Zenon DEF Deliver
<1>4. holders' = holders \cup ({t} \cap Accepting) /\ up' = up /\ t \in up
      /\ requests' = requests \ {<<n, t>>} /\ UNCHANGED <<crashes, calm, handed>>
  BY DEF Deliver
<1>5. Sound(c, holders') /\ c.pc = d.pc
  <2>1. CASE t \notin d.sent
    BY <1>1, <1>4, <2>1, MoreCopies
  <2>2. CASE t \in d.sent /\ t \in Accepting
    <3>1. t \in holders' /\ d.pc # "idle" /\ d.pc # "lookup"
      BY <1>1, <1>4, <2>2 DEF Sound, Unstarted, NoCall
    <3> QED
      BY <1>1, <1>4, <2>2, <3>1 DEF Sound, Tracked, Covered, Unstarted, CallType
  <2>3. CASE t \in d.sent /\ t \notin Accepting
    <3>1. t \notin d.stored /\ holders' = holders /\ d.pc # "idle" /\ d.pc # "lookup"
      BY <1>1, <1>4, <2>3 DEF Sound, Tracked, Unstarted, NoCall
    <3> QED
      BY <1>1, <2>3, <3>1 DEF Sound, Tracked, Covered, Unstarted, CallType
  <2> QED
    BY <2>1, <2>2, <2>3
<1>6. holders \subseteq holders' /\ holders' \subseteq up \cap Accepting
  BY <1>4 DEF Inv, TypeOK
<1>7. requests' \subseteq Node \X Node
  BY <1>4 DEF Inv, TypeOK
<1> HIDE DEF c, d
<1> QED
  BY <1>1, <1>3, <1>4, <1>5, <1>6, <1>7, OneCall

\* A request is lost, a node starts, a hand-off is sent or the faults stop.
LEMMA RestKeepsInv ==
  ASSUME Inv, UNCHANGED <<holders, call>>, requests' \subseteq requests,
         up \subseteq up', up' \subseteq Node, handed' \subseteq Node,
         crashes' = crashes, calm' \in BOOLEAN
  PROVE  Inv'
BY DEF Inv, TypeOK

\* A hand-off ends with one copy more, or with none.
LEMMA HandOffKeepsInv == ASSUME Inv, NEW t \in Node, HandOffEnds(t) PROVE Inv'
<1>1. /\ holders \subseteq holders' /\ holders' \subseteq up \cap Accepting
      /\ UNCHANGED <<up, call, requests, crashes, calm>>
  BY DEF HandOffEnds, Inv, TypeOK
<1>2. handed' \subseteq Node
  BY DEF HandOffEnds, Inv, TypeOK
<1>3. TypeOK'
  BY <1>1, <1>2 DEF Inv, TypeOK
<1>4. \A n \in Node : Sound(call[n], holders')
  BY <1>1, MoreCopies DEF Inv
<1> QED
  BY <1>1, <1>3, <1>4 DEF Inv

\* A node crashes: it takes its copy with it, and its call, and those that have it
\* for a target know.
LEMMA CrashKeepsInv == ASSUME Inv, NEW x \in Node, Crash(x) PROVE Inv'
<1> DEFINE c(m) == IF m = x THEN NoCall
                   ELSE IF x \in call[m].targets THEN [call[m] EXCEPT !.crashed = @ \cup {x}]
                   ELSE call[m]
<1>1. call' = [m \in Node |-> c(m)] /\ holders' = holders \ {x} /\ up' = up \ {x}
      /\ crashes' = crashes + 1 /\ crashes < MaxCrashes /\ UNCHANGED <<requests, calm, handed>>
  BY DEF Crash
<1>2. ASSUME NEW m \in Node PROVE Sound(c(m), holders') /\ (c(m).pc # "idle" => m \in Accepting)
  <2> DEFINE d == call[m]
  <2>1. Sound(d, holders) /\ d \in CallType /\ (d.pc # "idle" => m \in Accepting)
    BY DEF Inv, Sound
  <2>2. CASE m = x
    BY <2>2, NoCallSound DEF NoCall
  <2>3. CASE m # x /\ x \in d.targets
    <3>1. d.pc # "idle"
      BY <2>1, <2>3 DEF Sound, Unstarted, NoCall
    <3>2. c(m) = [d EXCEPT !.crashed = @ \cup {x}]
      BY <2>3
    <3> HIDE DEF c
    <3>3. Sound(c(m), holders')
      BY <1>1, <2>1, <2>3, <3>1, <3>2 DEF Sound, Tracked, Covered, Unstarted, CallType
    <3>4. c(m).pc = d.pc
      BY <2>1, <3>2 DEF CallType
    <3> QED
      BY <2>1, <3>3, <3>4
  <2>4. CASE m # x /\ x \notin d.targets
    <3>1. c(m) = d
      BY <2>4
    <3> HIDE DEF c
    <3>2. Sound(d, holders')
      BY <1>1, <2>1, <2>4 DEF Sound, Tracked, Covered, Unstarted
    <3> QED
      BY <2>1, <3>1, <3>2
  <2> QED
    BY <2>2, <2>3, <2>4
<1> HIDE DEF c
<1>3. \A m \in Node : call'[m] = c(m)
  BY <1>1
<1>4. call' \in [Node -> CallType]
  BY <1>1, <1>2 DEF Sound
<1>5. crashes' \in 0..MaxCrashes
  BY <1>1, StorageAssumption DEF Inv, TypeOK
<1>6. TypeOK'
  BY <1>1, <1>4, <1>5 DEF Inv, TypeOK
<1> QED
  BY <1>2, <1>3, <1>6 DEF Inv

-----------------------------------------------------------------------------
\* The strengthening is inductive.
LEMMA StepKeepsInv == ASSUME Inv, [Next]_vars PROVE Inv'
<1>1. ASSUME NEW n \in Node, StartStore(n) \/ CallStep(n) \/ Cancel(n) \/ Crash(n) PROVE Inv'
  BY <1>1, BeginKeepsInv, CallKeepsInv, CrashKeepsInv
<1>2. ASSUME NEW n \in Node, Start(n) PROVE Inv'
  BY <1>2, RestKeepsInv DEF Start, Inv, TypeOK
<1>3. ASSUME NEW n \in Node, NEW t \in Node, Deliver(n, t) PROVE Inv'
  BY <1>3, DeliverKeepsInv
<1>4. ASSUME NEW n \in Node, NEW t \in Node, Lose(n, t) PROVE Inv'
  BY <1>4, RestKeepsInv DEF Lose, Inv, TypeOK
<1>5. ASSUME NEW n \in Node, NEW t \in Node, HandOff(n, t) PROVE Inv'
  BY <1>5, RestKeepsInv DEF HandOff, Inv, TypeOK
<1>6. ASSUME NEW t \in Node, HandOffEnds(t) PROVE Inv'
  BY <1>6, HandOffKeepsInv
<1>7. CASE CalmDown
  BY <1>7, RestKeepsInv DEF CalmDown, Inv, TypeOK
<1>8. CASE UNCHANGED vars
  BY <1>8, RestKeepsInv DEF vars, Inv, TypeOK
<1> QED
  BY <1>1, <1>2, <1>3, <1>4, <1>5, <1>6, <1>7, <1>8 DEF Next

\* In every state of every behaviour.
LEMMA Invariance == Spec => []Inv
BY InitialInv, StepKeepsInv, PTL DEF Spec

\* Only running nodes that admit the value have it, and calls keep their shape.
THEOREM StorageTypeCorrect == Spec => []TypeOK
<1>1. Inv => TypeOK
  BY DEF Inv
<1> QED
  BY <1>1, Invariance, PTL

\* store.go:13 "nil error means every selected target acknowledged", and has the
\* value unless it crashed: for any nodes, limits, batch size, losses, crashes
\* and cancellations.
THEOREM NilMeansStored == Spec => []AcknowledgedStored
<1>1. Inv => AcknowledgedStored
  BY DEF Inv, Sound, Covered, AcknowledgedStored, Succeeds, Over, Drained
<1> QED
  BY <1>1, Invariance, PTL
=============================================================================
