---------------------------- MODULE LookupProofs ----------------------------
(* Proofs about one iterative lookup (module Lookup), for every set of       *)
(* peers, every K and every Alpha.                                           *)
EXTENDS Lookup, TLAPS, FiniteSetTheorems

-----------------------------------------------------------------------------
(* The n closest of a set: how many they are, and what is left out.        *)

\* The members of S that are closer than p, and their number.
Before(S, p) == {q \in S : Rank[q] < Rank[p]}

Place(S) == [p \in S |-> Cardinality(Before(S, p))]

\* A set of candidates is finite.
LEMMA PeersFinite ==
  ASSUME NEW S \in SUBSET Peer
  PROVE  IsFiniteSet(S) /\ Cardinality(S) \in Nat
BY PeerAssumption, FS_Subset, FS_CardinalityType

\* A farther member has a later place.
LEMMA PlaceGrows ==
  ASSUME NEW S \in SUBSET Peer, NEW p \in S, NEW q \in S, Rank[p] < Rank[q]
  PROVE  Place(S)[p] < Place(S)[q]
<1>1. /\ Rank[p] \in Nat /\ Rank[q] \in Nat
      /\ \A x \in S : Rank[x] \in Nat
  BY RankAssumption
<1>2. Before(S, p) \in SUBSET Before(S, q)
  BY <1>1 DEF Before
<1>3. p \in Before(S, q) /\ p \notin Before(S, p)
  BY <1>1 DEF Before
<1>4. /\ IsFiniteSet(Before(S, q)) /\ Cardinality(Before(S, q)) \in Nat
      /\ Cardinality(Before(S, p)) \in Nat
  BY PeersFinite DEF Before
<1>5. Cardinality(Before(S, p)) # Cardinality(Before(S, q))
  BY <1>2, <1>3, <1>4, FS_Subset
<1>6. Cardinality(Before(S, p)) =< Cardinality(Before(S, q))
  BY <1>2, <1>4, FS_Subset
<1> QED
  BY <1>4, <1>5, <1>6 DEF Place

\* No two members share a place, and there are no more places than members.
LEMMA PlaceInjective ==
  ASSUME NEW S \in SUBSET Peer
  PROVE  Place(S) \in Injection(S, 0 .. Cardinality(S) - 1)
<1>1. IsFiniteSet(S) /\ Cardinality(S) \in Nat
  BY PeersFinite
<1>2. ASSUME NEW p \in S
      PROVE  Place(S)[p] \in 0 .. Cardinality(S) - 1
  <2>1. Before(S, p) \in SUBSET S /\ p \notin Before(S, p)
    <3>1. Rank[p] \in Nat
      BY RankAssumption
    <3> QED
      BY <3>1 DEF Before
  <2>2. Cardinality(Before(S, p)) \in Nat
    BY <2>1, PeersFinite
  <2>3. /\ Cardinality(Before(S, p)) =< Cardinality(S)
        /\ Cardinality(Before(S, p)) # Cardinality(S)
    BY <1>1, <2>1, FS_Subset
  <2> QED
    BY <1>1, <2>2, <2>3 DEF Place
<1>3. ASSUME NEW p \in S, NEW q \in S, Place(S)[p] = Place(S)[q]
      PROVE  p = q
  <2>1. Rank[p] \in Nat /\ Rank[q] \in Nat
    BY RankAssumption
  <2>2. Place(S)[p] \in Nat /\ Place(S)[q] \in Nat
    BY <1>1, <1>2
  <2>3. ~(Rank[p] < Rank[q]) /\ ~(Rank[q] < Rank[p])
    BY <1>3, <2>2, PlaceGrows
  <2>4. Rank[p] = Rank[q]
    BY <2>1, <2>3
  <2> QED
    BY <2>4, RankAssumption
<1>4. Place(S) \in [S -> 0 .. Cardinality(S) - 1]
  BY <1>2 DEF Place
<1> QED
  BY <1>3, <1>4 DEF Injection, IsInjective

\* Every place is taken.
LEMMA PlaceSurjective ==
  ASSUME NEW S \in SUBSET Peer
  PROVE  Place(S) \in Surjection(S, 0 .. Cardinality(S) - 1)
<1>1. IsFiniteSet(S) /\ Cardinality(S) \in Nat
  BY PeersFinite
<1>2. /\ IsFiniteSet(0 .. Cardinality(S) - 1)
      /\ Cardinality(0 .. Cardinality(S) - 1) = Cardinality(S)
  BY <1>1, FS_Interval
<1> QED
  BY <1>2, PlaceInjective, FS_Injection

\* At most n are chosen.
LEMMA ClosestBounded ==
  ASSUME NEW S \in SUBSET Peer, NEW n \in Nat
  PROVE  /\ Closest(S, n) \in SUBSET S
         /\ Cardinality(Closest(S, n)) =< n
<1> DEFINE C == Closest(S, n)
           f == [p \in C |-> Place(S)[p]]
<1>1. C \in SUBSET S
  BY DEF Closest
<1>2. \A p \in C : Place(S)[p] < n
  BY DEF Closest, Place, Before
<1>3. Place(S) \in [S -> Nat]
  <2>1. \A p \in S : Cardinality(Before(S, p)) \in Nat
    BY PeersFinite DEF Before
  <2> QED
    BY <2>1 DEF Place
<1>4. f \in Injection(C, 0 .. n - 1)
  <2>1. \A p \in C : f[p] \in 0 .. n - 1
    BY <1>1, <1>2, <1>3
  <2>2. \A p, q \in C : f[p] = f[q] => p = q
    BY <1>1, PlaceInjective DEF Injection, IsInjective
  <2> HIDE DEF C
  <2> QED
    BY <2>1, <2>2 DEF Injection, IsInjective
<1>5. IsFiniteSet(0 .. n - 1) /\ Cardinality(0 .. n - 1) = n
  BY FS_Interval
<1> HIDE DEF C, f
<1>6. Cardinality(C) =< n
  BY <1>4, <1>5, FS_Injection
<1> QED
  BY <1>1, <1>6 DEF C

\* One that is left out is farther than all that are chosen, and they are n.
LEMMA ClosestComplete ==
  ASSUME NEW S \in SUBSET Peer, NEW n \in Nat, NEW p \in S \ Closest(S, n)
  PROVE  /\ Cardinality(Closest(S, n)) = n
         /\ \A q \in Closest(S, n) : Rank[q] < Rank[p]
<1> DEFINE C == Closest(S, n)
           f == [q \in C |-> Place(S)[q]]
<1>1. Place(S) \in [S -> Nat]
  <2>1. \A q \in S : Cardinality(Before(S, q)) \in Nat
    BY PeersFinite DEF Before
  <2> QED
    BY <2>1 DEF Place
<1>2. /\ C \in SUBSET S
      /\ \A q \in S : q \in C <=> Place(S)[q] < n
  BY DEF Closest, Place, Before
<1>3. Place(S)[p] >= n
  BY <1>1, <1>2
<1>4. Place(S)[p] \in 0 .. Cardinality(S) - 1
  BY PlaceInjective DEF Injection
<1>5. \A q \in C : Rank[q] < Rank[p]
  <2> SUFFICES ASSUME NEW q \in C, ~(Rank[q] < Rank[p])
               PROVE  FALSE
    OBVIOUS
  <2>1. q \in S /\ Place(S)[q] < n
    BY <1>2
  <2>2. Rank[p] \in Nat /\ Rank[q] \in Nat
    BY <2>1, RankAssumption
  <2>3. Place(S)[p] =< Place(S)[q]
    <3>1. CASE Rank[p] = Rank[q]
      <4>1. p = q
        BY <3>1, <2>1, RankAssumption
      <4> QED
        BY <4>1, <1>1
    <3>2. CASE Rank[p] < Rank[q]
      <4>1. Place(S)[p] < Place(S)[q]
        BY <3>2, <2>1, PlaceGrows
      <4> QED
        BY <4>1, <2>1, <1>1
    <3> QED
      BY <3>1, <3>2, <2>2
  <2> QED
    BY <1>1, <1>3, <2>1, <2>3
<1>6. f \in Surjection(C, 0 .. n - 1)
  <2>1. ASSUME NEW i \in 0 .. n - 1
        PROVE  \E q \in C : f[q] = i
    <3>1. i \in 0 .. Cardinality(S) - 1
      <4>1. Cardinality(S) \in Nat
        BY PeersFinite
      <4> QED
        BY <4>1, <1>1, <1>3, <1>4
    <3>2. PICK q \in S : Place(S)[q] = i
      BY <3>1, PlaceSurjective DEF Surjection
    <3> QED
      BY <1>2, <3>2
  <2>2. \A q \in C : f[q] \in 0 .. n - 1
    BY <1>1, <1>2
  <2> HIDE DEF C
  <2> QED
    BY <2>1, <2>2 DEF Surjection
<1>7. IsFiniteSet(C) /\ Cardinality(C) \in Nat
  BY <1>2, PeersFinite
<1>8. Cardinality(0 .. n - 1) = n
  BY FS_Interval
<1> HIDE DEF f, C
<1>9. n =< Cardinality(C)
  BY <1>6, <1>7, <1>8, FS_Surjection
<1>10. Cardinality(C) =< n
  BY ClosestBounded DEF C
<1> QED
  BY <1>5, <1>7, <1>9, <1>10 DEF C

\* When none is chosen there is none to choose.
LEMMA ClosestEmpty ==
  ASSUME NEW S \in SUBSET Peer, NEW n \in Nat \ {0}, Closest(S, n) = {}
  PROVE  S = {}
<1> SUFFICES ASSUME NEW p \in S PROVE FALSE
  OBVIOUS
<1>1. Cardinality(Closest(S, n)) = n
  BY ClosestComplete
<1> QED
  BY <1>1, FS_EmptySet

-----------------------------------------------------------------------------
(* The inductive invariant.                                                *)

Pending == {p \in Peer : status[p] = "pending"}

\* The candidates are the contacts that the lookup knows or was told of.
CandidatesNamed ==
  \A p \in Peer : status[p] # "unknown" <=> p \in known \cup told

\* A candidate is probed when it leaves "unqueried", to which none returns.
ProbesCounted ==
  \A p \in Peer :
    asked[p] = IF status[p] \in {"unknown", "unqueried"} THEN 0 ELSE 1

BatchBounded ==
  /\ Cardinality(Pending) =< Alpha
  /\ pc # "drain" => Pending = {}

\* The routing table is not read yet.
NothingKnown == pc = "start" => known = {}

\* A probe sends one reply.
OneReplyEach == \A q, r \in replies : q.from = r.from => q = r

\* A value ends the lookup with its batch, and nothing else is called one.
ValueTaken ==
  /\ value # None => pc = "drain" \/ outcome = "value"
  /\ outcome = "value" => value # None

\* Only what ends the probes cuts them short.
CutExplained == cutShort # {} => stopped # "no" \/ value # None

\* What is true when the loop finds no batch stays true.
VerdictGrounded ==
  /\ outcome # "none" <=> pc = "done"
  /\ outcome \in {"contacts", "ErrNoReachableContacts", "ErrValueNotFound"} =>
       cutShort = {} /\ Batch = {}
  /\ outcome = "contacts" => result = Shortlist /\ Shortlist # {}
  /\ outcome = "ErrValueNotFound" => Shortlist # {}

LookupInv ==
  /\ TypeOK /\ CandidatesNamed /\ ProbesCounted /\ BatchBounded
  /\ NothingKnown /\ OneReplyEach /\ ValueTaken /\ CutExplained /\ VerdictGrounded

\* The batch is chosen from the candidates that are not asked yet.
LEMMA BatchFacts ==
  ASSUME TypeOK
  PROVE  /\ Shortlist \in SUBSET Peer
         /\ Batch \in SUBSET Shortlist
         /\ \A p \in Batch : status[p] = "unqueried"
         /\ Cardinality(Batch) =< Alpha
<1> DEFINE S == {p \in Shortlist : status[p] = "unqueried"}
<1>1. Shortlist \in SUBSET Peer
  BY DEF Shortlist, Closest
<1>2. S \in SUBSET Peer /\ Alpha \in Nat
  BY <1>1, ParallelismAssumption
<1> HIDE DEF S
<1>3. Closest(S, Alpha) \in SUBSET S /\ Cardinality(Closest(S, Alpha)) =< Alpha
  BY <1>2, ClosestBounded
<1> QED
  BY <1>1, <1>3 DEF Batch, S

\* A goroutine of a probe runs only while the loop drains its batch.
LEMMA ProbingDrains ==
  ASSUME LookupInv, NEW p \in Peer, status[p] = "pending"
  PROVE  pc = "drain" /\ outcome = "none"
BY DEF LookupInv, BatchBounded, VerdictGrounded, Pending, TypeOK

LEMMA InitLookupInv == Init => LookupInv
<1> SUFFICES ASSUME Init PROVE LookupInv
  OBVIOUS
<1>1. TypeOK
  BY NoneAssumption DEF Init, TypeOK, Status, Stopped, Outcome, Reply
<1>2. CandidatesNamed /\ ProbesCounted
  BY DEF Init, CandidatesNamed, ProbesCounted
<1>3. BatchBounded
  <2>1. Pending = {}
    BY DEF Init, Pending
  <2> QED
    BY <2>1, FS_EmptySet, ParallelismAssumption DEF BatchBounded
<1>4. NothingKnown /\ OneReplyEach /\ ValueTaken /\ CutExplained /\ VerdictGrounded
  BY DEF Init, NothingKnown, OneReplyEach, ValueTaken, CutExplained, VerdictGrounded
<1> QED
  BY <1>1, <1>2, <1>3, <1>4 DEF LookupInv

\* The node finds the value in its own store.
LEMMA LocalHitKeeps == LookupInv /\ LocalHit => LookupInv'
<1> SUFFICES ASSUME LookupInv, LocalHit PROVE LookupInv'
  OBVIOUS
<1> USE DEF LookupInv, LocalHit, Return
<1>1. TypeOK'
  BY DEF TypeOK, Outcome
<1>2. CandidatesNamed' /\ ProbesCounted' /\ BatchBounded'
  BY DEF CandidatesNamed, ProbesCounted, BatchBounded, Pending
<1>3. NothingKnown' /\ OneReplyEach' /\ ValueTaken'
  BY NoneAssumption DEF NothingKnown, OneReplyEach, ValueTaken
<1>4. CutExplained' /\ VerdictGrounded'
  BY NoneAssumption DEF CutExplained, VerdictGrounded
<1> QED
  BY <1>1, <1>2, <1>3, <1>4

\* The first candidates come from the routing table.
LEMMA StartKeeps == LookupInv /\ Start => LookupInv'
<1> SUFFICES ASSUME LookupInv, Start PROVE LookupInv'
  OBVIOUS
<1> USE DEF LookupInv, Start, Return
<1>1. Pending = {} /\ pc = "start" /\ pc' # "drain" /\ pc' # "start"
  BY DEF BatchBounded
<1>2. /\ status' \in [Peer -> Status] /\ known' \in SUBSET Peer
      /\ \A p \in Peer : status'[p] = IF p \in known' /\ status[p] = "unknown"
                                       THEN "unqueried" ELSE status[p]
  <2>1. CASE UNCHANGED <<status, known>>
    BY <2>1 DEF TypeOK, CandidatesNamed
  <2>2. CASE \E S \in SUBSET Peer : known' = S /\ status' = Added(status, S)
    BY <2>2 DEF TypeOK, Added, Status
  <2> QED
    BY <2>1, <2>2
<1>3. known \subseteq known' /\ told' = told /\ asked' = asked
  <2>1. known = {}
    BY <1>1 DEF NothingKnown
  <2> QED
    BY <2>1
<1>4. TypeOK'
  <2>1. replies = {}
    BY <1>1 DEF TypeOK, Reply, Pending
  <2> QED
    BY <1>2, <2>1 DEF TypeOK, Outcome
<1>7. CandidatesNamed' /\ ProbesCounted'
  BY <1>2, <1>3 DEF CandidatesNamed, ProbesCounted
<1>8. Pending' = {}
  BY <1>1, <1>2 DEF Pending
<1>5. BatchBounded'
  BY <1>8, FS_EmptySet, ParallelismAssumption DEF BatchBounded
<1>6. NothingKnown' /\ OneReplyEach' /\ ValueTaken' /\ CutExplained' /\ VerdictGrounded'
  BY <1>1 DEF NothingKnown, OneReplyEach, ValueTaken, CutExplained, VerdictGrounded
<1> QED
  BY <1>4, <1>5, <1>6, <1>7

\* The loop is told to stop.
LEMMA SelectStoppedKeeps == LookupInv /\ SelectStopped => LookupInv'
<1> SUFFICES ASSUME LookupInv, SelectStopped PROVE LookupInv'
  OBVIOUS
<1> USE DEF LookupInv, SelectStopped, Return
<1>1. TypeOK'
  BY DEF TypeOK, Outcome
<1>2. CandidatesNamed' /\ ProbesCounted' /\ BatchBounded'
  BY DEF CandidatesNamed, ProbesCounted, BatchBounded, Pending
<1>3. NothingKnown' /\ OneReplyEach' /\ ValueTaken' /\ CutExplained' /\ VerdictGrounded'
  BY DEF NothingKnown, OneReplyEach, ValueTaken, CutExplained, VerdictGrounded
<1> QED
  BY <1>1, <1>2, <1>3

\* A batch of candidates becomes pending.
LEMMA SelectBatchKeeps == LookupInv /\ SelectBatch => LookupInv'
<1> SUFFICES ASSUME LookupInv, SelectBatch PROVE LookupInv'
  OBVIOUS
<1> USE DEF LookupInv
<1>1. /\ Batch \in SUBSET Peer /\ \A p \in Batch : status[p] = "unqueried"
      /\ Cardinality(Batch) =< Alpha
  BY BatchFacts
<1>2. /\ pc = "select" /\ pc' = "drain" /\ outcome = "none" /\ value = None
      /\ status' = [p \in Peer |-> IF p \in Batch THEN "pending" ELSE status[p]]
      /\ asked' = [p \in Peer |-> IF p \in Batch THEN asked[p] + 1 ELSE asked[p]]
      /\ UNCHANGED <<findValue, replies, value, stopped, outcome, result, known,
                     told, cutShort>>
  BY DEF SelectBatch, ValueTaken, VerdictGrounded, TypeOK
<1>3. TypeOK'
  BY <1>1, <1>2 DEF TypeOK, Status, Reply
<1>4. CandidatesNamed' /\ ProbesCounted'
  BY <1>1, <1>2 DEF CandidatesNamed, ProbesCounted, TypeOK
<1>5. Pending' = Batch
  BY <1>1, <1>2 DEF Pending, BatchBounded
<1>6. BatchBounded'
  BY <1>1, <1>2, <1>5 DEF BatchBounded
<1>7. NothingKnown' /\ OneReplyEach' /\ ValueTaken' /\ CutExplained' /\ VerdictGrounded'
  BY <1>2 DEF NothingKnown, OneReplyEach, ValueTaken, CutExplained, VerdictGrounded
<1> QED
  BY <1>3, <1>4, <1>6, <1>7

\* No candidate of the shortlist is left to ask: the verdict.
LEMMA SelectResultKeeps == LookupInv /\ SelectResult => LookupInv'
<1> SUFFICES ASSUME LookupInv, SelectResult PROVE LookupInv'
  OBVIOUS
<1> USE DEF LookupInv
<1>1. /\ pc = "select" /\ pc' = "done" /\ stopped = "no" /\ Batch = {}
      /\ UNCHANGED <<findValue, status, replies, value, stopped, known, told,
                     asked, cutShort>>
      /\ \/ /\ Shortlist = {}
            /\ outcome' = "ErrNoReachableContacts" /\ result' = result
         \/ /\ Shortlist # {}
            /\ outcome' = "ErrValueNotFound" /\ result' = result
         \/ /\ Shortlist # {}
            /\ outcome' = "contacts" /\ result' = Shortlist
  BY DEF SelectResult, Return
<1>2. outcome = "none" /\ value = None /\ cutShort = {}
  BY <1>1 DEF NothingKnown, OneReplyEach, ValueTaken, CutExplained, VerdictGrounded
<1>3. Shortlist' = Shortlist /\ Batch' = Batch
  BY <1>1 DEF Shortlist, Batch
<1>4. TypeOK'
  <2>1. Shortlist \in SUBSET Peer
    BY BatchFacts
  <2> QED
    BY <1>1, <2>1 DEF TypeOK, Outcome
<1>5. CandidatesNamed' /\ ProbesCounted' /\ BatchBounded'
  BY <1>1 DEF CandidatesNamed, ProbesCounted, BatchBounded, Pending
<1>6. NothingKnown' /\ OneReplyEach' /\ ValueTaken' /\ CutExplained'
  BY <1>1, <1>2 DEF NothingKnown, OneReplyEach, ValueTaken, CutExplained
<1>7. VerdictGrounded'
  BY <1>1, <1>2, <1>3 DEF VerdictGrounded
<1> QED
  BY <1>4, <1>5, <1>6, <1>7

\* One reply is taken.
LEMMA DrainKeeps ==
  ASSUME LookupInv, NEW r \in replies, Drain(r)
  PROVE  LookupInv'
<1> USE DEF LookupInv
<1>1. r \in Reply /\ status[r.from] = "pending" /\ r.from \in Peer
  BY DEF TypeOK, Reply
<1>2. /\ pc = "drain" /\ outcome = "none"
      /\ replies' = replies \ {r}
      /\ UNCHANGED <<pc, findValue, stopped, outcome, result, known, asked,
                     cutShort>>
  BY <1>1, ProbingDrains DEF Drain
<1>3. /\ value' = IF r.ok /\ r.found /\ value = None THEN r.from ELSE value
      /\ told' = IF r.ok THEN told \cup r.contacts ELSE told
  BY DEF Drain
<1>4. /\ status' \in [Peer -> Status]
      /\ status'[r.from] \in {"responded", "failed"}
      /\ \A p \in Peer \ {r.from} :
           status'[p] = IF r.ok /\ p \in r.contacts /\ status[p] = "unknown"
                          THEN "unqueried" ELSE status[p]
  BY <1>1 DEF Drain, Added, TypeOK, Status
<1>5. TypeOK'
  <2>1. \A q \in replies' : q.from # r.from /\ status'[q.from] = "pending"
    BY <1>1, <1>2, <1>4 DEF TypeOK, Reply, OneReplyEach
  <2> QED
    BY <1>1, <1>2, <1>3, <1>4, <2>1 DEF TypeOK, Reply
<1>6. CandidatesNamed' /\ ProbesCounted'
  BY <1>1, <1>2, <1>3, <1>4 DEF CandidatesNamed, ProbesCounted, Reply
<1>7. BatchBounded'
  <2>1. Pending' \in SUBSET Pending
    BY <1>1, <1>4 DEF Pending
  <2>2. Pending \in SUBSET Peer /\ Pending' \in SUBSET Peer
    BY DEF Pending
  <2>3. /\ Cardinality(Pending') =< Cardinality(Pending)
        /\ Cardinality(Pending') \in Nat /\ Cardinality(Pending) \in Nat
    BY <2>1, <2>2, PeersFinite, FS_Subset
  <2> QED
    BY <1>2, <2>3, ParallelismAssumption DEF BatchBounded
<1>8. NothingKnown' /\ OneReplyEach' /\ ValueTaken' /\ CutExplained' /\ VerdictGrounded'
  BY <1>1, <1>2, <1>3, PeerAssumption DEF NothingKnown, OneReplyEach, ValueTaken, CutExplained, VerdictGrounded
<1> QED
  BY <1>5, <1>6, <1>7, <1>8

\* The batch is drained.
LEMMA EndBatchKeeps == LookupInv /\ EndBatch => LookupInv'
<1> SUFFICES ASSUME LookupInv, EndBatch PROVE LookupInv'
  OBVIOUS
<1> USE DEF LookupInv, EndBatch, Return
<1>1. Pending = {} /\ outcome = "none" /\ pc' \in {"done", "select"}
  BY DEF Pending, VerdictGrounded
<1>2. TypeOK'
  BY DEF TypeOK, Outcome
<1>3. CandidatesNamed' /\ ProbesCounted'
  BY DEF CandidatesNamed, ProbesCounted
<1>4. Pending' = Pending
  BY DEF Pending
<1>5. BatchBounded'
  BY <1>1, <1>4 DEF BatchBounded
<1>6. NothingKnown' /\ OneReplyEach' /\ ValueTaken' /\ CutExplained' /\ VerdictGrounded'
  BY <1>1 DEF NothingKnown, OneReplyEach, ValueTaken, CutExplained, VerdictGrounded
<1> QED
  BY <1>2, <1>3, <1>5, <1>6

\* A probe puts its reply.
LEMMA PutKeeps ==
  ASSUME LookupInv, NEW p \in Peer, Probing(p), NEW r \in Reply, r.from = p, Put(r),
         cutShort' \in SUBSET Peer,
         cutShort' # cutShort => stopped # "no" \/ value # None
  PROVE  LookupInv'
<1> USE DEF LookupInv, Put
<1>1. status[p] = "pending" /\ pc = "drain" /\ outcome = "none"
  BY ProbingDrains DEF Probing
<1>2. TypeOK'
  BY <1>1 DEF TypeOK
<1>3. CandidatesNamed' /\ ProbesCounted' /\ BatchBounded'
  BY DEF CandidatesNamed, ProbesCounted, BatchBounded, Pending
<1>4. NothingKnown' /\ OneReplyEach' /\ ValueTaken' /\ CutExplained' /\ VerdictGrounded'
  BY <1>1 DEF NothingKnown, Probing, OneReplyEach, ValueTaken, CutExplained, VerdictGrounded
<1> QED
  BY <1>2, <1>3, <1>4

LEMMA ProbeKeeps ==
  ASSUME LookupInv, NEW p \in Peer, Probe(p)
  PROVE  LookupInv'
<1>1. cutShort \in SUBSET Peer
  BY DEF LookupInv, TypeOK
<1>2. CASE Answers(p)
  <2>1. PICK r \in Reply : r.from = p /\ Put(r) /\ Probing(p) /\ cutShort' = cutShort
    BY <1>2 DEF Answers, Reply
  <2> QED
    BY <1>1, <2>1, PutKeeps
<1>3. CASE Fails(p)
  <2>1. Failure(p) \in Reply /\ Failure(p).from = p
    BY DEF Failure, Reply
  <2> QED
    BY <1>1, <1>3, <2>1, PutKeeps DEF Fails
<1>4. CASE Interrupted(p)
  <2>1. Failure(p) \in Reply /\ Failure(p).from = p
    BY DEF Failure, Reply
  <2>2. cutShort' \in SUBSET Peer
    BY <1>1, <1>4 DEF Interrupted
  <2> QED
    BY <1>4, <2>1, <2>2, PutKeeps DEF Interrupted
<1> QED
  BY <1>2, <1>3, <1>4 DEF Probe

\* Something ends the lookup, or nothing happens.
LEMMA StopKeeps ==
  ASSUME LookupInv, Stop \/ UNCHANGED vars
  PROVE  LookupInv'
<1> USE DEF LookupInv, Stop, vars
<1>1. TypeOK'
  BY DEF TypeOK, Stopped
<1>2. CandidatesNamed' /\ ProbesCounted' /\ BatchBounded'
  BY DEF CandidatesNamed, ProbesCounted, BatchBounded, Pending
<1>3. Shortlist' = Shortlist /\ Batch' = Batch
  BY DEF Shortlist, Batch
<1>4. NothingKnown' /\ OneReplyEach' /\ ValueTaken' /\ CutExplained'
  BY DEF NothingKnown, OneReplyEach, ValueTaken, CutExplained
<1>5. VerdictGrounded'
  BY <1>3 DEF VerdictGrounded
<1> QED
  BY <1>1, <1>2, <1>4, <1>5

LEMMA NextLookupInv == LookupInv /\ [Next]_vars => LookupInv'
<1> SUFFICES ASSUME LookupInv, [Next]_vars PROVE LookupInv'
  OBVIOUS
<1>1. CASE Loop
  BY <1>1, LocalHitKeeps, StartKeeps, SelectStoppedKeeps, SelectBatchKeeps,
     SelectResultKeeps, DrainKeeps, EndBatchKeeps DEF Loop
<1>2. CASE \E p \in Peer : Probe(p)
  BY <1>2, ProbeKeeps
<1>3. CASE Stop \/ Terminated \/ UNCHANGED vars
  BY <1>3, StopKeeps DEF Terminated
<1> QED
  BY <1>1, <1>2, <1>3 DEF Next

LEMMA LookupInvariant == Spec => []LookupInv
<1> QED
  BY InitLookupInv, NextLookupInv, PTL DEF Spec

-----------------------------------------------------------------------------
(* What a lookup promises.                                                 *)

\* The candidates that have not failed.
Live == {p \in Peer : status[p] \notin {"unknown", "failed"}}

\* When no batch is left to ask and none is pending, the shortlist has answered.
LEMMA NoBatchAllResponded ==
  ASSUME LookupInv, Batch = {}, pc # "drain"
  PROVE  \A p \in Shortlist : status[p] = "responded"
<1> DEFINE S == {p \in Shortlist : status[p] = "unqueried"}
<1>1. Shortlist \in SUBSET Peer
  BY BatchFacts DEF LookupInv
<1>2. S \in SUBSET Peer /\ Alpha \in Nat \ {0} /\ Closest(S, Alpha) = {}
  BY <1>1, ParallelismAssumption DEF Batch
<1>3. S = {}
  <2> HIDE DEF S
  <2> QED
    BY <1>2, ClosestEmpty
<1>4. \A p \in Shortlist : p \in Peer /\ status[p] \in Status \ {"unknown", "failed"}
  BY DEF Shortlist, Closest, LookupInv, TypeOK
<1>5. \A p \in Shortlist : status[p] # "pending"
  BY <1>4 DEF LookupInv, BatchBounded, Pending
<1> QED
  BY <1>3, <1>4, <1>5 DEF Status

\* The shortlist is the K closest of the candidates that have not failed.
LEMMA ShortlistFacts ==
  ASSUME LookupInv
  PROVE  /\ Cardinality(Shortlist) =< K
         /\ \A p \in Live \ Shortlist : /\ Cardinality(Shortlist) = K
                                        /\ \A q \in Shortlist : Rank[q] < Rank[p]
<1>1. Live \in SUBSET Peer /\ K \in Nat /\ Shortlist = Closest(Live, K)
  BY ParallelismAssumption DEF Live, Shortlist
<1> QED
  BY <1>1, ClosestBounded, ClosestComplete

\* Every variable holds a value of its type, and a reply in the channel is that
\* of a probe the loop still awaits (lookup.go).
THEOREM LookupTypeCorrect == Spec => []TypeOK
<1>1. LookupInv => TypeOK
  BY DEF LookupInv
<1> QED
  BY <1>1, LookupInvariant, PTL

\* The contacts that FindNode returns are the K closest responsive peers of all
\* that the node knew or was told of, whatever the peers answer and in whatever
\* order their answers come (lookup.go:42).
THEOREM LookupReturnsClosest == Spec => []ResultIsClosest
<1>1. LookupInv => ResultIsClosest
  <2> SUFFICES ASSUME LookupInv, outcome = "contacts"
               PROVE  /\ result # {} /\ Cardinality(result) =< K
                      /\ \A p \in result : status[p] = "responded"
                      /\ \A p \in (known \cup told) \ result :
                           \/ status[p] = "failed"
                           \/ /\ Cardinality(result) = K
                              /\ \A q \in result : Rank[q] < Rank[p]
    BY DEF ResultIsClosest
  <2>1. /\ pc = "done" /\ Batch = {}
        /\ result = Shortlist /\ Shortlist # {}
    BY DEF LookupInv, VerdictGrounded
  <2>2. \A p \in result : status[p] = "responded"
    BY <2>1, NoBatchAllResponded
  <2>3. ASSUME NEW p \in (known \cup told) \ result, status[p] # "failed"
        PROVE  p \in Live \ Shortlist
    <3>1. p \in Peer /\ status[p] # "unknown"
      BY DEF LookupInv, TypeOK, CandidatesNamed
    <3> QED
      BY <3>1, <2>1, <2>3 DEF Live
  <2> QED
    BY <2>1, <2>2, <2>3, ShortlistFacts
<1> QED
  BY <1>1, LookupInvariant, PTL

\* A verdict on the network rests on no probe that a cancellation, Close or a
\* value cut short (lookup.go:91, 117-126).
THEOREM LookupIsHonest == Spec => []VerdictsAreHonest
<1>1. LookupInv => VerdictsAreHonest
  BY DEF LookupInv, VerdictGrounded, VerdictsAreHonest
<1> QED
  BY <1>1, LookupInvariant, PTL

\* A value that reached the lookup is what it returns, and "not found" is only
\* said when the closest responsive peers have all answered (lookup_data.go).
THEOREM LookupKeepsValue == Spec => []ValueNotLost
<1>1. LookupInv => ValueNotLost
  <2> SUFFICES ASSUME LookupInv, pc = "done"
               PROVE  /\ value # None <=> outcome = "value"
                      /\ outcome = "ErrValueNotFound" =>
                           /\ told \cup known # {}
                           /\ \A p \in Closest({q \in known \cup told :
                                                 status[q] # "failed"}, K) :
                                status[p] = "responded"
    BY DEF ValueNotLost
  <2>1. value # None <=> outcome = "value"
    BY DEF LookupInv, ValueTaken
  <2>2. ASSUME outcome = "ErrValueNotFound"
        PROVE  /\ told \cup known # {}
               /\ \A p \in Closest({q \in known \cup told : status[q] # "failed"}, K) :
                    status[p] = "responded"
    <3>1. Batch = {} /\ Shortlist # {}
      BY <2>2 DEF LookupInv, VerdictGrounded
    <3>2. Live = {q \in known \cup told : status[q] # "failed"}
      BY DEF Live, LookupInv, CandidatesNamed, TypeOK
    <3>3. Shortlist = Closest(Live, K) /\ Shortlist \subseteq Live
      BY DEF Shortlist, Live, Closest
    <3>4. \A p \in Shortlist : status[p] = "responded"
      BY <3>1, NoBatchAllResponded
    <3> QED
      BY <3>1, <3>2, <3>3, <3>4
  <2> QED
    BY <2>1, <2>2
<1> QED
  BY <1>1, LookupInvariant, PTL

\* No peer is probed twice in a lookup, no more than Alpha at a time, and none
\* is still being probed when the lookup returns (lookup.go:39, 147).
THEOREM LookupProbesBounded == Spec => []ProbesBounded
<1>1. LookupInv => ProbesBounded
  BY DEF LookupInv, ProbesCounted, BatchBounded, Pending, ProbesBounded
<1> QED
  BY <1>1, LookupInvariant, PTL
=============================================================================
