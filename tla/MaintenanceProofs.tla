-------------------------- MODULE MaintenanceProofs --------------------------
(* Proofs about the maintenance of the node and the metric that it rests on: *)
(* what the code takes for granted of identifiers, for every width; the gate *)
(* is exclusive, Close leaves nothing running (QuietInv), and a pass looks   *)
(* up all that it is for (PassInv), for every number of callers and all keys *)
(* that the node holds.                                                      *)
EXTENDS MaintenanceProps, TLAPS, WellFoundedInduction, FunctionTheorems,
        FiniteSetTheorems

-----------------------------------------------------------------------------
(* Numbers: the place of a bit.                                            *)

\* Every set of naturals has a least member.
LEMMA LeastNatural ==
  ASSUME NEW T, T \subseteq Nat, T # {}
  PROVE  \E n \in T : \A m \in T : n <= m
<1> DEFINE R == OpToRel(<, Nat)
<1>1. \A x, y \in Nat : y < x => <<y, x>> \in R
  BY DEF OpToRel
<1>2. IsWellFoundedOn(R, Nat)
  BY NatLessThanWellFounded
<1> HIDE DEF R
<1>3. PICK n \in T : \A m \in T : ~ (<<m, n>> \in R)
  BY <1>2, WFMin
<1>4. ASSUME NEW m \in T PROVE n <= m
  <2>1. m \in Nat /\ n \in Nat
    OBVIOUS
  <2>2. ~ (m < n)
    BY <1>1, <1>3, <2>1
  <2>3. QED
    BY <2>1, <2>2
<1>5. QED
  BY <1>4

\* The byte and the weight at which BitAt reads.
LEMMA BitPlace ==
  ASSUME NEW n \in Bucket
  PROVE  /\ n \in Nat
         /\ n \div ByteBits \in Position
         /\ ByteBits - 1 - (n % ByteBits) \in Weight
         /\ n % ByteBits \in 0 .. ByteBits - 1
         /\ n = ByteBits * (n \div ByteBits) + (n % ByteBits)
<1>1. ByteBits \in Nat \ {0} /\ IDLength \in Nat \ {0} /\ n \in Nat
  BY WidthAssumption DEF Bucket
<1>2. /\ n = ByteBits * (n \div ByteBits) + (n % ByteBits)
      /\ n % ByteBits \in 0 .. ByteBits - 1
      /\ n \div ByteBits \in Nat
  BY <1>1
<1>3. n < IDLength * ByteBits
  BY <1>1 DEF Bucket
<1>4. n \div ByteBits < IDLength
  BY <1>1, <1>2, <1>3
<1>5. QED
  BY <1>1, <1>2, <1>4 DEF Position, Weight

\* The bit of a byte and a weight.
LEMMA PlaceOfBit ==
  ASSUME NEW i \in Position, NEW w \in Weight
  PROVE  \E m \in Bucket : /\ m = ByteBits * i + (ByteBits - 1 - w)
                           /\ m \div ByteBits = i
                           /\ ByteBits - 1 - (m % ByteBits) = w
<1> DEFINE m == ByteBits * i + (ByteBits - 1 - w)
<1>1. /\ ByteBits \in Nat \ {0} /\ IDLength \in Nat \ {0}
      /\ i \in Nat /\ i <= IDLength - 1
      /\ w \in Nat /\ w <= ByteBits - 1
  BY WidthAssumption DEF Position, Weight
<1>2. m \in Nat /\ m \div ByteBits = i /\ m % ByteBits = ByteBits - 1 - w
  BY <1>1
<1>3. ByteBits * i <= ByteBits * (IDLength - 1)
  BY <1>1
<1>4. m <= IDLength * ByteBits - 1
  BY <1>1, <1>3
<1>5. m \in Bucket
  BY <1>2, <1>4, <1>1 DEF Bucket
<1>6. QED
  BY <1>1, <1>2, <1>5

\* An earlier bit is in an earlier byte, or in the same byte and of greater
\* weight.
LEMMA BitOrder ==
  ASSUME NEW n \in Bucket, NEW m \in Bucket, m < n
  PROVE  \/ m \div ByteBits < n \div ByteBits
         \/ /\ m \div ByteBits = n \div ByteBits
            /\ m % ByteBits < n % ByteBits
<1>1. ByteBits \in Nat \ {0} /\ n \in Nat /\ m \in Nat
  BY WidthAssumption DEF Bucket
<1>2. /\ n = ByteBits * (n \div ByteBits) + (n % ByteBits)
      /\ n % ByteBits \in 0 .. ByteBits - 1
      /\ n \div ByteBits \in Int
  BY <1>1
<1>3. /\ m = ByteBits * (m \div ByteBits) + (m % ByteBits)
      /\ m % ByteBits \in 0 .. ByteBits - 1
      /\ m \div ByteBits \in Int
  BY <1>1
<1>4. QED
  BY <1>1, <1>2, <1>3

-----------------------------------------------------------------------------
(* Distances.                                                              *)

\* A distance is an ID.
LEMMA DistanceType ==
  ASSUME NEW x \in KademliaID, NEW y \in KademliaID
  PROVE  CalcDistance(x, y) \in KademliaID
BY DEF CalcDistance, KademliaID, Byte

\* A bit of an ID is 0 or 1.
LEMMA BitType ==
  ASSUME NEW x \in KademliaID, NEW n \in Bucket
  PROVE  BitAt(x, n) \in {0, 1}
BY BitPlace DEF BitAt, KademliaID, Byte

\* CalcDistance is its own inverse: refreshing with self XOR distance searches
\* at that distance.
LEMMA DistanceInverse ==
  ASSUME NEW x \in KademliaID, NEW d \in KademliaID
  PROVE  CalcDistance(CalcDistance(x, d), x) = d
<1> DEFINE y == CalcDistance(x, d)
<1>1. ASSUME NEW i \in Position, NEW w \in Weight
      PROVE  CalcDistance(y, x)[i][w] = d[i][w]
  <2>1. x[i][w] \in {0, 1} /\ d[i][w] \in {0, 1}
    BY DEF KademliaID, Byte
  <2>2. y[i][w] = IF x[i][w] = d[i][w] THEN 0 ELSE 1
    BY DEF CalcDistance
  <2>3. CalcDistance(y, x)[i][w] = IF y[i][w] = x[i][w] THEN 0 ELSE 1
    BY DEF CalcDistance
  <2>4. QED
    BY <2>1, <2>2, <2>3
<1>2. CalcDistance(y, x) \in KademliaID
  BY DistanceType
<1>3. ASSUME NEW i \in Position PROVE CalcDistance(y, x)[i] = d[i]
  <2>1. CalcDistance(y, x)[i] \in Byte /\ d[i] \in Byte
    BY <1>2 DEF KademliaID
  <2>2. QED
    BY <2>1, <1>1 DEF Byte
<1>4. QED
  BY <1>2, <1>3 DEF KademliaID
\* Two IDs at the same distance from a third are the same: the order in which
\* lookups, stores and hand-offs take peers has no ties.
THEOREM DistinctDistances ==
  ASSUME NEW x \in KademliaID, NEW y \in KademliaID, NEW t \in KademliaID,
         CalcDistance(x, t) = CalcDistance(y, t)
  PROVE  x = y
<1>1. ASSUME NEW i \in Position, NEW w \in Weight PROVE x[i][w] = y[i][w]
  <2>1. /\ x[i][w] \in {0, 1} /\ y[i][w] \in {0, 1} /\ t[i][w] \in {0, 1}
    BY DEF KademliaID, Byte
  <2>2. /\ CalcDistance(x, t)[i][w] = IF x[i][w] = t[i][w] THEN 0 ELSE 1
        /\ CalcDistance(y, t)[i][w] = IF y[i][w] = t[i][w] THEN 0 ELSE 1
    BY DEF CalcDistance
  <2>3. QED
    BY <2>1, <2>2
<1>2. ASSUME NEW i \in Position PROVE x[i] = y[i]
  <2>1. x[i] \in Byte /\ y[i] \in Byte
    BY DEF KademliaID
  <2>2. QED
    BY <2>1, <1>1 DEF Byte
<1>3. QED
  BY <1>2 DEF KademliaID

-----------------------------------------------------------------------------
(* Buckets.                                                                *)

\* getBucketIndex finds the first bit of the distance that is set, if any is.
LEMMA FirstBit ==
  ASSUME NEW self \in KademliaID, NEW id \in KademliaID
  PROVE  LET d == CalcDistance(id, self)
             k == GetBucketIndex(self, id)
         IN  /\ k \in Bucket
             /\ \A m \in Bucket : m < k => BitAt(d, m) = 0
             /\ \/ BitAt(d, k) = 1
                \/ /\ \A m \in Bucket : BitAt(d, m) = 0
                   /\ k = IDLength * ByteBits - 1
<1> DEFINE d == CalcDistance(id, self)
           k == GetBucketIndex(self, id)
           Ones == {n \in Bucket : BitAt(d, n) = 1}
<1>1. \A m \in Bucket : BitAt(d, m) \in {0, 1}
  BY DistanceType, BitType
<1>2. CASE Ones = {}
  <2>1. k = IDLength * ByteBits - 1
    BY <1>2 DEF GetBucketIndex
  <2>2. k \in Bucket
    <3>1. IDLength \in Nat \ {0} /\ ByteBits \in Nat \ {0}
      BY WidthAssumption
    <3>2. IDLength * ByteBits \in Nat /\ IDLength * ByteBits >= 1
      BY <3>1
    <3>3. QED
      BY <2>1, <3>2 DEF Bucket
  <2>3. \A m \in Bucket : BitAt(d, m) = 0
    BY <1>1, <1>2
  <2>4. QED
    BY <2>1, <2>2, <2>3
<1>3. CASE Ones # {}
  <2>1. Ones \subseteq Nat
    BY BitPlace
  <2>2. \E n \in Ones : \A m \in Ones : n <= m
    BY <1>3, <2>1, LeastNatural
  <2>3. k = CHOOSE n \in Ones : \A m \in Ones : n <= m
    BY <1>3 DEF GetBucketIndex
  <2>4. k \in Ones /\ \A m \in Ones : k <= m
    BY <2>2, <2>3
  <2>5. ASSUME NEW m \in Bucket, m < k PROVE BitAt(d, m) = 0
    <3>1. m \in Nat /\ k \in Nat
      BY <2>1, <2>4, BitPlace
    <3>2. m \notin Ones
      BY <2>4, <2>5, <3>1
    <3>3. QED
      BY <1>1, <3>2
  <2>6. QED
    BY <2>4, <2>5
<1>4. QED
  BY <1>2, <1>3

\* The bits of a masked distance: zero before the bucket's bit, one at it.
LEMMA MaskedBits ==
  ASSUME NEW random \in KademliaID, NEW index \in Bucket
  PROVE  LET d == MaskedDistance(random, index)
         IN  /\ d \in KademliaID
             /\ BitAt(d, index) = 1
             /\ \A m \in Bucket : m < index => BitAt(d, m) = 0
<1> DEFINE d == MaskedDistance(random, index)
           byteIndex == index \div ByteBits
           bit == ByteBits - 1 - (index % ByteBits)
<1>1. d \in KademliaID
  BY DEF MaskedDistance, KademliaID, Byte
<1>2. \A i \in Position, w \in Weight :
        d[i][w] = IF i < byteIndex THEN 0
                  ELSE IF i = byteIndex /\ w > bit THEN 0
                  ELSE IF i = byteIndex /\ w = bit THEN 1
                  ELSE random[i][w]
  BY DEF MaskedDistance
<1>3. byteIndex \in Position /\ bit \in Weight
  BY BitPlace
<1>4. byteIndex \in Int /\ bit \in Int
  BY <1>3 DEF Position, Weight
<1>5. BitAt(d, index) = 1
  <2>1. BitAt(d, index) = d[byteIndex][bit]
    BY DEF BitAt
  <2>2. ~ (byteIndex < byteIndex) /\ ~ (bit > bit)
    BY <1>4
  <2>3. QED
    BY <1>2, <1>3, <2>1, <2>2
<1>6. ASSUME NEW m \in Bucket, m < index PROVE BitAt(d, m) = 0
  <2> DEFINE i == m \div ByteBits
             w == ByteBits - 1 - (m % ByteBits)
  <2>1. i \in Position /\ w \in Weight
    BY BitPlace
  <2>2. BitAt(d, m) = d[i][w]
    BY DEF BitAt
  <2>3. i < byteIndex \/ (i = byteIndex /\ m % ByteBits < index % ByteBits)
    BY <1>6, BitOrder
  <2>4. m % ByteBits \in Int /\ index % ByteBits \in Int /\ ByteBits \in Int
    BY BitPlace, WidthAssumption
  <2>5. i < byteIndex \/ (i = byteIndex /\ w > bit)
    BY <2>3, <2>4
  <2>6. QED
    BY <1>2, <2>1, <2>2, <2>5
<1>7. QED
  BY <1>1, <1>5, <1>6

\* randomBucketTarget "preserves the shared prefix with self, flips the first
\* differing bit, and randomizes the lower bits"
\* (routing_maintenance.go:105-106): whatever the random bytes are, the target
\* belongs to the bucket being refreshed, so that the lookup resets its timer.
THEOREM RefreshTargetsBucket ==
  ASSUME NEW self \in KademliaID, NEW random \in KademliaID,
         NEW index \in Bucket
  PROVE  GetBucketIndex(self, RandomBucketTarget(self, index, random)) = index
<1> DEFINE d == MaskedDistance(random, index)
           id == RandomBucketTarget(self, index, random)
           k == GetBucketIndex(self, id)
<1>1. d \in KademliaID
  BY MaskedBits
<1>2. id \in KademliaID /\ CalcDistance(id, self) = d
  BY <1>1, DistanceType, DistanceInverse DEF RandomBucketTarget
<1> HIDE DEF d, id
<1>3. /\ k \in Bucket
      /\ \A m \in Bucket : m < k => BitAt(d, m) = 0
      /\ BitAt(d, k) = 1 \/ \A m \in Bucket : BitAt(d, m) = 0
  BY <1>2, FirstBit
<1>4. /\ BitAt(d, index) = 1
      /\ \A m \in Bucket : m < index => BitAt(d, m) = 0
  BY MaskedBits DEF d
<1>5. ~ (index < k)
  BY <1>3, <1>4
<1>6. ~ (k < index)
  BY <1>3, <1>4
<1>7. k \in Nat /\ index \in Nat
  BY <1>3, BitPlace
<1>8. QED
  BY <1>5, <1>6, <1>7 DEF k, id

\* "This implementation numbers the farthest bucket 0, so farther buckets have
\* LOWER indices" (maintenance.go:41-42): a peer in a lower bucket is farther
\* away than every peer in a higher one.
THEOREM LowerBucketIsFarther ==
  ASSUME NEW self \in KademliaID, NEW x \in KademliaID, NEW y \in KademliaID,
         GetBucketIndex(self, x) < GetBucketIndex(self, y)
  PROVE  Less(CalcDistance(y, self), CalcDistance(x, self))
<1> DEFINE dx == CalcDistance(x, self)
           dy == CalcDistance(y, self)
           n == GetBucketIndex(self, x)
           k == GetBucketIndex(self, y)
           i == n \div ByteBits
           w == ByteBits - 1 - (n % ByteBits)
<1>1. dx \in KademliaID /\ dy \in KademliaID
  BY DistanceType
<1>2. /\ n \in Bucket
      /\ \A m \in Bucket : m < n => BitAt(dx, m) = 0
      /\ BitAt(dx, n) = 1 \/ n = IDLength * ByteBits - 1
  BY FirstBit
<1>3. k \in Bucket /\ \A m \in Bucket : m < k => BitAt(dy, m) = 0
  BY FirstBit
<1>4. n < k /\ n \in Nat /\ k \in Nat
  BY <1>2, <1>3, BitPlace
<1> HIDE DEF dx, dy, n, k
<1>5. BitAt(dx, n) = 1
  <2>1. IDLength * ByteBits \in Int
    BY WidthAssumption
  <2>2. n < IDLength * ByteBits - 1
    BY <1>3, <1>4, <2>1 DEF Bucket
  <2>3. QED
    BY <1>2, <1>4, <2>1, <2>2
<1>6. i \in Position /\ w \in Weight
      /\ n = ByteBits * i + (ByteBits - 1 - w)
  <2>1. n % ByteBits \in Int /\ ByteBits \in Int
    BY <1>2, BitPlace, WidthAssumption
  <2>2. n = ByteBits * i + (n % ByteBits)
    BY <1>2, BitPlace
  <2>3. n % ByteBits = ByteBits - 1 - w
    BY <2>1
  <2>4. QED
    BY <1>2, <2>2, <2>3, BitPlace
<1>7. dx[i][w] = 1 /\ dy[i][w] = 0
  BY <1>2, <1>3, <1>4, <1>5 DEF BitAt
<1>8. ASSUME NEW j \in Position, NEW v \in Weight,
             j < i \/ (j = i /\ v > w)
      PROVE  dx[j][v] = dy[j][v]
  <2>1. PICK m \in Bucket : /\ m = ByteBits * j + (ByteBits - 1 - v)
                            /\ m \div ByteBits = j
                            /\ ByteBits - 1 - (m % ByteBits) = v
    BY PlaceOfBit
  <2>2. m < n
    <3> HIDE DEF i, w
    <3>1. /\ ByteBits \in Nat \ {0} /\ i \in Nat /\ j \in Nat
          /\ v \in 0 .. ByteBits - 1 /\ w \in 0 .. ByteBits - 1
      BY <1>6, WidthAssumption DEF Position, Weight
    <3>2. CASE j < i
      <4>1. ByteBits * (j + 1) <= ByteBits * i
        BY <3>1, <3>2
      <4>2. ByteBits * (j + 1) = ByteBits * j + ByteBits
        BY <3>1
      <4>3. ByteBits * j \in Nat /\ ByteBits * i \in Nat
        BY <3>1
      <4>4. QED
        BY <1>6, <2>1, <3>1, <4>1, <4>2, <4>3 DEF Bucket
    <3>3. CASE j = i /\ v > w
      BY <1>6, <2>1, <3>1, <3>3
    <3>4. QED
      BY <1>8, <3>2, <3>3
  <2>3. m < k
    BY <1>4, <2>2, BitPlace
  <2>4. QED
    BY <1>2, <1>3, <2>1, <2>2, <2>3 DEF BitAt
<1>9. ByteLess(dy[i], dx[i])
  <2>1. \A v \in Weight : v > w => dy[i][v] = dx[i][v]
    BY <1>6, <1>8
  <2>2. QED
    BY <1>6, <1>7, <2>1 DEF ByteLess
<1>10. ASSUME NEW j \in Position, j < i PROVE dy[j] = dx[j]
  <2>1. dy[j] \in Byte /\ dx[j] \in Byte
    BY <1>1 DEF KademliaID
  <2>2. \A v \in Weight : dy[j][v] = dx[j][v]
    BY <1>8, <1>10
  <2>3. QED
    BY <2>1, <2>2 DEF Byte
<1>11. QED
  BY <1>6, <1>9, <1>10 DEF Less, dx, dy
-----------------------------------------------------------------------------
(* The gate.                                                               *)

\* GateExclusive, and the types it is inductive with.
GateInv ==
  /\ pc \in [Task -> PC]
  /\ gate \in {0, 1}
  /\ GateExclusive

\* A task that moves without entering or leaving, and does not touch the gate.
LEMMA StayKeepsGate ==
  ASSUME GateInv, NEW t \in Task, NEW place \in PC,
         pc' = [pc EXCEPT ![t] = place], gate' = gate,
         pc[t] \in Held <=> place \in Held
  PROVE  GateInv'
<1>1. pc' \in [Task -> PC]
  BY DEF GateInv
<1>2. \A u \in Task : (pc'[u] \in Held) <=> (pc[u] \in Held)
  BY DEF GateInv
<1>3. Inside' = Inside
  BY <1>2 DEF Inside
<1>4. QED
  BY <1>1, <1>3 DEF GateInv, GateExclusive

\* A step that leaves the tasks where they are.
LEMMA RestKeepsGate ==
  ASSUME GateInv, UNCHANGED <<pc, gate>>
  PROVE  GateInv'
BY DEF GateInv, GateExclusive, Inside

\* The task that is inside leaves, and gives the token back.
LEMMA LeaveKeepsGate ==
  ASSUME GateInv, NEW t \in Inside, NEW result, Leave(t, result)
  PROVE  GateInv'
<1>1. t \in Task /\ Inside = {t} /\ gate = 1
  BY DEF GateInv, GateExclusive, Inside
<1>2. PICK place \in {"stopped", "idle"} : pc' = [pc EXCEPT ![t] = place]
  BY DEF Leave, Return, Move
<1>3. pc' \in [Task -> PC]
  BY <1>1, <1>2 DEF GateInv, PC
<1>4. Inside' = {}
  <2>1. \A u \in Task : u # t => pc[u] \notin Held
    BY <1>1 DEF Inside
  <2>2. \A u \in Task : pc'[u] \notin Held
    BY <1>1, <1>2, <2>1 DEF GateInv, Held
  <2>3. QED
    BY <2>2 DEF Inside
<1>5. gate' = 0
  BY <1>1 DEF Leave
<1>6. QED
  BY <1>3, <1>4, <1>5 DEF GateInv, GateExclusive

\* A task whose send goes through is alone.
LEMMA AcquireKeepsGate ==
  ASSUME GateInv, NEW t \in Task, AcquireGate(t)
  PROVE  GateInv'
<1>1. Inside = {} /\ gate' = 1 /\ pc' = [pc EXCEPT ![t] = "check"]
  BY DEF GateInv, GateExclusive, AcquireGate, Move
<1>2. pc' \in [Task -> PC]
  BY <1>1 DEF GateInv, PC
<1>3. Inside' = {t}
  <2>1. \A u \in Task : pc[u] \notin Held
    BY <1>1 DEF Inside
  <2>2. \A u \in Task : (pc'[u] \in Held) <=> (u = t)
    BY <1>1, <2>1 DEF GateInv, Held
  <2>3. QED
    BY <2>2 DEF Inside
<1>4. QED
  BY <1>1, <1>2, <1>3 DEF GateInv, GateExclusive

\* Steps of a task that has called an operation.
LEMMA StepKeepsGate ==
  ASSUME GateInv, NEW t \in Task, Step(t)
  PROVE  GateInv'
<1>1. CASE GiveUp(t)
  <2>1. PICK place \in {"stopped", "idle"} : pc' = [pc EXCEPT ![t] = place]
    BY <1>1 DEF GiveUp, Return, Move
  <2>2. pc[t] \notin Held /\ place \notin Held /\ place \in PC /\ gate' = gate
    BY <1>1 DEF GiveUp, At, Held, PC, gateVars
  <2>3. QED
    BY <2>1, <2>2, StayKeepsGate
<1>2. CASE StoppedAtGate(t) \/ RefuseAddress(t) \/ RefreshAlone(t)
  <2>1. t \in Inside /\ \E r \in {"error", "nil"} : Leave(t, r)
    BY <1>2 DEF StoppedAtGate, RefuseAddress, RefreshAlone, At, Inside, Held
  <2>2. QED
    BY <2>1, LeaveKeepsGate
<1>3. CASE PingFails(t) \/ Finish(t)
  <2>1. t \in Inside /\ \E r \in {"error", "nil"} : Leave(t, r)
    BY <1>3 DEF PingFails, Finish, At, Inside, Held
  <2>2. QED
    BY <2>1, LeaveKeepsGate
<1>4. CASE StartJoin(t)
  <2>1. /\ pc' = [pc EXCEPT ![t] = "ping"] /\ gate' = gate
        /\ pc[t] \in Held /\ "ping" \in Held /\ "ping" \in PC
    BY <1>4 DEF StartJoin, Move, At, Held, PC, gateVars
  <2>2. QED
    BY <2>1, StayKeepsGate
<1>5. CASE PingAnswered(t) \/ StartRefresh(t) \/ StartReplicate(t)
  <2>1. /\ pc' = [pc EXCEPT ![t] = "lookup"] /\ gate' = gate
        /\ pc[t] \in Held /\ "lookup" \in Held /\ "lookup" \in PC
    BY <1>5 DEF PingAnswered, StartRefresh, StartReplicate, Begin, Move, At, Held,
                PC, gateVars
  <2>2. QED
    BY <2>1, StayKeepsGate
<1>6. CASE StartLookup(t)
  <2>1. /\ pc' = [pc EXCEPT ![t] = "search"] /\ gate' = gate
        /\ pc[t] \in Held /\ "search" \in Held /\ "search" \in PC
    BY <1>6 DEF StartLookup, Move, At, Held, PC, gateVars
  <2>2. QED
    BY <2>1, StayKeepsGate
<1>7. ASSUME At(t, "lookup") \/ At(t, "search"),
             NEW failed, NextJob(t, failed)
      PROVE  GateInv'
  <2>1. /\ pc' = [pc EXCEPT ![t] = "lookup"] /\ gate' = gate
        /\ pc[t] \in Held /\ "lookup" \in Held /\ "lookup" \in PC
    BY <1>7 DEF NextJob, Move, At, Held, PC
  <2>2. QED
    BY <2>1, StayKeepsGate
<1>8. CASE StoppedBeforeLookup(t)
  <2>1. At(t, "lookup") /\ t \in Inside
    BY <1>8 DEF StoppedBeforeLookup, At, Inside, Held
  <2>2. NextJob(t, TRUE) \/ Leave(t, "error")
    BY <1>8 DEF StoppedBeforeLookup
  <2>3. QED
    BY <1>7, <2>1, <2>2, LeaveKeepsGate
<1>9. CASE PeersFound(t)
  <2>1. /\ pc' = [pc EXCEPT ![t] = "lookup"] /\ gate' = gate
        /\ pc[t] \in Held /\ "lookup" \in Held /\ "lookup" \in PC
    BY <1>9 DEF PeersFound, Move, At, Held, PC
  <2>2. QED
    BY <2>1, StayKeepsGate
<1>10. CASE LookupSucceeds(t)
  <2>1. At(t, "search") /\ NextJob(t, call[t].failed)
    BY <1>10 DEF LookupSucceeds
  <2>2. QED
    BY <1>7, <2>1
<1>11. CASE LookupFails(t)
  <2>1. At(t, "search") /\ t \in Inside
    BY <1>11 DEF LookupFails, At, Inside, Held
  <2>2. NextJob(t, TRUE) \/ Leave(t, "error")
    BY <1>11 DEF LookupFails
  <2>3. QED
    BY <1>7, <2>1, <2>2, LeaveKeepsGate
<1>12. QED
  BY <1>1, <1>2, <1>3, <1>4, <1>5, <1>6, <1>8, <1>9, <1>10, <1>11 DEF Step

\* A call and the end of a loop happen outside the gate.
LEMMA OutsideKeepsGate ==
  ASSUME GateInv, NEW t \in Task,
         (\E op \in Op : Call(t, op)) \/ LoopStops(t)
  PROVE  GateInv'
<1>1. PICK place \in {"stopped", "idle", "gate"} : pc' = [pc EXCEPT ![t] = place]
  BY DEF Call, LoopStops, Return, Move
<1>2. pc[t] \notin Held /\ place \notin Held /\ place \in PC /\ gate' = gate
  BY DEF Call, LoopStops, At, Held, PC, gateVars
<1>3. QED
  BY <1>1, <1>2, StayKeepsGate

\* Close, time, cancellation and the transport leave the tasks where they are.
LEMMA OthersKeepTasks ==
  ASSUME (\E c \in Closer : CloseCalled(c) \/ Closing(c)) \/ Surroundings
  PROVE  UNCHANGED <<pc, gate>>
BY DEF CloseCalled, Closing, CloseNetwork, AwaitRefresh, AwaitReplication,
       CloseAgain, Surroundings, Age, Cancel, TransportFails, nodeVars, gateVars

LEMMA InitGateInv == Init => GateInv
BY DEF Init, GateInv, GateExclusive, Inside, Held, PC

LEMMA GateInvStep == GateInv /\ [Next]_vars => GateInv'
<1> SUFFICES ASSUME GateInv, [Next]_vars PROVE GateInv'
  OBVIOUS
<1>1. CASE \E t \in Task, op \in Op \ {"none"} : Call(t, op)
  BY <1>1, OutsideKeepsGate
<1>2. CASE \E t \in Task : AcquireGate(t) \/ Step(t)
  BY <1>2, AcquireKeepsGate, StepKeepsGate
<1>3. CASE \E t \in Loop : LoopStops(t)
  BY <1>3, OutsideKeepsGate DEF Task
<1>4. CASE (\E c \in Closer : CloseCalled(c) \/ Closing(c)) \/ Surroundings
  BY <1>4, OthersKeepTasks, RestKeepsGate
<1>5. CASE UNCHANGED vars
  BY <1>5, RestKeepsGate DEF vars, nodeVars, gateVars
<1>6. QED
  BY <1>1, <1>2, <1>3, <1>4, <1>5 DEF Next

\* The token in maintenanceGate is there while exactly one task is inside.
THEOREM GateIsExclusive == Spec => []GateExclusive
<1>1. GateInv => GateExclusive
  BY DEF GateInv
<1>2. QED
  BY <1>1, InitGateInv, GateInvStep, PTL DEF Spec
-----------------------------------------------------------------------------
(* Shutdown.                                                               *)

\* What Close has waited for, at each of its stages.
QuietInv ==
  /\ pc \in [Task -> PC]
  /\ closer \in [Closer -> {"open", "once", "network", "refresh", "replication", "returned"}]
  /\ \A c \in Closer : closer[c] = "replication" => pc[Refresher] = "stopped"
  /\ closeOnce = "used" => \A t \in Loop : pc[t] = "stopped"
  /\ \A c \in Closer : closer[c] = "returned" => closeOnce = "used"

\* No step moves a task that has stopped.
LEMMA StoppedStays ==
  ASSUME pc \in [Task -> PC], [Next]_vars
  PROVE  /\ pc' \in [Task -> PC]
         /\ \A u \in Task : pc[u] = "stopped" => pc'[u] = "stopped"
<1>1. ASSUME NEW t \in Task, NEW place \in PC, pc[t] # "stopped",
             pc' = [pc EXCEPT ![t] = place]
      PROVE  /\ pc' \in [Task -> PC]
             /\ \A u \in Task : pc[u] = "stopped" => pc'[u] = "stopped"
  BY <1>1
<1>2. ASSUME NEW t \in Task, Step(t)
      PROVE  pc[t] # "stopped" /\ \E place \in PC : pc' = [pc EXCEPT ![t] = place]
  BY <1>2 DEF Step, GiveUp, StoppedAtGate, RefuseAddress, StartJoin, PingAnswered,
       PingFails, RefreshAlone, StartRefresh, StartReplicate, StartLookup,
       StoppedBeforeLookup, PeersFound, LookupSucceeds, LookupFails, Finish,
       NextJob, Begin, Leave, Return, Move, At, PC
<1>3. ASSUME NEW t \in Task,
             AcquireGate(t) \/ LoopStops(t) \/ \E op \in Op : Call(t, op)
      PROVE  pc[t] # "stopped" /\ \E place \in PC : pc' = [pc EXCEPT ![t] = place]
  BY <1>3 DEF AcquireGate, LoopStops, Call, Return, Move, At, PC
<1>4. CASE UNCHANGED pc
  BY <1>4
<1>5. UNCHANGED vars => UNCHANGED pc
  BY DEF vars, nodeVars
<1>6. (\E c \in Closer : CloseCalled(c) \/ Closing(c)) \/ Surroundings => UNCHANGED pc
  BY OthersKeepTasks
<1>7. QED
  BY <1>1, <1>2, <1>3, <1>4, <1>5, <1>6 DEF Next, Task

\* Tasks, time, cancellation and the transport do not touch Close.
LEMMA TasksKeepClose ==
  ASSUME \/ \E t \in Task, op \in Op : Call(t, op)
         \/ \E t \in Task : AcquireGate(t) \/ Step(t) \/ LoopStops(t)
         \/ Surroundings
         \/ UNCHANGED vars
  PROVE  UNCHANGED <<closer, closeOnce>>
<1>1. ASSUME NEW t \in Task, Step(t) PROVE UNCHANGED <<closer, closeOnce>>
  BY <1>1 DEF Step, GiveUp, StoppedAtGate, RefuseAddress, StartJoin, PingAnswered,
       PingFails, RefreshAlone, StartRefresh, StartReplicate, StartLookup,
       StoppedBeforeLookup, PeersFound, LookupSucceeds, LookupFails, Finish, closeVars
<1>2. QED
  BY <1>1 DEF AcquireGate, LoopStops, Call, Surroundings, Age, Cancel,
       TransportFails, vars, closeVars

\* When any caller of Close has returned, both loops have ended and only calls
\* of the application are still inside an operation.
THEOREM CloseLeavesQuiet == Spec => []ClosedIsQuiet
<1>1. Init => QuietInv
  BY DEF Init, QuietInv, PC
<1>2. QuietInv /\ [Next]_vars => QuietInv'
  <2> SUFFICES ASSUME QuietInv, [Next]_vars PROVE QuietInv'
    OBVIOUS
  <2>1. /\ pc' \in [Task -> PC]
        /\ \A u \in Task : pc[u] = "stopped" => pc'[u] = "stopped"
    BY StoppedStays DEF QuietInv
  <2>2. Refresher \in Task /\ Loop \subseteq Task
    BY DEF Task, Loop
  <2>3. CASE UNCHANGED <<closer, closeOnce>>
    BY <2>1, <2>2, <2>3 DEF QuietInv
  <2>4. ASSUME NEW c \in Closer, CloseCalled(c) PROVE QuietInv'
    BY <2>1, <2>2, <2>4 DEF QuietInv, CloseCalled
  <2>5. ASSUME NEW c \in Closer, CloseNetwork(c) PROVE QuietInv'
    BY <2>1, <2>2, <2>5 DEF QuietInv, CloseNetwork
  <2>6. ASSUME NEW c \in Closer, AwaitRefresh(c) PROVE QuietInv'
    BY <2>1, <2>2, <2>6 DEF QuietInv, AwaitRefresh, At
  <2>7. ASSUME NEW c \in Closer, AwaitReplication(c) PROVE QuietInv'
    <3>1. \A t \in Loop : pc[t] = "stopped"
      BY <2>7 DEF QuietInv, AwaitReplication, At, Loop
    <3>2. QED
      BY <2>1, <2>2, <2>7, <3>1 DEF QuietInv, AwaitReplication
  <2>8. ASSUME NEW c \in Closer, CloseAgain(c) PROVE QuietInv'
    BY <2>1, <2>2, <2>8 DEF QuietInv, CloseAgain
  <2>9. QED
    BY <2>3, <2>4, <2>5, <2>6, <2>7, <2>8, TasksKeepClose DEF Next, Closing, Task
<1>3. QuietInv => ClosedIsQuiet
  BY DEF QuietInv, ClosedIsQuiet, Inside, Held, Task
<1>4. QED
  BY <1>1, <1>2, <1>3, PTL DEF Spec

-----------------------------------------------------------------------------
(* The queues of jobs.                                                     *)

\* Less orders IDs one way.
LEMMA LessAsymmetric ==
  ASSUME NEW x \in KademliaID, NEW y \in KademliaID, Less(x, y), Less(y, x)
  PROVE  FALSE
<1>1. PICK i \in Position : ByteLess(x[i], y[i]) /\ \A j \in Position : j < i => x[j] = y[j]
  BY DEF Less
<1>2. PICK j \in Position : ByteLess(y[j], x[j]) /\ \A k \in Position : k < j => y[k] = x[k]
  BY DEF Less
<1>3. ASSUME NEW a \in Byte, NEW b \in Byte, ByteLess(a, b), ByteLess(b, a)
      PROVE  FALSE
  <2>1. PICK w \in Weight : a[w] < b[w] /\ \A v \in Weight : v > w => a[v] = b[v]
    BY <1>3 DEF ByteLess
  <2>2. PICK u \in Weight : b[u] < a[u] /\ \A v \in Weight : v > u => b[v] = a[v]
    BY <1>3 DEF ByteLess
  <2>3. /\ w \in Int /\ u \in Int
        /\ a[w] \in Int /\ b[w] \in Int /\ a[u] \in Int /\ b[u] \in Int
    BY DEF Weight, Byte
  <2>4. w < u \/ u < w \/ w = u
    BY <2>3
  <2> QED
    BY <2>1, <2>2, <2>3, <2>4
<1>4. \A k \in Position : x[k] \in Byte /\ y[k] \in Byte /\ k \in Int
  BY DEF KademliaID, Position
<1>5. CASE i = j
  BY <1>1, <1>2, <1>3, <1>4, <1>5
<1>6. CASE i < j
  <2>1. x[i] = y[i]
    BY <1>2, <1>6
  <2> QED
    BY <1>1, <1>3, <1>4, <2>1
<1>7. CASE j < i
  <2>1. x[j] = y[j]
    BY <1>1, <1>7
  <2> QED
    BY <1>2, <1>3, <1>4, <2>1
<1> QED
  BY <1>4, <1>5, <1>6, <1>7

\* The members of a finite set of naturals can be listed upwards: each at its rank.
LEMMA UpwardsExists ==
  ASSUME NEW S, S \subseteq Nat, IsFiniteSet(S)
  PROVE  \E s \in SetToSeqs(S) : \A i, j \in DOMAIN s : i < j => s[i] < s[j]
<1> DEFINE Below(n) == {m \in S : m < n}
           size == Cardinality(S)
           rank == [n \in S |-> Cardinality(Below(n)) + 1]
<1>1. size \in Nat
  BY FS_CardinalityType
<1>2. ASSUME NEW n \in S
      PROVE  IsFiniteSet(Below(n)) /\ Cardinality(Below(n)) \in Nat
             /\ Cardinality(Below(n)) + 1 =< size
  <2>1. Below(n) \in SUBSET (S \ {n})
    OBVIOUS
  <2>2. IsFiniteSet(S \ {n}) /\ Cardinality(S \ {n}) = size - 1
    BY FS_RemoveElement
  <2>3. IsFiniteSet(Below(n)) /\ Cardinality(Below(n)) =< Cardinality(S \ {n})
    BY <2>1, <2>2, FS_Subset
  <2>4. Cardinality(Below(n)) \in Nat
    BY <2>3, FS_CardinalityType
  <2>5. Cardinality(Below(n)) + 1 =< size
    BY <1>1, <2>2, <2>3, <2>4
  <2> QED
    BY <2>3, <2>4, <2>5
<1>3. ASSUME NEW n \in S, NEW m \in S, n < m
      PROVE  rank[n] < rank[m]
  <2>0. n \in Nat /\ m \in Nat /\ \A k \in S : k \in Nat
    OBVIOUS
  <2>1. Below(n) \in SUBSET Below(m) /\ n \in Below(m) /\ n \notin Below(n)
    <3>1. \A k \in S : k < n => k < m
      BY <1>3, <2>0
    <3>2. Below(n) \subseteq Below(m)
      BY <3>1
    <3>3. n \in Below(m) /\ ~(n < n)
      BY <1>3, <2>0
    <3> QED
      BY <3>2, <3>3
  <2>2. Cardinality(Below(n)) =< Cardinality(Below(m))
        /\ Cardinality(Below(n)) # Cardinality(Below(m))
    BY <1>2, <2>1, FS_Subset
  <2> QED
    BY <1>2, <2>2
<1>4. rank \in [S -> 1 .. size]
  BY <1>1, <1>2
<1> HIDE DEF rank
<1>5. \A n, m \in S : rank[n] = rank[m] => n = m
  <2> SUFFICES ASSUME NEW n \in S, NEW m \in S, rank[n] = rank[m], n # m PROVE FALSE
    OBVIOUS
  <2>1. n < m \/ m < n
    OBVIOUS
  <2>2. rank[n] \in Nat /\ rank[m] \in Nat
    BY <1>4
  <2> QED
    BY <1>3, <2>1, <2>2
<1>6. rank \in Injection(S, 1 .. size)
  BY <1>4, <1>5, Fun_IsInj
<1>7. IsFiniteSet(1 .. size) /\ Cardinality(1 .. size) = size
  BY <1>1, FS_Interval
<1>8. rank \in Surjection(S, 1 .. size)
  BY <1>6, <1>7, FS_Injection
<1>9. \A i \in 1 .. size : \E n \in S : rank[n] = i
  BY <1>8, Fun_SurjectionProperties
<1> DEFINE s == [i \in 1 .. size |-> CHOOSE n \in S : rank[n] = i]
<1>10. \A i \in 1 .. size : s[i] \in S /\ rank[s[i]] = i
  BY <1>9
<1>11. s \in [1 .. size -> S] /\ DOMAIN s = 1 .. size
  BY <1>10
<1> HIDE DEF s
<1>12. \A i, j \in 1 .. size : i # j => s[i] # s[j]
  BY <1>10
<1>13. \A i, j \in 1 .. size : i < j => s[i] < s[j]
  <2> SUFFICES ASSUME NEW i \in 1 .. size, NEW j \in 1 .. size, i < j, ~(s[i] < s[j])
               PROVE  FALSE
    OBVIOUS
  <2>1. s[i] \in S /\ s[j] \in S /\ rank[s[i]] = i /\ rank[s[j]] = j
    BY <1>10
  <2>2. CASE s[j] < s[i]
    <3>1. rank[s[j]] < rank[s[i]]
      BY <1>3, <2>1, <2>2
    <3> QED
      BY <2>1, <3>1
  <2>3. CASE s[j] = s[i]
    BY <2>1, <2>3
  <2>4. s[i] \in Nat /\ s[j] \in Nat
    BY <2>1
  <2> QED
    BY <2>2, <2>3, <2>4
<1>14. s \in SetToSeqs(S)
  BY <1>11, <1>12 DEF SetToSeqs
<1> QED
  BY <1>11, <1>13, <1>14

\* An order of a finite set is a sequence of all its members.
LEMMA ListingFacts ==
  ASSUME NEW S, IsFiniteSet(S), NEW s \in SetToSeqs(S)
  PROVE  s \in Seq(S) /\ \A x \in S : \E i \in DOMAIN s : s[i] = x
<1> DEFINE D == 1 .. Cardinality(S)
<1>1. Cardinality(S) \in Nat
  BY FS_CardinalityType
<1>2. s \in [D -> S] /\ \A i, j \in D : s[i] = s[j] => i = j
  BY DEF SetToSeqs
<1>3. s \in Injection(D, S)
  BY <1>2, Fun_IsInj
<1>4. IsFiniteSet(D) /\ Cardinality(D) = Cardinality(S)
  BY <1>1, FS_Interval
<1>5. s \in Surjection(D, S)
  BY <1>3, <1>4, FS_Injection
<1>6. \A x \in S : \E i \in D : s[i] = x
  BY <1>5 DEF Surjection
<1>7. s \in Seq(S) /\ DOMAIN s = D
  BY <1>1, <1>2
<1>8. \A x \in S : \E i \in DOMAIN s : s[i] = x
  BY <1>6, <1>7
<1> QED
  BY <1>7, <1>8

\* A job of a bucket for each of the buckets in B that S misses, and no other kind.
Ahead(B, todo, S) ==
  /\ \A i \in DOMAIN todo : todo[i].kind = "bucket"
  /\ \A b \in B : b \in S \/ \E i \in DOMAIN todo : todo[i].index = b

LEMMA JobTypes ==
  /\ \A n \in Bucket : BucketJob(n) \in Job /\ BucketJob(n).kind = "bucket"
                       /\ BucketJob(n).index = n
  /\ \A x \in KademliaID : IdJob("self", x) \in Job /\ IdJob("value", x) \in Job
                           /\ IdJob("head", x) \in Job
BY DEF BucketJob, IdJob, Job

\* Every stale bucket is listed.
LEMMA StaleFacts ==
  ASSUME stale \subseteq Bucket, NEW S
  PROVE  StaleBuckets \in Seq(Job) /\ Ahead(stale, StaleBuckets, S)
<1>1. IDLength * ByteBits - 1 \in Int /\ Bucket \subseteq Nat
  BY WidthAssumption, BitPlace
<1>2. IsFiniteSet(Bucket)
  BY <1>1, FS_Interval DEF Bucket
<1>3. IsFiniteSet(stale) /\ stale \subseteq Nat
  BY <1>1, <1>2, FS_Subset
<1> DEFINE indices == CHOOSE s \in SetToSeqs(stale) :
                        \A i, j \in DOMAIN s : i < j => s[i] < s[j]
<1>4. indices \in SetToSeqs(stale)
  BY <1>3, UpwardsExists
<1>5. StaleBuckets = [i \in DOMAIN indices |-> BucketJob(indices[i])]
  BY DEF StaleBuckets
<1> HIDE DEF indices
<1>6. /\ indices \in Seq(stale) /\ DOMAIN indices = 1 .. Len(indices)
      /\ Len(indices) \in Nat /\ \A i \in DOMAIN indices : indices[i] \in Bucket
      /\ \A n \in stale : \E i \in DOMAIN indices : indices[i] = n
  <2>1. /\ indices \in Seq(stale)
        /\ \A n \in stale : \E i \in DOMAIN indices : indices[i] = n
    BY <1>3, <1>4, ListingFacts
  <2> QED
    BY <2>1
<1>7. \A i \in DOMAIN indices : StaleBuckets[i] = BucketJob(indices[i])
  BY <1>5
<1>8. StaleBuckets \in [1 .. Len(indices) -> Job]
  BY <1>5, <1>6, JobTypes
<1>9. StaleBuckets \in Seq(Job) /\ DOMAIN StaleBuckets = DOMAIN indices
  BY <1>6, <1>8
<1>10. Ahead(stale, StaleBuckets, S)
  BY <1>6, <1>7, <1>9, JobTypes DEF Ahead
<1> QED
  BY <1>9, <1>10

\* Every bucket before that of the closest peer is listed.
LEMMA FartherFacts ==
  ASSUME NEW id \in KademliaID, NEW S
  PROVE  /\ FartherBuckets(id) \in Seq(Job)
         /\ Ahead({b \in Bucket : b < GetBucketIndex(Self, id)}, FartherBuckets(id), S)
<1> DEFINE c == GetBucketIndex(Self, id)
           jobs == FartherBuckets(id)
<1>1. c \in Bucket /\ c \in Nat
  BY FirstBit, BitPlace, MaintenanceAssumption
<1>2. jobs = [i \in 1 .. c |-> BucketJob(c - i)]
  BY DEF FartherBuckets
<1> HIDE DEF c, jobs
<1>3. \A i \in 1 .. c : c - i \in Bucket
  <2>1. IDLength * ByteBits - 1 \in Int
    BY WidthAssumption
  <2> QED
    BY <1>1, <2>1 DEF Bucket
<1>4. \A i \in 1 .. c : jobs[i] \in Job /\ jobs[i].kind = "bucket" /\ jobs[i].index = c - i
  BY <1>2, <1>3, JobTypes
<1>5. jobs \in Seq(Job) /\ DOMAIN jobs = 1 .. c
  BY <1>1, <1>2, <1>4
<1>6. ASSUME NEW b \in Bucket, b < c
      PROVE  \E i \in 1 .. c : jobs[i].index = b
  <2>1. b \in Nat
    BY BitPlace
  <2>2. c - b \in 1 .. c /\ c - (c - b) = b
    BY <1>1, <1>6, <2>1
  <2> QED
    BY <1>4, <2>2
<1>7. Ahead({b \in Bucket : b < c}, jobs, S)
  BY <1>4, <1>5, <1>6 DEF Ahead
<1> QED
  BY <1>5, <1>7 DEF c, jobs

LEMMA ReplicationFacts ==
  ASSUME NEW jobs \in ReplicationJobs
  PROVE  jobs \in Seq(Job)
<1>1. ValueJobs \subseteq Job /\ HeadJobs \subseteq Job
  BY JobTypes, MaintenanceAssumption DEF ValueJobs, HeadJobs
<1>2. [x \in ValueKey |-> IdJob("value", x)] \in Surjection(ValueKey, ValueJobs)
  BY DEF Surjection, ValueJobs, HeadJobs
<1>3. [x \in HeadKey |-> IdJob("head", x)] \in Surjection(HeadKey, HeadJobs)
  BY DEF Surjection, ValueJobs, HeadJobs
<1>4. IsFiniteSet(ValueJobs)
  <2>1. PICK f : f \in Surjection(ValueKey, ValueJobs)
    BY <1>2
  <2>2. IsFiniteSet(ValueKey)
    BY MaintenanceAssumption
  <2> QED
    BY <2>1, <2>2, FS_Surjection
<1>5. IsFiniteSet(HeadJobs)
  <2>1. PICK f : f \in Surjection(HeadKey, HeadJobs)
    BY <1>3
  <2>2. IsFiniteSet(HeadKey)
    BY MaintenanceAssumption
  <2> QED
    BY <2>1, <2>2, FS_Surjection
<1>6. PICK v \in SetToSeqs(ValueJobs), h \in SetToSeqs(HeadJobs) : jobs = v \o h
  BY DEF ReplicationJobs
<1>7. v \in Seq(ValueJobs) /\ h \in Seq(HeadJobs)
  BY <1>4, <1>5, ListingFacts
<1>8. v \in Seq(Job) /\ h \in Seq(Job)
  BY <1>1, <1>7
<1> QED
  BY <1>6, <1>8

\* The IDs that a job may look up are in the key space; those of a bucket's job
\* are of its bucket.
LEMMA TargetFacts ==
  ASSUME NEW job \in Job, NEW target \in Targets(job)
  PROVE  /\ GetBucketIndex(Self, target) \in Bucket
         /\ job.kind = "bucket" => GetBucketIndex(Self, target) = job.index
<1>1. Self \in KademliaID
  BY MaintenanceAssumption
<1>2. CASE job.kind = "bucket"
  <2>1. job.index \in Bucket
    BY <1>2 DEF Job
  <2>2. PICK r \in KademliaID : target = RandomBucketTarget(Self, job.index, r)
    BY <1>2 DEF Targets
  <2> QED
    BY <1>1, <2>1, <2>2, RefreshTargetsBucket
<1>3. CASE job.kind # "bucket"
  <2>1. target \in KademliaID
    BY <1>3 DEF Targets, Job
  <2> QED
    BY <1>1, <1>3, <2>1, FirstBit
<1> QED
  BY <1>2, <1>3

-----------------------------------------------------------------------------
(* A pass covers what it is for.                                           *)

CallType == [op : Op, todo : Seq(Job), bucket : Bucket, closest : Peer \cup {Self},
             failed : BOOLEAN]

\* The buckets farther away than the closest peer that a join has found.
Farther(c) == {b \in Bucket : b < GetBucketIndex(Self, c.closest)}

\* A task at place with the call c, when S has been searched and D was due: until
\* its own lookup ends, a join has that one job; from then on, as for a refresh,
\* what has to be searched and has not been is in the queue, and the lookup in
\* hand is in the bucket of the first job.
Legal(place, c, S, D, St) ==
  /\ place \in PC /\ c \in CallType
  /\ place = "search" => c.todo # <<>>
  /\ place = "check" /\ c.op = "refresh" => D \subseteq St
  /\ place = "ping" => c.op = "join"
  /\ place \in {"lookup", "search"} /\ c.op = "join" =>
       c.todo = <<IdJob("self", Self)>> \/ Ahead(Farther(c), c.todo, S)
  /\ place \in {"lookup", "search"} /\ c.op = "refresh" => Ahead(D, c.todo, S)
  /\ place = "search" /\ c.todo[1].kind = "bucket" => c.bucket = c.todo[1].index

BucketsTyped == stale \subseteq Bucket /\ searched \subseteq Bucket /\ due \subseteq Bucket

PassInv ==
  /\ pc \in [Task -> PC] /\ call \in [Task -> CallType]
  /\ \A t \in Task : Legal(pc[t], call[t], searched, due, stale)
  /\ BucketsTyped
  /\ cancelled \subseteq App

\* Task t gets to place with the call c, the others stay.
Moves(t, place, c) ==
  /\ pc' = [pc EXCEPT ![t] = place]
  /\ call' = [call EXCEPT ![t] = c]
  /\ Legal(place, c, searched', due', stale')

\* Outside the gate, and for as long as the buckets' sets stay, nothing changes.
LEMMA OthersLegal ==
  ASSUME PassInv, NEW u \in Task,
         pc[u] \notin Held \/ UNCHANGED <<searched, due, stale>>
  PROVE  Legal(pc[u], call[u], searched', due', stale')
<1>1. Legal(pc[u], call[u], searched, due, stale)
  BY DEF PassInv
<1> QED
  BY <1>1 DEF Legal, Held

LEMMA MovesKeepPass ==
  ASSUME PassInv, NEW t \in Task, NEW place, NEW c, Moves(t, place, c),
         \A u \in Task \ {t} :
           pc[u] \notin Held \/ UNCHANGED <<searched, due, stale>>,
         BucketsTyped', cancelled' \subseteq App
  PROVE  PassInv'
<1>1. place \in PC /\ c \in CallType
  BY DEF Moves, Legal
<1>2. pc' \in [Task -> PC] /\ call' \in [Task -> CallType]
  BY <1>1 DEF PassInv, Moves
<1>3. ASSUME NEW u \in Task
      PROVE  Legal(pc'[u], call'[u], searched', due', stale')
  <2>1. CASE u = t
    <3>1. pc'[u] = place /\ call'[u] = c
      BY <2>1 DEF PassInv, Moves
    <3> QED
      BY <3>1 DEF Moves
  <2>2. CASE u # t
    <3>1. pc'[u] = pc[u] /\ call'[u] = call[u]
      BY <2>2 DEF PassInv, Moves
    <3>2. Legal(pc[u], call[u], searched', due', stale')
      BY <2>2, OthersLegal
    <3> QED
      BY <3>1, <3>2
  <2> QED
    BY <2>1, <2>2
<1> QED
  BY <1>2, <1>3 DEF PassInv

\* A task that is inside is alone there.
LEMMA AloneInside ==
  ASSUME GateInv, NEW t \in Inside, NEW u \in Task \ {t}
  PROVE  pc[u] \notin Held
BY DEF GateInv, GateExclusive, Inside

LEMMA NoCallLegal ==
  ASSUME NEW place \in {"idle", "stopped"}, NEW S, NEW D, NEW St
  PROVE  Legal(place, NoCall, S, D, St)
<1>1. 0 \in Bucket
  <2>1. IDLength \in Nat \ {0} /\ ByteBits \in Nat \ {0}
    BY WidthAssumption
  <2>2. IDLength * ByteBits \in Nat /\ IDLength * ByteBits >= 1
    BY <2>1
  <2> QED
    BY <2>2 DEF Bucket
<1>2. <<>> \in Seq(Job) /\ "none" \in Op
  BY DEF Op
<1>3. NoCall \in CallType
  BY <1>1, <1>2 DEF NoCall, CallType
<1> QED
  BY <1>3 DEF Legal, PC

LEMMA ReturnMoves ==
  ASSUME NEW t \in Task, NEW result, Return(t, result)
  PROVE  /\ \E place : Moves(t, place, NoCall)
         /\ cancelled' \subseteq cancelled
<1>1. PICK place \in {"idle", "stopped"} : pc' = [pc EXCEPT ![t] = place]
  BY DEF Return, Move
<1>2. Legal(place, NoCall, searched', due', stale')
  BY NoCallLegal
<1> QED
  BY <1>1, <1>2 DEF Return, Moves

\* The task that leaves the gate empties the sets of its pass.
LEMMA LeaveKeepsPass ==
  ASSUME GateInv, PassInv, NEW t \in Inside, NEW result, Leave(t, result),
         UNCHANGED stale
  PROVE  PassInv'
<1>1. t \in Task /\ \A u \in Task \ {t} : pc[u] \notin Held
  BY AloneInside DEF Inside
<1>2. PICK place : Moves(t, place, NoCall)
  BY <1>1, ReturnMoves DEF Leave
<1>3. cancelled' \subseteq App
  BY <1>1, ReturnMoves DEF Leave, PassInv
<1>4. BucketsTyped'
  BY DEF Leave, PassInv, BucketsTyped
<1> QED
  BY <1>1, <1>2, <1>3, <1>4, MovesKeepPass

\* The task takes its first job off the queue, its bucket searched or not.
LEMMA NextJobKeepsPass ==
  ASSUME GateInv, PassInv, NEW t \in Inside, NEW failed \in BOOLEAN, NextJob(t, failed),
         pc[t] \in {"lookup", "search"}, call[t].todo # <<>>,
         searched \subseteq searched', searched' \subseteq Bucket,
         call[t].todo[1].kind # "self" \/ call[t].op # "join",
         \/ call[t].op \notin {"join", "refresh"}
         \/ call[t].todo[1].kind = "bucket" => call[t].todo[1].index \in searched',
         UNCHANGED stale
  PROVE  PassInv'
<1> DEFINE c == call[t]
           d == [c EXCEPT !.todo = Tail(@), !.bucket = 0, !.failed = failed]
<1>1. /\ t \in Task /\ \A u \in Task \ {t} : pc[u] \notin Held
      /\ c \in CallType /\ Legal(pc[t], c, searched, due, stale)
      /\ BucketsTyped
  BY AloneInside DEF Inside, PassInv
<1>2. /\ pc' = [pc EXCEPT ![t] = "lookup"] /\ call' = [call EXCEPT ![t] = d]
      /\ due' = due /\ cancelled' = cancelled
  BY DEF NextJob, Move
<1>3. /\ c.todo \in Seq(Job) /\ Tail(c.todo) \in Seq(Job)
      /\ Len(c.todo) \in Nat \ {0} /\ Len(Tail(c.todo)) = Len(c.todo) - 1
      /\ DOMAIN c.todo = 1 .. Len(c.todo) /\ DOMAIN Tail(c.todo) = 1 .. Len(c.todo) - 1
      /\ \A i \in 1 .. Len(c.todo) - 1 : Tail(c.todo)[i] = c.todo[i + 1]
  <2>1. c.todo \in Seq(Job)
    BY <1>1 DEF CallType
  <2> QED
    BY <2>1
<1>4. /\ d \in CallType /\ d.op = c.op /\ d.closest = c.closest
      /\ d.todo = Tail(c.todo)
  <2>1. 0 \in Bucket
    BY NoCallLegal DEF Legal, CallType, NoCall
  <2> QED
    BY <1>1, <1>3, <2>1 DEF CallType
<1>5. ASSUME NEW B, Ahead(B, c.todo, searched), c.todo[1].index \in searched'
      PROVE  Ahead(B, Tail(c.todo), searched')
  <2>1. \A i \in DOMAIN Tail(c.todo) : Tail(c.todo)[i].kind = "bucket"
    BY <1>3, <1>5 DEF Ahead
  <2>2. ASSUME NEW b \in B, b \notin searched'
        PROVE  \E i \in DOMAIN Tail(c.todo) : Tail(c.todo)[i].index = b
    <3>1. PICK i \in DOMAIN c.todo : c.todo[i].index = b
      BY <1>5, <2>2 DEF Ahead
    <3>2. i # 1
      BY <1>5, <2>2, <3>1
    <3>3. i - 1 \in DOMAIN Tail(c.todo) /\ Tail(c.todo)[i - 1] = c.todo[i]
      BY <1>3, <3>1, <3>2
    <3> QED
      BY <3>1, <3>3
  <2> QED
    BY <2>1, <2>2 DEF Ahead
<1>6. c.op = "join" => Ahead(Farther(d), d.todo, searched')
  <2> SUFFICES ASSUME c.op = "join" PROVE Ahead(Farther(d), d.todo, searched')
    OBVIOUS
  <2>1. c.todo # <<IdJob("self", Self)>>
    BY DEF IdJob
  <2>2. Ahead(Farther(c), c.todo, searched)
    BY <1>1, <2>1 DEF Legal
  <2>3. c.todo[1].kind = "bucket"
    BY <1>3, <2>2 DEF Ahead
  <2>4. Farther(d) = Farther(c)
    BY <1>4 DEF Farther
  <2> QED
    BY <1>4, <1>5, <2>2, <2>3, <2>4
<1>7. c.op = "refresh" => Ahead(due', d.todo, searched')
  <2> SUFFICES ASSUME c.op = "refresh" PROVE Ahead(due', d.todo, searched')
    OBVIOUS
  <2>1. Ahead(due, c.todo, searched)
    BY <1>1 DEF Legal
  <2>2. c.todo[1].kind = "bucket"
    BY <1>3, <2>1 DEF Ahead
  <2> QED
    BY <1>2, <1>4, <1>5, <2>1, <2>2
<1> HIDE DEF d
<1>8. Moves(t, "lookup", d)
  BY <1>2, <1>4, <1>6, <1>7 DEF Moves, Legal, PC
<1>9. BucketsTyped' /\ cancelled' \subseteq App
  BY <1>1, <1>2 DEF BucketsTyped, PassInv
<1> QED
  BY <1>1, <1>8, <1>9, MovesKeepPass

\* The operations of a task inside, up to its lookups.
LEMMA BeginKeepsPass ==
  ASSUME GateInv, PassInv, NEW t \in Task,
         \/ StartJoin(t) \/ PingAnswered(t) \/ StartRefresh(t) \/ StartReplicate(t)
  PROVE  PassInv'
<1> DEFINE c == call[t]
<1>1. /\ t \in Inside /\ c \in CallType /\ Legal(pc[t], c, searched, due, stale)
      /\ BucketsTyped /\ UNCHANGED <<searched, due, stale, cancelled>>
  BY DEF StartJoin, PingAnswered, StartRefresh, StartReplicate, Begin, At, Inside,
         Held, PassInv, gateVars
<1>2. BucketsTyped' /\ cancelled' \subseteq App
  BY <1>1 DEF BucketsTyped, PassInv
<1>3. CASE StartJoin(t)
  <2>1. pc' = [pc EXCEPT ![t] = "ping"] /\ call' = call /\ c.op = "join"
    BY <1>3 DEF StartJoin, Move
  <2>2. call' = [call EXCEPT ![t] = c]
    BY <2>1 DEF PassInv
  <2>3. Legal("ping", c, searched', due', stale')
    BY <1>1, <2>1 DEF Legal, PC
  <2> QED
    BY <1>1, <1>2, <2>1, <2>2, <2>3, MovesKeepPass DEF Moves
<1>4. ASSUME NEW jobs \in Seq(Job), Begin(t, jobs),
             c.op = "join" => jobs = <<IdJob("self", Self)>>,
             c.op = "refresh" => Ahead(due, jobs, searched)
      PROVE  PassInv'
  <2> DEFINE d == [c EXCEPT !.todo = jobs]
  <2>1. d \in CallType /\ d.op = c.op /\ d.todo = jobs
    BY <1>1 DEF CallType
  <2>2. pc' = [pc EXCEPT ![t] = "lookup"] /\ call' = [call EXCEPT ![t] = d]
    BY <1>4 DEF Begin, Move, PassInv
  <2> HIDE DEF d
  <2>3. Legal("lookup", d, searched', due', stale')
    BY <1>1, <1>4, <2>1 DEF Legal, PC
  <2> QED
    BY <1>1, <1>2, <2>2, <2>3, MovesKeepPass DEF Moves
<1>5. CASE PingAnswered(t)
  <2>1. <<IdJob("self", Self)>> \in Seq(Job)
    BY JobTypes, MaintenanceAssumption
  <2>2. c.op = "join" /\ Begin(t, <<IdJob("self", Self)>>)
    BY <1>1, <1>5 DEF PingAnswered, Legal, At
  <2> QED
    BY <1>4, <2>1, <2>2
<1>6. CASE StartRefresh(t)
  <2>1. c.op = "refresh" /\ due \subseteq stale /\ Begin(t, StaleBuckets)
    BY <1>1, <1>6 DEF StartRefresh, Legal, At
  <2>2. StaleBuckets \in Seq(Job) /\ Ahead(stale, StaleBuckets, searched)
    BY <1>1, StaleFacts DEF BucketsTyped
  <2>3. Ahead(due, StaleBuckets, searched)
    BY <2>1, <2>2 DEF Ahead
  <2> QED
    BY <1>4, <2>1, <2>2, <2>3
<1>7. CASE StartReplicate(t)
  <2>1. PICK jobs \in ReplicationJobs : Begin(t, jobs)
    BY <1>7 DEF StartReplicate
  <2>2. jobs \in Seq(Job) /\ c.op = "replicate"
    BY <1>7, ReplicationFacts DEF StartReplicate
  <2> QED
    BY <1>4, <2>1, <2>2
<1> QED
  BY <1>3, <1>5, <1>6, <1>7

\* The lookup that starts is of the bucket of its job.
LEMMA StartLookupKeepsPass ==
  ASSUME GateInv, PassInv, NEW t \in Task, StartLookup(t)
  PROVE  PassInv'
<1> DEFINE c == call[t]
<1>1. /\ t \in Inside /\ pc[t] = "lookup" /\ c.todo # <<>>
      /\ c \in CallType /\ Legal("lookup", c, searched, due, stale) /\ BucketsTyped
      /\ UNCHANGED <<searched, due, cancelled>>
  BY DEF StartLookup, At, Inside, Held, PassInv, gateVars
<1>2. c.todo[1] \in Job
  BY <1>1 DEF CallType
<1>3. PICK target \in Targets(c.todo[1]) :
        LET n == GetBucketIndex(Self, target)
        IN  stale' = stale \ {n} /\ call' = [call EXCEPT ![t].bucket = n]
  BY DEF StartLookup
<1> DEFINE n == GetBucketIndex(Self, target)
           d == [c EXCEPT !.bucket = n]
<1>4. n \in Bucket /\ (c.todo[1].kind = "bucket" => n = c.todo[1].index)
  BY <1>2, TargetFacts
<1> HIDE DEF n
<1>5. stale' = stale \ {n} /\ call' = [call EXCEPT ![t] = d]
  BY <1>3 DEF n, PassInv
<1>6. /\ d \in CallType /\ d.op = c.op /\ d.todo = c.todo /\ d.closest = c.closest
      /\ d.bucket = n
  BY <1>1, <1>4 DEF CallType
<1> HIDE DEF d
<1>7. Farther(d) = Farther(c)
  BY <1>6 DEF Farther
<1>8. Legal("search", d, searched', due', stale')
  BY <1>1, <1>4, <1>6, <1>7 DEF Legal, PC
<1>9. pc' = [pc EXCEPT ![t] = "search"]
  BY DEF StartLookup, Move
<1>10. BucketsTyped' /\ cancelled' \subseteq App
  BY <1>1, <1>5 DEF BucketsTyped, PassInv
<1>11. \A u \in Task \ {t} : pc[u] \notin Held
  BY <1>1, AloneInside
<1> QED
  BY <1>5, <1>8, <1>9, <1>10, <1>11, MovesKeepPass DEF Moves

\* After its own lookup a join has every farther bucket before it.
LEMMA PeersFoundKeepsPass ==
  ASSUME GateInv, PassInv, NEW t \in Task, PeersFound(t)
  PROVE  PassInv'
<1> DEFINE c == call[t]
<1>1. /\ t \in Inside /\ pc[t] = "search" /\ c.todo # <<>>
      /\ c \in CallType /\ Legal("search", c, searched, due, stale) /\ BucketsTyped
      /\ c.todo[1].kind = "self"
      /\ UNCHANGED <<due, stale, cancelled>>
  BY DEF PeersFound, At, Inside, Held, PassInv, Legal
<1>2. PICK closest \in Peer :
        call' = [call EXCEPT ![t].todo = FartherBuckets(closest), ![t].bucket = 0,
                             ![t].closest = closest]
  BY DEF PeersFound
<1> DEFINE d == [c EXCEPT !.todo = FartherBuckets(closest), !.bucket = 0, !.closest = closest]
<1>3. call' = [call EXCEPT ![t] = d]
  BY <1>2 DEF PassInv
<1>4. closest \in KademliaID
  BY MaintenanceAssumption
<1>5. /\ FartherBuckets(closest) \in Seq(Job)
      /\ Ahead({b \in Bucket : b < GetBucketIndex(Self, closest)},
               FartherBuckets(closest), searched')
  BY <1>4, FartherFacts
<1>6. /\ d \in CallType /\ d.op = c.op /\ d.todo = FartherBuckets(closest)
      /\ d.closest = closest
  <2>1. 0 \in Bucket
    BY NoCallLegal DEF Legal, CallType, NoCall
  <2> QED
    BY <1>1, <1>5, <2>1 DEF CallType
<1> HIDE DEF d
<1>7. Ahead(Farther(d), d.todo, searched')
  BY <1>5, <1>6 DEF Farther
<1>8. c.op # "refresh"
  <2>1. 1 \in DOMAIN c.todo
    BY <1>1 DEF CallType
  <2> QED
    BY <1>1, <2>1 DEF Legal, Ahead
<1>9. Legal("lookup", d, searched', due', stale')
  BY <1>6, <1>7, <1>8 DEF Legal, PC
<1>10. pc' = [pc EXCEPT ![t] = "lookup"] /\ searched' = searched \cup {c.bucket}
  BY DEF PeersFound, Move
<1>11. BucketsTyped' /\ cancelled' \subseteq App
  BY <1>1, <1>10 DEF BucketsTyped, PassInv, CallType
<1>12. \A u \in Task \ {t} : pc[u] \notin Held
  BY <1>1, AloneInside
<1> QED
  BY <1>3, <1>9, <1>10, <1>11, <1>12, MovesKeepPass DEF Moves

\* The ends of a lookup, and the queue of a pass that finds the node stopped.
LEMMA LookupEndsKeepPass ==
  ASSUME GateInv, PassInv, NEW t \in Task,
         StoppedBeforeLookup(t) \/ LookupSucceeds(t) \/ LookupFails(t)
  PROVE  PassInv'
<1> DEFINE c == call[t]
<1>1. /\ t \in Inside /\ pc[t] \in {"lookup", "search"} /\ c.todo # <<>>
      /\ c \in CallType /\ Legal(pc[t], c, searched, due, stale) /\ BucketsTyped
      /\ UNCHANGED stale
  BY DEF StoppedBeforeLookup, LookupSucceeds, LookupFails, At, Inside, Held, PassInv, Legal
<1>2. 1 \in DOMAIN c.todo /\ c.bucket \in Bucket /\ c.failed \in BOOLEAN
  BY <1>1 DEF CallType
<1>3. searched \subseteq Bucket /\ TRUE \in BOOLEAN
  BY <1>1 DEF BucketsTyped
<1>4. CASE StoppedBeforeLookup(t)
  <2>1. CASE c.todo[1].kind = "head"
    <3>1. NextJob(t, TRUE) /\ searched' = searched
      BY <1>4, <2>1 DEF StoppedBeforeLookup
    <3>2. c.op # "refresh"
      BY <1>1, <1>2, <2>1 DEF Legal, Ahead
    <3> QED
      BY <1>1, <1>3, <2>1, <3>1, <3>2, NextJobKeepsPass
  <2>2. CASE c.todo[1].kind # "head"
    <3>1. Leave(t, "error")
      BY <1>4, <2>2 DEF StoppedBeforeLookup
    <3> QED
      BY <1>1, <3>1, LeaveKeepsPass
  <2> QED
    BY <2>1, <2>2
<1>5. CASE LookupSucceeds(t)
  <2>1. /\ NextJob(t, c.failed) /\ searched' = searched \cup {c.bucket}
        /\ c.todo[1].kind # "self" /\ pc[t] = "search"
    BY <1>5 DEF LookupSucceeds, At
  <2>2. c.todo[1].kind = "bucket" => c.todo[1].index \in searched'
    BY <1>1, <2>1 DEF Legal
  <2>3. searched \subseteq searched' /\ searched' \subseteq Bucket
    BY <1>2, <1>3, <2>1
  <2> QED
    BY <1>1, <1>2, <2>1, <2>2, <2>3, NextJobKeepsPass
<1>6. CASE LookupFails(t)
  <2>1. CASE c.op = "replicate"
    <3>1. NextJob(t, TRUE) /\ searched' = searched
      BY <1>6, <2>1 DEF LookupFails
    <3> QED
      BY <1>1, <1>3, <2>1, <3>1, NextJobKeepsPass
  <2>2. CASE c.op # "replicate"
    <3>1. Leave(t, "error")
      BY <1>6, <2>2 DEF LookupFails
    <3> QED
      BY <1>1, <3>1, LeaveKeepsPass
  <2> QED
    BY <2>1, <2>2
<1> QED
  BY <1>4, <1>5, <1>6

LEMMA StepKeepsPass ==
  ASSUME GateInv, PassInv, NEW t \in Task, Step(t)
  PROVE  PassInv'
<1>1. CASE GiveUp(t)
  <2>1. PICK place : Moves(t, place, NoCall)
    BY <1>1, ReturnMoves DEF GiveUp
  <2>2. cancelled' \subseteq App
    BY <1>1, ReturnMoves DEF GiveUp, PassInv
  <2>3. UNCHANGED <<searched, due, stale>> /\ BucketsTyped'
    BY <1>1 DEF GiveUp, gateVars, PassInv, BucketsTyped
  <2> QED
    BY <2>1, <2>2, <2>3, MovesKeepPass
<1>2. CASE StoppedAtGate(t) \/ RefuseAddress(t) \/ RefreshAlone(t) \/ PingFails(t)
           \/ Finish(t)
  <2>1. /\ t \in Inside /\ UNCHANGED stale
        /\ \E r \in {"error", "nil"} : Leave(t, r)
    BY <1>2 DEF StoppedAtGate, RefuseAddress, RefreshAlone, PingFails, Finish, At,
                Inside, Held
  <2> QED
    BY <2>1, LeaveKeepsPass
<1> QED
  BY <1>1, <1>2, BeginKeepsPass, StartLookupKeepsPass, PeersFoundKeepsPass,
     LookupEndsKeepPass DEF Step

\* A call, the gate's acquisition and the end of a loop.
LEMMA EntryKeepsPass ==
  ASSUME GateInv, PassInv, NEW t \in Task,
         \/ \E op \in Op \ {"none"} : Call(t, op)
         \/ AcquireGate(t) \/ LoopStops(t)
  PROVE  PassInv'
<1> DEFINE c == call[t]
<1>1. c \in CallType /\ BucketsTyped /\ cancelled \subseteq App
  BY DEF PassInv
<1>2. ASSUME NEW op \in Op \ {"none"}, Call(t, op)
      PROVE  PassInv'
  <2>1. UNCHANGED <<searched, due, stale>> /\ BucketsTyped'
    BY <1>1, <1>2 DEF Call, gateVars, BucketsTyped
  <2>2. CASE done \/ netDone
    <3>1. PICK place : Moves(t, place, NoCall)
      BY <1>2, <2>2, ReturnMoves DEF Call
    <3>2. cancelled' \subseteq App
      BY <1>1, <1>2, <2>2, ReturnMoves DEF Call
    <3> QED
      BY <2>1, <3>1, <3>2, MovesKeepPass
  <2>3. CASE ~(done \/ netDone)
    <3> DEFINE d == [c EXCEPT !.op = op]
    <3>1. pc' = [pc EXCEPT ![t] = "gate"] /\ call' = [call EXCEPT ![t] = d]
          /\ cancelled' = cancelled
      BY <1>2, <2>3 DEF Call, Move, PassInv
    <3>2. d \in CallType
      BY <1>1 DEF CallType
    <3>3. Legal("gate", d, searched', due', stale')
      BY <3>2 DEF Legal, PC
    <3> QED
      BY <1>1, <2>1, <3>1, <3>3, MovesKeepPass DEF Moves
  <2> QED
    BY <2>2, <2>3
<1>3. CASE AcquireGate(t)
  <2>1. \A u \in Task : pc[u] \notin Held
    BY <1>3 DEF AcquireGate, GateInv, GateExclusive, Inside
  <2>2. /\ pc' = [pc EXCEPT ![t] = "check"] /\ call' = [call EXCEPT ![t] = c]
        /\ searched' = {} /\ due' = (IF c.op = "refresh" THEN stale ELSE {})
        /\ UNCHANGED <<stale, cancelled>>
    BY <1>3 DEF AcquireGate, Move, PassInv
  <2>3. Legal("check", c, searched', due', stale')
    BY <1>1, <2>2 DEF Legal, PC
  <2>4. BucketsTyped' /\ cancelled' \subseteq App
    BY <1>1, <2>2 DEF BucketsTyped
  <2> QED
    BY <2>1, <2>2, <2>3, <2>4, MovesKeepPass DEF Moves
<1>4. CASE LoopStops(t)
  <2>1. /\ pc' = [pc EXCEPT ![t] = "stopped"] /\ call' = [call EXCEPT ![t] = c]
        /\ UNCHANGED <<searched, due, stale, cancelled>>
    BY <1>4 DEF LoopStops, Move, PassInv, gateVars
  <2>2. Legal("stopped", c, searched', due', stale')
    BY <1>1 DEF Legal, PC
  <2>3. BucketsTyped' /\ cancelled' \subseteq App
    BY <1>1, <2>1 DEF BucketsTyped
  <2> QED
    BY <2>1, <2>2, <2>3, MovesKeepPass DEF Moves
<1> QED
  BY <1>2, <1>3, <1>4

\* Close, time, cancellation and the transport: buckets may only become stale.
LEMMA OthersKeepPass ==
  ASSUME PassInv, UNCHANGED <<pc, call, searched, due>>,
         stale \subseteq stale', stale' \subseteq Bucket, cancelled' \subseteq App
  PROVE  PassInv'
<1>1. ASSUME NEW u \in Task
      PROVE  Legal(pc'[u], call'[u], searched', due', stale')
  <2>1. Legal(pc[u], call[u], searched, due, stale)
    BY DEF PassInv
  <2> QED
    BY <2>1 DEF Legal
<1> QED
  BY <1>1 DEF PassInv, BucketsTyped

LEMMA PassInvStep == GateInv /\ PassInv /\ [Next]_vars => PassInv'
<1> SUFFICES ASSUME GateInv, PassInv, [Next]_vars PROVE PassInv'
  OBVIOUS
<1>0. stale \subseteq Bucket /\ cancelled \subseteq App
  BY DEF PassInv, BucketsTyped
<1>1. CASE UNCHANGED vars
  BY <1>0, <1>1, OthersKeepPass DEF vars, nodeVars, gateVars
<1>2. CASE \E c \in Closer : CloseCalled(c) \/ Closing(c)
  BY <1>0, <1>2, OthersKeepPass
  DEF CloseCalled, Closing, CloseNetwork, AwaitRefresh, AwaitReplication, CloseAgain,
      nodeVars, gateVars
<1>3. CASE Surroundings
  BY <1>0, <1>3, OthersKeepPass DEF Surroundings, Age, Cancel, TransportFails, nodeVars, gateVars
<1>4. \A t \in Loop : t \in Task
  BY DEF Task
<1> QED
  BY <1>1, <1>2, <1>3, <1>4, EntryKeepsPass, StepKeepsPass DEF Next

LEMMA InitPassInv == Init => PassInv
<1> SUFFICES ASSUME Init PROVE PassInv
  OBVIOUS
<1>1. Legal("idle", NoCall, searched, due, stale) /\ NoCall \in CallType
  BY NoCallLegal DEF Legal
<1> QED
  BY <1>1 DEF Init, PassInv, BucketsTyped, PC

\* The places of the callers of Close.
CloseInv ==
  /\ done \in BOOLEAN /\ netDone \in BOOLEAN
  /\ closer \in [Closer -> {"open", "once", "network", "refresh", "replication", "returned"}]
  /\ closeOnce \in {"unused", "running", "used"}

LEMMA CloseInvStep == CloseInv /\ [Next]_vars => CloseInv'
<1> SUFFICES ASSUME CloseInv, [Next]_vars PROVE CloseInv'
  OBVIOUS
<1>1. CASE UNCHANGED closeVars
  BY <1>1 DEF CloseInv, closeVars
<1>2. ASSUME NEW t \in Task, Step(t)
      PROVE  UNCHANGED closeVars
  BY <1>2 DEF Step, GiveUp, StoppedAtGate, RefuseAddress, StartJoin, PingAnswered,
       PingFails, RefreshAlone, StartRefresh, StartReplicate, StartLookup,
       StoppedBeforeLookup, PeersFound, LookupSucceeds, LookupFails, Finish
<1>3. ASSUME NEW c \in Closer, CloseCalled(c) \/ Closing(c)
      PROVE  CloseInv'
  BY <1>3 DEF CloseCalled, Closing, CloseNetwork, AwaitRefresh, AwaitReplication,
       CloseAgain, CloseInv
<1>4. CASE Surroundings
  BY <1>4 DEF Surroundings, Age, Cancel, TransportFails, closeVars, CloseInv
<1>5. CASE UNCHANGED vars
  BY <1>1, <1>5 DEF vars
<1> QED
  BY <1>1, <1>2, <1>3, <1>4, <1>5 DEF Next, Call, AcquireGate, LoopStops

\* Every variable keeps its type, and a lookup in hand is of a job in the queue.
THEOREM MaintenanceTypeCorrect == Spec => []TypeOK
<1>1. Init => CloseInv
  BY DEF Init, CloseInv
<1>2. GateInv /\ PassInv /\ CloseInv => TypeOK
  BY DEF GateInv, PassInv, CloseInv, TypeOK, BucketsTyped, Legal, CallType
<1> QED
  BY <1>1, <1>2, InitGateInv, GateInvStep, InitPassInv, PassInvStep, CloseInvStep, PTL
  DEF Spec

\* A pass that finishes has searched what it is for: a join every bucket farther
\* away than that of the closest peer it found (maintenance.go:12-13), and so the
\* bucket of every ID that is farther away than that peer; a refresh every bucket
\* that was stale when it took the gate (maintenance.go:51).
THEOREM PassesCover == Spec => PassCovers
<1>1. ASSUME GateInv, PassInv, NEW t \in Task, Finish(t)
      PROVE  /\ call[t].op = "join" =>
                  \A x \in KademliaID :
                    Less(CalcDistance(call[t].closest, Self), CalcDistance(x, Self))
                      => GetBucketIndex(Self, x) \in
                           searched \cup {GetBucketIndex(Self, call[t].closest)}
             /\ call[t].op = "refresh" => due \subseteq searched
  <2> DEFINE c == call[t]
  <2>1. /\ c.todo = <<>> /\ c \in CallType
        /\ Legal("lookup", c, searched, due, stale)
    BY <1>1 DEF Finish, At, PassInv
  <2>2. DOMAIN c.todo = {}
    BY <2>1
  <2>3. ASSUME c.op = "join", NEW x \in KademliaID,
               Less(CalcDistance(c.closest, Self), CalcDistance(x, Self))
        PROVE  GetBucketIndex(Self, x) \in searched \cup {GetBucketIndex(Self, c.closest)}
    <3> DEFINE n == GetBucketIndex(Self, x)
               k == GetBucketIndex(Self, c.closest)
    <3>1. c.closest \in KademliaID /\ Self \in KademliaID
      BY <2>1, MaintenanceAssumption DEF CallType
    <3>2. n \in Bucket /\ k \in Bucket /\ n \in Nat /\ k \in Nat
      BY <3>1, FirstBit, BitPlace
    <3>3. ~(k < n)
      <4> SUFFICES ASSUME k < n PROVE FALSE
        OBVIOUS
      <4>1. Less(CalcDistance(x, Self), CalcDistance(c.closest, Self))
        BY <3>1, LowerBucketIsFarther
      <4> QED
        BY <2>3, <3>1, <4>1, DistanceType, LessAsymmetric
    <3>4. c.todo # <<IdJob("self", Self)>>
      BY <2>1
    <3>5. Ahead(Farther(c), c.todo, searched)
      BY <2>1, <2>3, <3>4 DEF Legal
    <3>6. n < k => n \in searched
      BY <2>2, <3>2, <3>5 DEF Ahead, Farther
    <3> QED
      BY <3>2, <3>3, <3>6
  <2>4. c.op = "refresh" => due \subseteq searched
    BY <2>1, <2>2 DEF Legal, Ahead
  <2> QED
    BY <2>3, <2>4
<1>2. GateInv /\ PassInv /\ [Next]_vars =>
        [\A t \in Task : Finish(t) =>
           /\ call[t].op = "join" =>
                \A x \in KademliaID :
                  Less(CalcDistance(call[t].closest, Self), CalcDistance(x, Self))
                    => GetBucketIndex(Self, x) \in
                         searched \cup {GetBucketIndex(Self, call[t].closest)}
           /\ call[t].op = "refresh" => due \subseteq searched]_vars
  BY <1>1
<1> QED
  BY <1>2, InitGateInv, GateInvStep, InitPassInv, PassInvStep, PTL DEF Spec, PassCovers
=============================================================================
