------------------------------ MODULE XorMetric ------------------------------
(* Identifiers, the distance between them, and the buckets a node sorts its  *)
(* peers into (kademliaid.go, routingtable.go, routing_maintenance.go).      *)
(* The code's width is IDLength = 32 bytes of ByteBits = 8 bits; both are    *)
(* parameters here.  A byte is the function from a bit's weight to the bit,  *)
(* so that >> and & of the code are an application.                          *)
EXTENDS Integers

CONSTANTS IDLength, ByteBits

ASSUME WidthAssumption == IDLength \in Nat \ {0} /\ ByteBits \in Nat \ {0}

Weight == 0 .. ByteBits - 1
Position == 0 .. IDLength - 1
Byte == [Weight -> {0, 1}]
KademliaID == [Position -> Byte]

\* One bucket for every bit; bucket 0 holds the farthest half of all IDs.
Bucket == 0 .. IDLength * ByteBits - 1

\* Bitwise exclusive or.
CalcDistance(x, y) ==
  [i \in Position |-> [w \in Weight |-> IF x[i][w] = y[i][w] THEN 0 ELSE 1]]

\* Comparison of two bytes as numbers.
ByteLess(a, b) ==
  \E w \in Weight : /\ a[w] < b[w]
                    /\ \A v \in Weight : v > w => a[v] = b[v]

\* The first byte that differs decides.
Less(x, y) ==
  \E i \in Position : /\ ByteLess(x[i], y[i])
                      /\ \A j \in Position : j < i => x[j] = y[j]

\* The n-th bit of an ID, counted from the most significant one.
BitAt(x, n) == x[n \div ByteBits][ByteBits - 1 - (n % ByteBits)]

\* The first bit in which a distance is not zero: a node's own ID, at distance
\* zero, counts for the nearest bucket.
GetBucketIndex(self, id) ==
  LET distance == CalcDistance(id, self)
      Ones == {n \in Bucket : BitAt(distance, n) = 1}
  IN  IF Ones = {} THEN IDLength * ByteBits - 1
      ELSE CHOOSE n \in Ones : \A m \in Ones : n <= m

\* What is left of random bytes: zeros before the bucket's byte; in that byte,
\* the mask keeps the bits below the bucket's bit and the bit is then set.
\* For the top bit the mask 1 << 8 wraps to 0 and 0 - 1 to all ones.
MaskedDistance(random, index) ==
  LET byteIndex == index \div ByteBits
      bit == ByteBits - 1 - (index % ByteBits)
  IN  [i \in Position |->
         [w \in Weight |->
            IF i < byteIndex THEN 0
            ELSE IF i = byteIndex /\ w > bit THEN 0
            ELSE IF i = byteIndex /\ w = bit THEN 1
            ELSE random[i][w]]]

\* The target a refresh of one bucket looks up, for the random bytes it drew.
RandomBucketTarget(self, index, random) ==
  CalcDistance(self, MaskedDistance(random, index))
=============================================================================
