-------------------------- MODULE RoutingTableProofs --------------------------
(* Lemmas about the operators of module RoutingTable.                      *)
EXTENDS RoutingTable, TLAPS

-----------------------------------------------------------------------------
(* Lists.                                                                  *)

\* Removing an index of a list of peers leaves a list of peers, in order.
LEMMA RemoveIndexFacts ==
  ASSUME NEW s \in Seq(Peer), NEW i \in 1 .. Len(s)
  PROVE  /\ RemoveIndex(s, i) \in Seq(Peer)
         /\ Len(RemoveIndex(s, i)) = Len(s) - 1
         /\ DOMAIN RemoveIndex(s, i) = 1 .. Len(s) - 1
         /\ \A j \in 1 .. Len(s) - 1 :
              RemoveIndex(s, i)[j] = IF j < i THEN s[j] ELSE s[j + 1]
<1> DEFINE r == RemoveIndex(s, i)
<1>1. Len(s) \in Nat /\ Len(s) - 1 \in Nat
  OBVIOUS
<1>2. r = [j \in 1 .. Len(s) - 1 |-> IF j < i THEN s[j] ELSE s[j + 1]]
  BY DEF RemoveIndex
<1>3. \A j \in 1 .. Len(s) - 1 : (IF j < i THEN s[j] ELSE s[j + 1]) \in Peer
  BY <1>1
<1>4. r \in [1 .. Len(s) - 1 -> Peer]
  BY <1>2, <1>3
<1>5. r \in Seq(Peer) /\ Len(r) = Len(s) - 1
  BY <1>1, <1>4
<1> QED
  BY <1>2, <1>4, <1>5

\* A list without n: the elements but n, each once, in their order.
LEMMA WithoutFacts ==
  ASSUME NEW s \in Seq(Peer), NEW n,
         \A i, j \in DOMAIN s : s[i] = s[j] => i = j
  PROVE  /\ Without(s, n) \in Seq(Peer)
         /\ \A j \in DOMAIN Without(s, n) :
              Without(s, n)[j] # n /\ \E i \in DOMAIN s : s[i] = Without(s, n)[j]
         /\ \A i \in DOMAIN s : s[i] # n =>
              \E j \in DOMAIN Without(s, n) : Without(s, n)[j] = s[i]
         /\ \A j, k \in DOMAIN Without(s, n) : j < k =>
              \E x, y \in DOMAIN s :
                x < y /\ s[x] = Without(s, n)[j] /\ s[y] = Without(s, n)[k]
         /\ Len(Without(s, n)) =< Len(s)
         /\ (\E i \in DOMAIN s : s[i] = n) => Len(Without(s, n)) = Len(s) - 1
<1>1. CASE ~ \E i \in DOMAIN s : s[i] = n
  BY <1>1 DEF Without
<1>2. CASE \E i \in DOMAIN s : s[i] = n
  <2> DEFINE i == CHOOSE x \in DOMAIN s : s[x] = n
             r == RemoveIndex(s, i)
             Old(j) == IF j < i THEN j ELSE j + 1
  <2>1. i \in 1 .. Len(s) /\ s[i] = n
    BY <1>2
  <2>2. Without(s, n) = r
    BY <1>2 DEF Without
  <2> HIDE DEF i
  <2>3. /\ r \in Seq(Peer)
        /\ Len(r) = Len(s) - 1
        /\ DOMAIN r = 1 .. Len(s) - 1
        /\ \A j \in 1 .. Len(s) - 1 : r[j] = IF j < i THEN s[j] ELSE s[j + 1]
    BY <2>1, RemoveIndexFacts
  <2> HIDE DEF r
  <2>4. \A j \in DOMAIN r : Old(j) \in DOMAIN s /\ Old(j) # i /\ r[j] = s[Old(j)]
    BY <2>1, <2>3
  <2>5. \A j, k \in DOMAIN r : j < k => Old(j) < Old(k)
    BY <2>1, <2>3
  <2>6. \A x \in DOMAIN s : x # i => \E j \in DOMAIN r : Old(j) = x
    <3> SUFFICES ASSUME NEW x \in DOMAIN s, x # i
                 PROVE  \E j \in DOMAIN r : Old(j) = x
      OBVIOUS
    <3>1. CASE x < i
      <4>1. x \in DOMAIN r /\ Old(x) = x
        BY <3>1, <2>1, <2>3
      <4> QED
        BY <4>1
    <3>2. CASE x > i
      <4>1. x - 1 \in DOMAIN r /\ Old(x - 1) = x
        BY <3>2, <2>1, <2>3
      <4> QED
        BY <4>1
    <3> QED
      BY <3>1, <3>2, <2>1
  <2> HIDE DEF Old
  <2>7. \A j \in DOMAIN r : r[j] # n /\ \E x \in DOMAIN s : s[x] = r[j]
    BY <2>1, <2>4
  <2>8. \A x \in DOMAIN s : s[x] # n => \E j \in DOMAIN r : r[j] = s[x]
    <3> SUFFICES ASSUME NEW x \in DOMAIN s, s[x] # n
                 PROVE  \E j \in DOMAIN r : r[j] = s[x]
      OBVIOUS
    <3>1. x # i
      BY <2>1
    <3>2. PICK j \in DOMAIN r : Old(j) = x
      BY <3>1, <2>6
    <3> QED
      BY <3>2, <2>4
  <2>9. \A j, k \in DOMAIN r : j < k =>
          \E x, y \in DOMAIN s : x < y /\ s[x] = r[j] /\ s[y] = r[k]
    BY <2>4, <2>5
  <2>10. Len(r) =< Len(s)
    BY <2>3
  <2> QED
    BY <2>2, <2>3, <2>7, <2>8, <2>9, <2>10
<1> QED
  BY <1>1, <1>2

\* n in front of the rest of the list.
LEMMA ToFrontFacts ==
  ASSUME NEW s \in Seq(Peer), NEW n \in Peer, Without(s, n) \in Seq(Peer)
  PROVE  /\ ToFront(s, n) \in Seq(Peer)
         /\ Len(ToFront(s, n)) = Len(Without(s, n)) + 1
         /\ ToFront(s, n)[1] = n
         /\ \A j \in DOMAIN ToFront(s, n) : j # 1 =>
              /\ j - 1 \in DOMAIN Without(s, n)
              /\ ToFront(s, n)[j] = Without(s, n)[j - 1]
         /\ \A j \in DOMAIN Without(s, n) :
              /\ j + 1 \in DOMAIN ToFront(s, n)
              /\ ToFront(s, n)[j + 1] = Without(s, n)[j]
<1> DEFINE w == Without(s, n)
           f == ToFront(s, n)
<1>1. Len(w) \in Nat /\ DOMAIN w = 1 .. Len(w) /\ \A j \in 1 .. Len(w) : w[j] \in Peer
  OBVIOUS
<1>2. f = [j \in 1 .. Len(w) + 1 |-> IF j = 1 THEN n ELSE w[j - 1]]
  BY DEF ToFront
<1> HIDE DEF w, f
<1>3. f \in [1 .. Len(w) + 1 -> Peer]
  <2>1. \A j \in 1 .. Len(w) + 1 : (IF j = 1 THEN n ELSE w[j - 1]) \in Peer
    BY <1>1
  <2> QED
    BY <2>1, <1>2
<1>4. f \in Seq(Peer) /\ Len(f) = Len(w) + 1 /\ DOMAIN f = 1 .. Len(w) + 1
  BY <1>1, <1>3
<1>5. f[1] = n
  BY <1>1, <1>2
<1>6. \A j \in DOMAIN f : j # 1 => j - 1 \in DOMAIN w /\ f[j] = w[j - 1]
  BY <1>1, <1>2, <1>4
<1>7. \A j \in DOMAIN w : j + 1 \in DOMAIN f /\ f[j + 1] = w[j]
  BY <1>1, <1>2, <1>4
<1> QED
  BY <1>4, <1>5, <1>6, <1>7 DEF w, f

-----------------------------------------------------------------------------
(* One bucket.                                                             *)

LEMMA BucketAddType ==
  ASSUME NEW bk \in BucketType, NEW n \in Peer,
         \A i, j \in DOMAIN bk.list : bk.list[i] = bk.list[j] => i = j
  PROVE  BucketAdd(bk, n) \in BucketType
<1>1. bk.list \in Seq(Peer) /\ bk.versions \in [Peer -> Nat] /\ bk.version \in Nat
  BY DEF BucketType
<1>2. ToFront(bk.list, n) \in Seq(Peer)
  BY <1>1, WithoutFacts, ToFrontFacts
<1>3. [bk.versions EXCEPT ![n] = bk.version + 1] \in [Peer -> Nat]
  BY <1>1
<1> QED
  BY <1>1, <1>2, <1>3 DEF BucketAdd, BucketType

LEMMA BucketRemoveType ==
  ASSUME NEW bk \in BucketType, NEW n \in Peer,
         \A i, j \in DOMAIN bk.list : bk.list[i] = bk.list[j] => i = j
  PROVE  BucketRemove(bk, n) \in BucketType
<1>1. bk.list \in Seq(Peer) /\ bk.versions \in [Peer -> Nat]
  BY DEF BucketType
<1>2. Without(bk.list, n) \in Seq(Peer)
  BY <1>1, WithoutFacts
<1>3. [bk.versions EXCEPT ![n] = 0] \in [Peer -> Nat]
  BY <1>1
<1> QED
  BY <1>1, <1>2, <1>3 DEF BucketRemove, BucketType

\* bucket.AddContact keeps a bucket good.
LEMMA BucketAddGood ==
  ASSUME NEW b \in Bucket, NEW bk \in BucketType, GoodBucket(bk, b),
         NEW n \in Peer, BucketOf[n] = b
  PROVE  GoodBucket(BucketAdd(bk, n), b)
<1>1. CASE ~(n \in Listed(bk) \/ Len(bk.list) < K)
  BY <1>1 DEF BucketAdd
<1>2. CASE n \in Listed(bk) \/ Len(bk.list) < K
  <2> DEFINE l == bk.list
             w == Without(l, n)
             f == ToFront(l, n)
             new == BucketAdd(bk, n)
  <2>1. /\ l \in Seq(Peer) /\ Len(l) \in Nat /\ K \in Nat
        /\ bk.versions \in [Peer -> Nat] /\ bk.version \in Nat
    BY KAssumption DEF BucketType
  <2>2. \A i, j \in DOMAIN l : l[i] = l[j] => i = j
    BY DEF GoodBucket, NoDuplicates
  <2>3. /\ w \in Seq(Peer)
        /\ \A j \in DOMAIN w : w[j] # n /\ \E i \in DOMAIN l : l[i] = w[j]
        /\ \A i \in DOMAIN l : l[i] # n => \E j \in DOMAIN w : w[j] = l[i]
        /\ \A j, k \in DOMAIN w : j < k =>
             \E x, y \in DOMAIN l : x < y /\ l[x] = w[j] /\ l[y] = w[k]
        /\ Len(w) =< Len(l)
        /\ (\E i \in DOMAIN l : l[i] = n) => Len(w) = Len(l) - 1
    BY <2>1, <2>2, WithoutFacts
  <2>4. /\ f \in Seq(Peer)
        /\ Len(f) = Len(w) + 1
        /\ f[1] = n
        /\ \A j \in DOMAIN f : j # 1 => j - 1 \in DOMAIN w /\ f[j] = w[j - 1]
        /\ \A j \in DOMAIN w : j + 1 \in DOMAIN f /\ f[j + 1] = w[j]
    BY <2>1, <2>3, ToFrontFacts
  <2>5. /\ new.list = f
        /\ new.version = bk.version + 1
        /\ new.versions = [bk.versions EXCEPT ![n] = bk.version + 1]
    BY <1>2 DEF BucketAdd, BucketType
  <2>6. /\ \A m \in Peer : bk.versions[m] =< bk.version
        /\ \A m \in Peer : bk.versions[m] # 0 <=> m \in Listed(bk)
        /\ \A m \in Listed(bk) : BucketOf[m] = b
        /\ \A i, j \in DOMAIN l : i < j => bk.versions[l[i]] > bk.versions[l[j]]
        /\ Len(l) =< K
    BY DEF GoodBucket, ListByVersion, VersionsMatchList, NoDuplicates
  <2> HIDE DEF new, f, w
  <2>7. Len(f) =< K
    <3>1. CASE n \in Listed(bk)
      <4>1. \E i \in DOMAIN l : l[i] = n
        BY <3>1 DEF Listed
      <4>2. Len(w) = Len(l) - 1
        BY <4>1, <2>3
      <4>3. Len(f) = Len(w) + 1
        BY <2>4
      <4> QED
        BY <4>2, <4>3, <2>1, <2>6
    <3>2. CASE Len(l) < K
      <4>1. Len(w) \in Nat
        BY <2>3
      <4> QED
        BY <4>1, <3>2, <2>1, <2>3, <2>4
    <3> QED
      BY <1>2, <3>1, <3>2
  <2>8. \A i, j \in DOMAIN f : i < j =>
          /\ new.versions[f[i]] > new.versions[f[j]]
          /\ f[i] # f[j]
    <3> SUFFICES ASSUME NEW i \in DOMAIN f, NEW j \in DOMAIN f, i < j
                 PROVE  /\ new.versions[f[i]] > new.versions[f[j]]
                        /\ f[i] # f[j]
      OBVIOUS
    <3>0. i \in Nat /\ j \in Nat /\ i >= 1 /\ j # 1 /\ f[i] \in Peer /\ f[j] \in Peer
      BY <2>4
    <3>1. j - 1 \in DOMAIN w /\ f[j] = w[j - 1] /\ f[j] # n
      BY <3>0, <2>3, <2>4
    <3>2. new.versions[f[j]] = bk.versions[f[j]] /\ bk.versions[f[j]] \in Nat
      BY <3>0, <3>1, <2>1, <2>5
    <3>3. CASE i = 1
      <4>1. new.versions[f[i]] = bk.version + 1
        BY <3>3, <2>1, <2>4, <2>5
      <4>2. bk.versions[f[j]] =< bk.version
        BY <3>0, <2>6
      <4> QED
        BY <4>1, <4>2, <3>1, <3>2, <3>3, <2>1, <2>4
    <3>4. CASE i # 1
      <4>1. i - 1 \in DOMAIN w /\ f[i] = w[i - 1] /\ f[i] # n
        BY <3>4, <2>3, <2>4
      <4>2. i - 1 < j - 1
        BY <3>0
      <4>3. PICK x, y \in DOMAIN l : x < y /\ l[x] = w[i - 1] /\ l[y] = w[j - 1]
        BY <3>1, <4>1, <4>2, <2>3
      <4>4. bk.versions[f[i]] > bk.versions[f[j]]
        BY <3>1, <4>1, <4>3, <2>6
      <4>5. new.versions[f[i]] = bk.versions[f[i]]
        BY <3>0, <4>1, <2>1, <2>5
      <4>6. bk.versions[f[i]] \in Nat
        BY <3>0, <2>1
      <4> QED
        BY <4>4, <4>5, <4>6, <3>2
    <3> QED
      BY <3>3, <3>4
  <2>9. \A m \in Peer : m \in Listed(new) <=> m = n \/ m \in Listed(bk)
    <3> SUFFICES ASSUME NEW m \in Peer
                 PROVE  m \in Listed(new) <=> m = n \/ m \in Listed(bk)
      OBVIOUS
    <3>1. ASSUME m \in Listed(new), m # n PROVE m \in Listed(bk)
      <4>1. PICK j \in DOMAIN f : f[j] = m
        BY <3>1, <2>5 DEF Listed
      <4>2. j # 1 /\ j - 1 \in DOMAIN w /\ w[j - 1] = m
        BY <4>1, <3>1, <2>4
      <4> QED
        BY <4>2, <2>3 DEF Listed
    <3>2. n \in Listed(new)
      <4>1. 1 \in DOMAIN f
        BY <2>3, <2>4
      <4> QED
        BY <4>1, <2>4, <2>5 DEF Listed
    <3>3. ASSUME m \in Listed(bk), m # n PROVE m \in Listed(new)
      <4>1. PICK i \in DOMAIN l : l[i] = m
        BY <3>3 DEF Listed
      <4>2. PICK j \in DOMAIN w : w[j] = m
        BY <4>1, <3>3, <2>3
      <4>3. j + 1 \in DOMAIN f /\ f[j + 1] = m
        BY <4>2, <2>4
      <4> QED
        BY <4>3, <2>5 DEF Listed
    <3> QED
      BY <3>1, <3>2, <3>3
  <2>10. Len(new.list) =< K
    BY <2>5, <2>7
  <2>11. NoDuplicates(new, b)
    <3>1. \A i, j \in DOMAIN f : f[i] = f[j] => i = j
      <4>1. \A i, j \in DOMAIN f : i = j \/ i < j \/ j < i
        BY <2>4
      <4> QED
        BY <4>1, <2>8
    <3>2. \A m \in Listed(new) : m \in Peer
      BY <2>4, <2>5 DEF Listed
    <3> QED
      BY <3>1, <3>2, <2>5, <2>6, <2>9 DEF NoDuplicates
  <2>12. VersionsMatchList(new)
    BY <2>1, <2>5, <2>6, <2>9 DEF VersionsMatchList
  <2>13. ListByVersion(new)
    <3>1. \A m \in Peer : new.versions[m] =< new.version
      BY <2>1, <2>5, <2>6
    <3> QED
      BY <3>1, <2>5, <2>8 DEF ListByVersion
  <2> QED
    BY <2>10, <2>11, <2>12, <2>13 DEF GoodBucket, new
<1> QED
  BY <1>1, <1>2

\* bucket.remove keeps a bucket good.
LEMMA BucketRemoveGood ==
  ASSUME NEW b \in Bucket, NEW bk \in BucketType, GoodBucket(bk, b),
         NEW n \in Peer
  PROVE  GoodBucket(BucketRemove(bk, n), b)
<1>1. CASE n \notin Listed(bk)
  BY <1>1 DEF BucketRemove
<1>2. CASE n \in Listed(bk)
  <2> DEFINE l == bk.list
             w == Without(l, n)
             new == BucketRemove(bk, n)
  <2>1. /\ l \in Seq(Peer) /\ Len(l) \in Nat /\ K \in Nat
        /\ bk.versions \in [Peer -> Nat] /\ bk.version \in Nat
    BY KAssumption DEF BucketType
  <2>2. \A i, j \in DOMAIN l : l[i] = l[j] => i = j
    BY DEF GoodBucket, NoDuplicates
  <2>3. /\ w \in Seq(Peer)
        /\ \A j \in DOMAIN w : w[j] # n /\ \E i \in DOMAIN l : l[i] = w[j]
        /\ \A i \in DOMAIN l : l[i] # n => \E j \in DOMAIN w : w[j] = l[i]
        /\ \A j, k \in DOMAIN w : j < k =>
             \E x, y \in DOMAIN l : x < y /\ l[x] = w[j] /\ l[y] = w[k]
        /\ Len(w) =< Len(l)
        /\ (\E i \in DOMAIN l : l[i] = n) => Len(w) = Len(l) - 1
    BY <2>1, <2>2, WithoutFacts
  <2>4. /\ new.list = w
        /\ new.version = bk.version
        /\ new.versions = [bk.versions EXCEPT ![n] = 0]
    BY <1>2 DEF BucketRemove, BucketType
  <2>5. /\ \A m \in Peer : bk.versions[m] =< bk.version
        /\ \A m \in Peer : bk.versions[m] # 0 <=> m \in Listed(bk)
        /\ \A m \in Listed(bk) : BucketOf[m] = b
        /\ \A i, j \in DOMAIN l : i < j => bk.versions[l[i]] > bk.versions[l[j]]
        /\ Len(l) =< K
    BY DEF GoodBucket, ListByVersion, VersionsMatchList, NoDuplicates
  <2> HIDE DEF new, w
  <2>6. \A i, j \in DOMAIN w : i < j =>
          /\ new.versions[w[i]] > new.versions[w[j]]
          /\ w[i] # w[j]
    <3> SUFFICES ASSUME NEW i \in DOMAIN w, NEW j \in DOMAIN w, i < j
                 PROVE  /\ new.versions[w[i]] > new.versions[w[j]]
                        /\ w[i] # w[j]
      OBVIOUS
    <3>1. w[i] \in Peer /\ w[j] \in Peer /\ w[i] # n /\ w[j] # n
      BY <2>3
    <3>2. PICK x, y \in DOMAIN l : x < y /\ l[x] = w[i] /\ l[y] = w[j]
      BY <2>3
    <3>3. bk.versions[w[i]] > bk.versions[w[j]]
      BY <3>2, <2>5
    <3>4. /\ new.versions[w[i]] = bk.versions[w[i]]
          /\ new.versions[w[j]] = bk.versions[w[j]]
          /\ bk.versions[w[i]] \in Nat /\ bk.versions[w[j]] \in Nat
      BY <3>1, <2>1, <2>4
    <3> QED
      BY <3>3, <3>4
  <2>7. \A m \in Peer : m \in Listed(new) <=> m # n /\ m \in Listed(bk)
    BY <2>3, <2>4 DEF Listed
  <2>8. Len(new.list) =< K
    <3>1. Len(w) \in Nat
      BY <2>3
    <3> QED
      BY <3>1, <2>1, <2>3, <2>4, <2>5
  <2>9. NoDuplicates(new, b)
    <3>1. \A i, j \in DOMAIN w : w[i] = w[j] => i = j
      <4>1. \A i, j \in DOMAIN w : i = j \/ i < j \/ j < i
        BY <2>3
      <4> QED
        BY <4>1, <2>6
    <3>2. \A m \in Listed(new) : m \in Peer
      BY <2>3, <2>4 DEF Listed
    <3> QED
      BY <3>1, <3>2, <2>4, <2>5, <2>7 DEF NoDuplicates
  <2>10. VersionsMatchList(new)
    BY <2>1, <2>4, <2>5, <2>7 DEF VersionsMatchList
  <2>11. ListByVersion(new)
    <3>1. \A m \in Peer : new.versions[m] =< new.version
      BY <2>1, <2>4, <2>5
    <3> QED
      BY <3>1, <2>4, <2>6 DEF ListByVersion
  <2> QED
    BY <2>8, <2>9, <2>10, <2>11 DEF GoodBucket, new
<1> QED
  BY <1>1, <1>2

LEMMA BucketAddEffect ==
  ASSUME NEW bk \in BucketType, NEW n \in Peer, NEW u, u = BucketAdd(bk, n)
  PROVE  /\ u.version >= bk.version /\ u.version \in Nat
         /\ u.probing = bk.probing
         /\ \A m \in Peer : m # n => u.versions[m] = bk.versions[m]
         /\ u.versions[n] = bk.versions[n] \/ u.versions[n] = bk.version + 1
         /\ n \in Listed(bk) \/ Len(bk.list) < K => u.versions[n] = bk.version + 1
  BY DEF BucketAdd, BucketType

LEMMA BucketRemoveEffect ==
  ASSUME NEW bk \in BucketType, NEW n \in Peer, NEW u, u = BucketRemove(bk, n)
  PROVE  /\ u.version = bk.version
         /\ u.probing = bk.probing
         /\ \A m \in Peer : m # n => u.versions[m] = bk.versions[m]
         /\ u.versions[n] = bk.versions[n] \/ u.versions[n] = 0
  BY DEF BucketRemove, BucketType

-----------------------------------------------------------------------------
(* The table.  GoodTable is what the operations preserve; VersionStep is   *)
(* what they do to the versions: a peer keeps its version, loses it, or    *)
(* gets one that no peer of its bucket ever had.                           *)

GoodTable(t) == t \in TableType /\ \A b \in Bucket : GoodBucket(t[b], b)

GoodProbe(p) ==
  /\ p \in ProbeType
  /\ BucketOf[p.old] = p.bucket /\ BucketOf[p.replacement] = p.bucket
  /\ p.version # 0

VersionStep(t, u) ==
  \A m \in Peer :
    /\ u[BucketOf[m]].version >= t[BucketOf[m]].version
    /\ \/ u[BucketOf[m]].versions[m] = t[BucketOf[m]].versions[m]
       \/ u[BucketOf[m]].versions[m] = 0
       \/ u[BucketOf[m]].versions[m] > t[BucketOf[m]].version

LEMMA GoodBucketType ==
  ASSUME NEW t, GoodTable(t), NEW b \in Bucket
  PROVE  /\ t[b] \in BucketType /\ GoodBucket(t[b], b)
         /\ \A i, j \in DOMAIN t[b].list : t[b].list[i] = t[b].list[j] => i = j
         /\ t[b].version \in Nat
         /\ t[b].versions \in [Peer -> Nat]
         /\ \A m \in Peer : t[b].versions[m] \in Nat /\ t[b].versions[m] =< t[b].version
  BY DEF GoodTable, TableType, BucketType, GoodBucket, NoDuplicates, ListByVersion

\* In a good table the peers listed are those that have a version.
LEMMA InTableVersion ==
  ASSUME NEW t, GoodTable(t), NEW m \in Peer
  PROVE  InTable(t, m) <=> t[BucketOf[m]].versions[m] # 0
  BY BucketAssumption DEF GoodTable, GoodBucket, VersionsMatchList, InTable

\* u is t with bucket b replaced by a good one whose versions have moved on.
GoodUpdate(t, u, b) ==
  /\ u \in TableType
  /\ \A c \in Bucket : c # b => u[c] = t[c]
  /\ GoodBucket(u[b], b)
  /\ u[b].version >= t[b].version
  /\ \A m \in Peer : \/ u[b].versions[m] = t[b].versions[m]
                     \/ u[b].versions[m] = 0
                     \/ u[b].versions[m] > t[b].version

LEMMA UpdateFacts ==
  ASSUME NEW t, GoodTable(t), NEW b \in Bucket, NEW u, GoodUpdate(t, u, b)
  PROVE  GoodTable(u) /\ VersionStep(t, u)
<1>1. GoodTable(u)
  BY DEF GoodTable, GoodUpdate
<1>2. VersionStep(t, u)
  <2> SUFFICES ASSUME NEW m \in Peer
               PROVE  /\ u[BucketOf[m]].version >= t[BucketOf[m]].version
                      /\ \/ u[BucketOf[m]].versions[m] = t[BucketOf[m]].versions[m]
                         \/ u[BucketOf[m]].versions[m] = 0
                         \/ u[BucketOf[m]].versions[m] > t[BucketOf[m]].version
    BY DEF VersionStep
  <2>1. BucketOf[m] \in Bucket /\ t[BucketOf[m]].version \in Nat
    BY GoodBucketType, BucketAssumption
  <2> QED
    BY <2>1 DEF GoodUpdate
<1> QED
  BY <1>1, <1>2

LEMMA NewTableGood == GoodTable(NewRoutingTable)
<1>1. EmptyBucket \in BucketType
  <2>1. << >> \in Seq(Peer)
    OBVIOUS
  <2> QED
    BY <2>1 DEF EmptyBucket, BucketType
<1>2. ASSUME NEW b \in Bucket PROVE GoodBucket(EmptyBucket, b)
  <2>1. EmptyBucket.list = << >> /\ EmptyBucket.version = 0
        /\ EmptyBucket.versions = [n \in Peer |-> 0]
    BY DEF EmptyBucket
  <2>2. Len(<< >>) = 0 /\ DOMAIN << >> = {}
    OBVIOUS
  <2> QED
    BY <2>1, <2>2, KAssumption
    DEF GoodBucket, NoDuplicates, VersionsMatchList, ListByVersion, Listed
<1> QED
  BY <1>1, <1>2 DEF GoodTable, NewRoutingTable, TableType

\* RoutingTable.AddContact.
LEMMA AddContactFacts ==
  ASSUME NEW t, GoodTable(t), NEW n \in Node, NEW u, u = AddContact(t, n)
  PROVE  /\ GoodTable(u)
         /\ VersionStep(t, u)
         /\ \A b \in Bucket : u[b].probing = t[b].probing
         /\ \A m \in Peer : InTable(t, m) => InTable(u, m)
<1>1. CASE n = Self
  BY <1>1, GoodBucketType, BucketAssumption DEF AddContact, VersionStep
<1>2. CASE n # Self
  <2> DEFINE b == BucketOf[n]
             bk == BucketAdd(t[b], n)
  <2>1. n \in Peer /\ b \in Bucket /\ t[b] \in BucketType /\ GoodBucket(t[b], b)
    BY <1>2, GoodBucketType, BucketAssumption DEF Node
  <2>2. bk \in BucketType
    BY <2>1, BucketAddType, GoodBucketType
  <2>3. GoodBucket(bk, b)
    BY <2>1, BucketAddGood
  <2>4. /\ bk.version >= t[b].version
        /\ bk.probing = t[b].probing
        /\ \A m \in Peer : m # n => bk.versions[m] = t[b].versions[m]
        /\ bk.versions[n] = t[b].versions[n] \/ bk.versions[n] = t[b].version + 1
    BY <2>1, BucketAddEffect
  <2> HIDE DEF bk
  <2>5. u = [t EXCEPT ![b] = bk]
    BY <1>2 DEF AddContact, bk
  <2>6. \A m \in Peer : \/ bk.versions[m] = t[b].versions[m]
                        \/ bk.versions[m] > t[b].version
    <3>1. t[b].version \in Nat
      BY <2>1, GoodBucketType
    <3> QED
      BY <3>1, <2>4
  <2>7. /\ u \in TableType
        /\ u[b] = bk
        /\ \A c \in Bucket : c # b => u[c] = t[c]
    BY <2>1, <2>2, <2>5 DEF GoodTable, TableType
  <2>8. GoodTable(u) /\ VersionStep(t, u)
    <3>1. GoodUpdate(t, u, b)
      BY <2>3, <2>4, <2>6, <2>7 DEF GoodUpdate
    <3> QED
      BY <2>1, <3>1, UpdateFacts
  <2>9. \A m \in Peer : InTable(t, m) => InTable(u, m)
    <3> SUFFICES ASSUME NEW m \in Peer, t[BucketOf[m]].versions[m] # 0
                 PROVE  u[BucketOf[m]].versions[m] # 0
      BY <2>8, InTableVersion
    <3>1. BucketOf[m] \in Bucket /\ t[b].version \in Nat
      BY <2>1, GoodBucketType, BucketAssumption
    <3> QED
      BY <3>1, <2>4, <2>7
  <2>10. \A c \in Bucket : u[c].probing = t[c].probing
    BY <2>4, <2>7
  <2> QED
    BY <2>8, <2>9, <2>10
<1> QED
  BY <1>1, <1>2

\* finishProbe(probe, timedOut): it ends the reservation, and the only peer it
\* may drop is the one probed, at the version of the probe.
LEMMA FinishProbeFacts ==
  ASSUME NEW t, GoodTable(t), NEW p, GoodProbe(p), NEW timedOut \in BOOLEAN,
         NEW u, u = FinishProbe(t, p, timedOut)
  PROVE  /\ GoodTable(u)
         /\ VersionStep(t, u)
         /\ ~u[p.bucket].probing
         /\ \A b \in Bucket : b # p.bucket => u[b].probing = t[b].probing
         /\ ~(timedOut /\ ProbeCurrent(t, p)) =>
              \A m \in Peer : InTable(t, m) => InTable(u, m)
<1> DEFINE b == p.bucket
           b0 == [t[b] EXCEPT !.probing = FALSE]
           current == b0.versions[p.old]
           b1 == IF current # 0 THEN BucketRemove(b0, p.old) ELSE b0
           bk == Replace(b0, p, timedOut)
           n == p.replacement
<1>1. /\ b \in Bucket /\ p.old \in Peer /\ n \in Peer /\ BucketOf[n] = b
      /\ BucketOf[p.old] = b /\ p.version \in Nat
  BY DEF GoodProbe, ProbeType
<1>2. /\ t[b] \in BucketType /\ GoodBucket(t[b], b) /\ t[b].version \in Nat
      /\ t[b].versions \in [Peer -> Nat]
  BY <1>1, GoodBucketType
<1>3. /\ b0 \in BucketType /\ ~b0.probing
      /\ b0.list = t[b].list /\ b0.versions = t[b].versions /\ b0.version = t[b].version
  BY <1>2 DEF BucketType
<1>4. GoodBucket(b0, b)
  BY <1>2, <1>3 DEF GoodBucket, NoDuplicates, VersionsMatchList, ListByVersion, Listed
<1>5. u = [t EXCEPT ![b] = bk]
  BY DEF FinishProbe
<1>6. bk = IF ~timedOut \/ (current # 0 /\ current # p.version) THEN b0
           ELSE BucketAdd(b1, n)
  BY DEF Replace
<1> HIDE DEF b0, b, n, bk
<1>7. /\ b1 \in BucketType /\ GoodBucket(b1, b)
      /\ b1.version = t[b].version /\ ~b1.probing
      /\ \A m \in Peer : b1.versions[m] = t[b].versions[m] \/ b1.versions[m] = 0
      /\ current = 0 => b1 = b0
  <2>1. CASE current = 0
    BY <2>1, <1>2, <1>3, <1>4
  <2>2. CASE current # 0
    <3>0. b1 = BucketRemove(b0, p.old)
      BY <2>2
    <3> HIDE DEF b1, current
    <3>1. \A i, j \in DOMAIN b0.list : b0.list[i] = b0.list[j] => i = j
      BY <1>4 DEF GoodBucket, NoDuplicates
    <3>2. b1 \in BucketType
      BY <3>0, <3>1, <1>1, <1>3, BucketRemoveType
    <3>3. GoodBucket(b1, b)
      BY <3>0, <1>1, <1>3, <1>4, BucketRemoveGood
    <3>4. /\ b1.version = b0.version
          /\ b1.probing = b0.probing
          /\ \A m \in Peer : m # p.old => b1.versions[m] = b0.versions[m]
          /\ b1.versions[p.old] = b0.versions[p.old] \/ b1.versions[p.old] = 0
      BY <3>0, <1>1, <1>3, BucketRemoveEffect
    <3> QED
      BY <2>2, <3>2, <3>3, <3>4, <1>1, <1>3
  <2> QED
    BY <2>1, <2>2
<1> HIDE DEF b1
<1>8. \A i, j \in DOMAIN b1.list : b1.list[i] = b1.list[j] => i = j
  BY <1>7 DEF GoodBucket, NoDuplicates
<1>9. LET a == BucketAdd(b1, n)
      IN  /\ a \in BucketType /\ GoodBucket(a, b)
          /\ a.version >= t[b].version /\ ~a.probing
          /\ \A m \in Peer : a.versions[m] = b1.versions[m] \/ a.versions[m] > t[b].version
  <2> DEFINE a == BucketAdd(b1, n)
  <2>1. a \in BucketType
    BY <1>1, <1>7, <1>8, BucketAddType
  <2>2. GoodBucket(a, b)
    BY <1>1, <1>7, BucketAddGood
  <2>3. /\ a.version >= b1.version
        /\ a.probing = b1.probing
        /\ \A m \in Peer : m # n => a.versions[m] = b1.versions[m]
        /\ a.versions[n] = b1.versions[n] \/ a.versions[n] = b1.version + 1
    BY <1>1, <1>7, BucketAddEffect
  <2> HIDE DEF a
  <2>4. \A m \in Peer : a.versions[m] = b1.versions[m] \/ a.versions[m] > t[b].version
    BY <2>3, <1>1, <1>2, <1>7
  <2>5. a.version >= t[b].version /\ ~a.probing
    BY <2>3, <1>7
  <2> QED
    BY <2>1, <2>2, <2>4, <2>5 DEF a
<1>10. /\ bk \in BucketType /\ GoodBucket(bk, b)
       /\ bk.version >= t[b].version /\ ~bk.probing
       /\ \A m \in Peer : \/ bk.versions[m] = t[b].versions[m]
                          \/ bk.versions[m] = 0
                          \/ bk.versions[m] > t[b].version
  <2>1. CASE bk = b0
    BY <2>1, <1>2, <1>3, <1>4
  <2>2. CASE bk = BucketAdd(b1, n)
    BY <2>2, <1>7, <1>9
  <2> QED
    BY <2>1, <2>2, <1>6
<1>11. /\ u \in TableType
       /\ u[b] = bk
       /\ \A c \in Bucket : c # b => u[c] = t[c]
  BY <1>1, <1>5, <1>10 DEF GoodTable, TableType
<1>12. GoodTable(u) /\ VersionStep(t, u)
  <2>1. GoodUpdate(t, u, b)
    BY <1>10, <1>11 DEF GoodUpdate
  <2> QED
    BY <1>1, <2>1, UpdateFacts
<1>13. ASSUME ~(timedOut /\ ProbeCurrent(t, p)), NEW m \in Peer, InTable(t, m)
       PROVE  InTable(u, m)
  <2>1. t[BucketOf[m]].versions[m] # 0
    BY <1>13, InTableVersion
  <2>2. BucketOf[m] \in Bucket
    BY BucketAssumption
  <2>3. u[BucketOf[m]].versions[m] # 0
    <3>1. CASE BucketOf[m] # b
      BY <3>1, <2>1, <2>2, <1>11
    <3>2. CASE BucketOf[m] = b /\ bk = b0
      BY <3>2, <2>1, <1>3, <1>11
    <3>3. CASE BucketOf[m] = b /\ bk # b0
      <4>1. current = t[b].versions[p.old]
        BY <1>3
      <4>2. current = 0
        BY <1>13, <1>6, <3>3, <4>1 DEF ProbeCurrent, b
      <4>3. bk = BucketAdd(b0, n)
        BY <4>2, <3>3, <1>6, <1>7
      <4>4. bk.versions[m] = b0.versions[m] \/ bk.versions[m] > t[b].version
        BY <4>2, <4>3, <1>7, <1>9
      <4> QED
        BY <4>4, <3>3, <2>1, <1>2, <1>3, <1>11
    <3> QED
      BY <3>1, <3>2, <3>3
  <2> QED
    BY <2>3, <1>12, InTableVersion
<1> QED
  BY <1>10, <1>11, <1>12, <1>13 DEF b

\* observe(n): nobody is dropped, n is no longer at the version it had, and
\* only the flag of n's bucket may change.
LEMMA ObserveFacts ==
  ASSUME NEW t, GoodTable(t), NEW n \in Node, NEW u, u = Observe(t, n)
  PROVE  /\ GoodTable(u)
         /\ VersionStep(t, u)
         /\ \A b \in Bucket :
              u[b].probing = (t[b].probing \/ (n # Self /\ b = BucketOf[n]
                                              /\ NeedsProbe(t, n)))
         /\ \A m \in Peer : InTable(t, m) => InTable(u, m)
         /\ n \in Peer => \/ u[BucketOf[n]].versions[n] = 0
                          \/ u[BucketOf[n]].versions[n] > t[BucketOf[n]].version
<1> USE DEF GoodTable
<1>1. CASE n = Self
  <2>1. u = t
    BY <1>1 DEF Observe
  <2>2. n \notin Peer
    BY <1>1, SelfAssumption
  <2>3. VersionStep(t, u)
    BY <2>1, GoodBucketType, BucketAssumption DEF VersionStep
  <2>4. \A b \in Bucket : t[b].probing \in BOOLEAN
    BY DEF TableType, BucketType
  <2> QED
    BY <1>1, <2>1, <2>2, <2>3, <2>4
<1>2. CASE n # Self /\ Admits(t[BucketOf[n]], n)
  <2> DEFINE b == BucketOf[n]
  <2>1. u = AddContact(t, n) /\ ~NeedsProbe(t, n)
    BY <1>2 DEF Observe, NeedsProbe
  <2>2. /\ GoodTable(u)
        /\ VersionStep(t, u)
        /\ \A c \in Bucket : u[c].probing = t[c].probing
        /\ \A m \in Peer : InTable(t, m) => InTable(u, m)
    BY <2>1, AddContactFacts
  <2>3. n \in Peer /\ b \in Bucket /\ t[b] \in BucketType /\ GoodBucket(t[b], b)
        /\ t[b].version \in Nat
    BY <1>2, GoodBucketType, BucketAssumption DEF Node
  <2>4. n \in Listed(t[b]) \/ Len(t[b].list) < K
    BY <1>2, <2>3 DEF Admits, GoodBucket, VersionsMatchList
  <2>5. u[b] = BucketAdd(t[b], n)
    BY <1>2, <2>1, <2>3 DEF AddContact, TableType
  <2>6. u[b].versions[n] = t[b].version + 1
    BY <2>3, <2>4, <2>5, BucketAddEffect
  <2>7. \A c \in Bucket : t[c].probing \in BOOLEAN
    BY DEF TableType, BucketType
  <2> QED
    BY <2>1, <2>2, <2>3, <2>6, <2>7
<1>3. CASE n # Self /\ ~Admits(t[BucketOf[n]], n)
  <2> DEFINE b == BucketOf[n]
             bk == [t[b] EXCEPT !.probing = TRUE]
  <2>1. n \in Peer /\ b \in Bucket /\ t[b] \in BucketType /\ GoodBucket(t[b], b)
        /\ t[b].version \in Nat
    BY <1>3, GoodBucketType, BucketAssumption DEF Node
  <2>2. bk \in BucketType /\ bk.list = t[b].list /\ bk.version = t[b].version
        /\ bk.versions = t[b].versions /\ bk.probing = TRUE
    BY <2>1 DEF BucketType
  <2> HIDE DEF bk
  <2>3. GoodBucket(bk, b)
    BY <2>1, <2>2 DEF GoodBucket, NoDuplicates, VersionsMatchList, ListByVersion, Listed
  <2>4. u = [t EXCEPT ![b] = bk]
    BY <1>3 DEF Observe, bk
  <2>5. /\ u \in TableType
        /\ u[b] = bk
        /\ \A c \in Bucket : c # b => u[c] = t[c]
    BY <2>1, <2>2, <2>4 DEF TableType
  <2>6. GoodTable(u) /\ VersionStep(t, u)
    <3>1. GoodUpdate(t, u, b)
      BY <2>1, <2>2, <2>3, <2>5 DEF GoodUpdate
    <3> QED
      BY <2>1, <3>1, UpdateFacts
  <2>7. \A c \in Bucket : t[c].probing \in BOOLEAN
    BY DEF TableType, BucketType
  <2>8. \A c \in Bucket :
          u[c].probing = (t[c].probing \/ (n # Self /\ c = b /\ NeedsProbe(t, n)))
    BY <1>3, <2>1, <2>2, <2>5, <2>7 DEF NeedsProbe
  <2>9. \A m \in Peer : InTable(t, m) => InTable(u, m)
    BY <2>2, <2>5, BucketAssumption DEF InTable, Listed
  <2>10. u[b].versions[n] = 0
    BY <1>3, <2>1, <2>2, <2>5 DEF Admits
  <2> QED
    BY <2>6, <2>8, <2>9, <2>10
<1> QED
  BY <1>1, <1>2, <1>3

\* The probe that observe(n) hands out: for n's bucket, of the peer at the
\* back of the list, at its present version.
LEMMA ProbeForFacts ==
  ASSUME NEW t, GoodTable(t), NEW n \in Node, NeedsProbe(t, n)
  PROVE  /\ GoodProbe(ProbeFor(t, n))
         /\ ProbeFor(t, n).bucket = BucketOf[n]
         /\ ProbeFor(t, n).version = t[BucketOf[n]].versions[ProbeFor(t, n).old]
         /\ ~t[BucketOf[n]].probing
<1> DEFINE b == BucketOf[n]
           old == t[b].list[Len(t[b].list)]
<1>1. n \in Peer /\ b \in Bucket /\ t[b] \in BucketType /\ GoodBucket(t[b], b)
  BY GoodBucketType, BucketAssumption DEF NeedsProbe, Node
<1>2. Len(t[b].list) >= K /\ Len(t[b].list) \in Nat /\ K \in Nat \ {0}
  BY <1>1, KAssumption DEF NeedsProbe, Admits, BucketType
<1>3. Len(t[b].list) \in DOMAIN t[b].list
  BY <1>1, <1>2 DEF BucketType
<1>4. old \in Listed(t[b]) /\ old \in Peer
  BY <1>1, <1>3 DEF BucketType, Listed
<1>5. BucketOf[old] = b /\ t[b].versions[old] # 0 /\ t[b].versions[old] \in Nat
  BY <1>1, <1>4 DEF GoodBucket, NoDuplicates, VersionsMatchList, BucketType
<1>6. ProbeFor(t, n) = [bucket |-> b, old |-> old, replacement |-> n,
                        version |-> t[b].versions[old]]
  BY DEF ProbeFor
<1> HIDE DEF old
<1> QED
  BY <1>1, <1>4, <1>5, <1>6 DEF GoodProbe, ProbeType, NeedsProbe

\* removeUnresponsive(n, version) drops at most n, and only at that version.
LEMMA RemoveUnresponsiveFacts ==
  ASSUME NEW t, GoodTable(t), NEW n \in Node, NEW v \in Nat,
         NEW u, u = RemoveUnresponsive(t, n, v)
  PROVE  /\ GoodTable(u)
         /\ VersionStep(t, u)
         /\ \A b \in Bucket : u[b].probing = t[b].probing
         /\ \A m \in Peer : InTable(t, m) /\ ~InTable(u, m) =>
              m = n /\ v # 0 /\ ContactVersion(t, n) = v
         /\ n \in Peer => u[BucketOf[n]].versions[n] # v \/ v = 0
<1>1. CASE ~(v # 0 /\ ContactVersion(t, n) = v)
  <2>1. u = t
    BY <1>1 DEF RemoveUnresponsive
  <2>2. VersionStep(t, u)
    BY <2>1, GoodBucketType, BucketAssumption DEF VersionStep
  <2>3. n \in Peer => ContactVersion(t, n) = t[BucketOf[n]].versions[n]
    BY SelfAssumption DEF ContactVersion
  <2> QED
    BY <1>1, <2>1, <2>2, <2>3
<1>2. CASE v # 0 /\ ContactVersion(t, n) = v
  <2> DEFINE b == BucketOf[n]
             bk == BucketRemove(t[b], n)
  <2>1. n # Self
    BY <1>2 DEF ContactVersion
  <2>2. n \in Peer /\ b \in Bucket /\ t[b] \in BucketType /\ GoodBucket(t[b], b)
        /\ t[b].version \in Nat /\ t[b].versions[n] = v
    BY <1>2, <2>1, GoodBucketType, BucketAssumption DEF Node, ContactVersion
  <2>3. bk \in BucketType
    BY <2>2, BucketRemoveType, GoodBucketType
  <2>4. GoodBucket(bk, b)
    BY <2>2, BucketRemoveGood
  <2>5. /\ bk.version = t[b].version
        /\ bk.probing = t[b].probing
        /\ \A m \in Peer : m # n => bk.versions[m] = t[b].versions[m]
        /\ bk.versions[n] = t[b].versions[n] \/ bk.versions[n] = 0
    BY <2>2, BucketRemoveEffect
  <2>6. bk.versions[n] = 0
    <3>1. n \in Listed(t[b])
      BY <1>2, <2>2 DEF GoodBucket, VersionsMatchList
    <3> QED
      BY <3>1, <2>2 DEF BucketRemove, BucketType
  <2> HIDE DEF bk
  <2>7. /\ u \in TableType
        /\ u[b] = bk
        /\ \A c \in Bucket : c # b => u[c] = t[c]
    BY <1>2, <2>2, <2>3 DEF RemoveUnresponsive, GoodTable, TableType, bk
  <2>8. GoodTable(u) /\ VersionStep(t, u)
    <3>1. GoodUpdate(t, u, b)
      BY <2>2, <2>4, <2>5, <2>7 DEF GoodUpdate
    <3> QED
      BY <2>2, <3>1, UpdateFacts
  <2>9. \A m \in Peer : InTable(t, m) /\ ~InTable(u, m) => m = n
    <3> SUFFICES ASSUME NEW m \in Peer, m # n, t[BucketOf[m]].versions[m] # 0
                 PROVE  u[BucketOf[m]].versions[m] # 0
      BY <2>8, InTableVersion
    <3> QED
      BY <2>5, <2>7, BucketAssumption
  <2>10. \A c \in Bucket : u[c].probing = t[c].probing
    BY <2>5, <2>7
  <2> QED
    BY <1>2, <2>6, <2>7, <2>8, <2>9, <2>10
<1> QED
  BY <1>1, <1>2

\* What is behind the version of a peer stays behind it.
LEMMA VersionStepOld ==
  ASSUME NEW t, GoodTable(t), NEW u, VersionStep(t, u), NEW m \in Peer,
         NEW v \in Nat, v # 0, v =< t[BucketOf[m]].version,
         u[BucketOf[m]].versions[m] = v
  PROVE  t[BucketOf[m]].versions[m] = v
<1>1. t[BucketOf[m]].version \in Nat
  BY GoodBucketType, BucketAssumption
<1> QED
  BY <1>1 DEF VersionStep
=============================================================================
