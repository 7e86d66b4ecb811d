---------------------------- MODULE RoutingTable ----------------------------
(***************************************************************************)
(* The routing table of one node: a K-bucket per distance range, and the   *)
(* operations of bucket.go, routingtable.go and routing_maintenance.go on  *)
(* it.  Each operator below is one critical section under RoutingTable.mu: *)
(* it maps the table before the section to the table after it.             *)
(*                                                                         *)
(* A bucket is a record                                                    *)
(*   list      the contacts, front (index 1) to back                       *)
(*   version   the counter AddContact increments                           *)
(*   versions  the version of each contact's last AddContact; a key that   *)
(*             is absent from the Go map reads 0, and so it does here      *)
(*   probing   whether an eviction probe of this bucket is outstanding     *)
(* The uint64 counter is taken not to wrap.                                *)
(***************************************************************************)
EXTENDS Integers, Sequences, FiniteSets

CONSTANTS Peer,       \* the other nodes
          Self,       \* table.me
          Bucket,     \* the bucket indices
          BucketOf,   \* getBucketIndex, on the IDs of Peer
          K           \* the capacity of a bucket

ASSUME SelfAssumption == Self \notin Peer
ASSUME BucketAssumption == BucketOf \in [Peer -> Bucket]
ASSUME KAssumption == K \in Nat \ {0}

Node == Peer \cup {Self}

EmptyBucket == [list |-> << >>, version |-> 0,
                versions |-> [n \in Peer |-> 0], probing |-> FALSE]

NewRoutingTable == [b \in Bucket |-> EmptyBucket]

-----------------------------------------------------------------------------
(* The list of a bucket.                                                   *)

Listed(bk) == {bk.list[i] : i \in DOMAIN bk.list}

\* The list without its element at index i.
RemoveIndex(s, i) ==
  [j \in 1 .. Len(s) - 1 |-> IF j < i THEN s[j] ELSE s[j + 1]]

\* The list without n: the scan for n, and list.Remove when it is found.
Without(s, n) ==
  IF \E i \in DOMAIN s : s[i] = n
    THEN RemoveIndex(s, CHOOSE i \in DOMAIN s : s[i] = n)
    ELSE s

\* PushFront of a new element, or MoveToFront of one already there.
ToFront(s, n) ==
  [j \in 1 .. Len(Without(s, n)) + 1 |->
     IF j = 1 THEN n ELSE Without(s, n)[j - 1]]

-----------------------------------------------------------------------------
(* Operations on one bucket.                                               *)

\* bucket.AddContact: a contact the bucket does not hold is dropped, silently
\* and without a new version, when the bucket is full.
BucketAdd(bk, n) ==
  IF n \in Listed(bk) \/ Len(bk.list) < K
    THEN [bk EXCEPT !.list = ToFront(bk.list, n),
                    !.version = bk.version + 1,
                    !.versions = [bk.versions EXCEPT ![n] = bk.version + 1]]
    ELSE bk

\* Fault: the peer leaves the list but its version stays in the map.
BucketRemoveKeepsVersion(bk, n) ==
  IF n \in Listed(bk) THEN [bk EXCEPT !.list = Without(bk.list, n)] ELSE bk

\* bucket.remove
BucketRemove(bk, n) ==
  IF n \in Listed(bk)
    THEN [bk EXCEPT !.list = Without(bk.list, n),
                    !.versions = [bk.versions EXCEPT ![n] = 0]]
    ELSE bk

-----------------------------------------------------------------------------
(* Operations on the table.                                                *)

AddContact(t, n) ==
  IF n = Self THEN t ELSE [t EXCEPT ![BucketOf[n]] = BucketAdd(@, n)]

ContactVersion(t, n) == IF n = Self THEN 0 ELSE t[BucketOf[n]].versions[n]

\* The first test of observe: the contact has a version, or there is room.
Admits(bk, n) == bk.versions[n] # 0 \/ Len(bk.list) < K

\* Fault: a bucket that is being probed gets a second probe.
NeedsProbeAgain(t, n) == n # Self /\ ~Admits(t[BucketOf[n]], n)

\* observe hands out a probe only for a full bucket that is not being probed.
NeedsProbe(t, n) ==
  /\ n # Self
  /\ ~Admits(t[BucketOf[n]], n)
  /\ ~t[BucketOf[n]].probing

\* evictionProbe: old is the back of the list at the moment of the observation.
ProbeFor(t, n) ==
  LET bk  == t[BucketOf[n]]
      old == bk.list[Len(bk.list)]
  IN  [bucket |-> BucketOf[n], old |-> old, replacement |-> n,
       version |-> bk.versions[old]]

\* The table after observe(n).
Observe(t, n) ==
  IF n = Self THEN t
  ELSE IF Admits(t[BucketOf[n]], n) THEN AddContact(t, n)
  ELSE [t EXCEPT ![BucketOf[n]].probing = TRUE]

\* probeCurrent
ProbeCurrent(t, probe) == t[probe.bucket].versions[probe.old] = probe.version

\* Fault: the timeout wins over communication since the probe.
ReplaceRegardless(bk, probe, timedOut) ==
  IF timedOut THEN BucketAdd(BucketRemove(bk, probe.old), probe.replacement)
  ELSE bk

\* What finishProbe does to the bucket once it has reset the probing flag.
Replace(bk, probe, timedOut) ==
  LET current == bk.versions[probe.old]
  IN  IF ~timedOut \/ (current # 0 /\ current # probe.version) THEN bk
      ELSE BucketAdd(IF current # 0 THEN BucketRemove(bk, probe.old) ELSE bk,
                     probe.replacement)

\* Fault: the flag is reset only when the probe timed out.
FinishProbeIfTimedOut(t, probe, timedOut) ==
  IF timedOut
    THEN [t EXCEPT ![probe.bucket] =
            Replace([@ EXCEPT !.probing = FALSE], probe, timedOut)]
    ELSE t

FinishProbe(t, probe, timedOut) ==
  [t EXCEPT ![probe.bucket] =
     Replace([@ EXCEPT !.probing = FALSE], probe, timedOut)]

\* Fault: the version read before the call is not compared.
RemoveAnyVersion(t, n, version) ==
  IF version # 0 THEN [t EXCEPT ![BucketOf[n]] = BucketRemove(@, n)] ELSE t

\* removeUnresponsive
RemoveUnresponsive(t, n, version) ==
  IF version # 0 /\ ContactVersion(t, n) = version
    THEN [t EXCEPT ![BucketOf[n]] = BucketRemove(@, n)]
    ELSE t

-----------------------------------------------------------------------------
(* Observations on a table that the properties are stated with.            *)

InTable(t, n) == n \in Peer /\ n \in Listed(t[BucketOf[n]])

BucketType == [list : Seq(Peer), version : Nat, versions : [Peer -> Nat],
               probing : BOOLEAN]

TableType == [Bucket -> BucketType]

ProbeType == [bucket : Bucket, old : Peer, replacement : Peer, version : Nat]

\* No peer is listed twice, nor in a bucket b that is not its own.
NoDuplicates(bk, b) ==
  /\ \A i, j \in DOMAIN bk.list : bk.list[i] = bk.list[j] => i = j
  /\ \A n \in Listed(bk) : BucketOf[n] = b

\* Exactly the listed peers have a version, so that observe, which consults
\* the map, and AddContact, which scans the list, agree on who is known.
VersionsMatchList(bk) ==
  \A n \in Peer : bk.versions[n] # 0 <=> n \in Listed(bk)

\* The list is in the order of the versions, newest in front, and no version
\* is ahead of the counter: the peer at the back, which observe offers for
\* eviction, is the one whose version is oldest.
ListByVersion(bk) ==
  /\ \A i, j \in DOMAIN bk.list :
       i < j => bk.versions[bk.list[i]] > bk.versions[bk.list[j]]
  /\ \A n \in Peer : bk.versions[n] =< bk.version

GoodBucket(bk, b) ==
  /\ Len(bk.list) =< K
  /\ NoDuplicates(bk, b)
  /\ VersionsMatchList(bk)
  /\ ListByVersion(bk)
=============================================================================
