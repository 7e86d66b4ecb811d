------------------------------- MODULE PeerSet -------------------------------
(***************************************************************************)
(* What a node promises of the peers it knows, whatever the goroutines,    *)
(* lists and versions behind it: a bucket never holds more than K of them, *)
(* a full one is reserved while the replacement of one peer is decided,    *)
(* and no peer is pushed out by another.  A known peer is dropped in a     *)
(* step of its own, and a newcomer only takes room that is already free.   *)
(***************************************************************************)
EXTENDS Integers, FiniteSets

CONSTANTS Peer, Bucket, BucketOf, K

VARIABLES known,     \* the peers in the table
          reserved   \* the buckets with a replacement under way

Members(b) == {n \in known : BucketOf[n] = b}
HasRoom(b) == Cardinality(Members(b)) < K

Init == known = {} /\ reserved = {}

Admit(n) ==
  /\ n \notin known /\ HasRoom(BucketOf[n])
  /\ known' = known \cup {n}
  /\ UNCHANGED reserved

Drop(n) ==
  /\ n \in known
  /\ known' = known \ {n}
  /\ UNCHANGED reserved

Reserve(b) ==
  /\ b \notin reserved /\ ~HasRoom(b)
  /\ reserved' = reserved \cup {b}
  /\ UNCHANGED known

\* The decision: nobody enters, or a newcomer enters the room there is.
Release(b) ==
  /\ b \in reserved
  /\ reserved' = reserved \ {b}
  /\ \/ UNCHANGED known
     \/ /\ HasRoom(b)
        /\ \E n \in Peer \ known : BucketOf[n] = b /\ known' = known \cup {n}

Next ==
  \/ \E n \in Peer : Admit(n) \/ Drop(n)
  \/ \E b \in Bucket : Reserve(b) \/ Release(b)

Spec == Init /\ [][Next]_<<known, reserved>>
=============================================================================
