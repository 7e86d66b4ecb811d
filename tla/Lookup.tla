------------------------------- MODULE Lookup -------------------------------
(***************************************************************************)
(* One iterative lookup (lookup.go, with the callers and the probes of     *)
(* lookup_data.go, find_node.go and find_value.go): the loop of the        *)
(* calling goroutine, and the goroutines of the probes of its batch.       *)
(*                                                                         *)
(* A probe is a Network.call, which always returns (NetworkProps,          *)
(* CallsReturn): with an answer that its sender verifies, with an error of *)
(* its own (no answer, a malformed one, corrupt data), or because the      *)
(* context ended or the node closed.  What the peers know of each other is *)
(* left open: an answer holds any contacts, at most K.  findNodePayload    *)
(* leaves the requester out, and the requester ignores itself.             *)
(***************************************************************************)
EXTENDS Integers, FiniteSets

CONSTANTS Peer,
          Rank,    \* the distance of each peer to the target
          K, Alpha,
          Self, None

ASSUME PeerAssumption == IsFiniteSet(Peer) /\ Self \notin Peer /\ None \notin Peer
ASSUME NoneAssumption == Self # None
ASSUME RankAssumption ==
  /\ Rank \in [Peer -> Nat]
  /\ \A p, q \in Peer : Rank[p] = Rank[q] => p = q
ASSUME ParallelismAssumption == K \in Nat \ {0} /\ Alpha \in Nat \ {0}

VARIABLES
  pc,         \* the position of lookup
  findValue,  \* FIND_VALUE, and not FIND_NODE
  status,     \* [Peer -> Status]: the candidates and their states
  replies,    \* the channel of the batch
  value,      \* the source of the value, or None
  stopped,    \* Stopped: has the node failed, or has the caller stopped?
  outcome,    \* what lookup returns ...
  result,     \* ... and the contacts with it
  known,      \* history: the contacts of the routing table
  told,       \* history: the contacts in the answers taken
  asked,      \* history: the probes sent to each peer
  cutShort    \* history: the probes that failed because something ended

vars == <<pc, findValue, status, replies, value, stopped, outcome, result,
          known, told, asked, cutShort>>

Status == {"unknown", "unqueried", "pending", "responded", "failed"}

Reply == [from : Peer, contacts : SUBSET Peer, ok : BOOLEAN, found : BOOLEAN]

\* "failed": the transport failed, and network.done is closed.
\* "stopped": the caller's context has ended, or the node is closed.
Stopped == {"no", "failed", "stopped"}

Outcome == {"none", "contacts", "value", "ErrNoReachableContacts",
            "ErrValueNotFound", "stopped"}

Init ==
  /\ pc = "start"
  /\ findValue \in BOOLEAN
  /\ status = [p \in Peer |-> "unknown"]
  /\ replies = {}
  /\ value = None
  /\ stopped = "no"
  /\ outcome = "none"
  /\ result = {}
  /\ known = {} /\ told = {} /\ cutShort = {}
  /\ asked = [p \in Peer |-> 0]

-----------------------------------------------------------------------------
(* The shortlist.                                                          *)

\* The n closest members of S.
Closest(S, n) == {p \in S : Cardinality({q \in S : Rank[q] < Rank[p]}) < n}

Shortlist == Closest({p \in Peer : status[p] \notin {"unknown", "failed"}}, K)

Batch == Closest({p \in Shortlist : status[p] = "unqueried"}, Alpha)

\* Fault: a contact that is a candidate already starts again.
AddedAgain(S, contacts) ==
  [p \in Peer |-> IF p \in contacts THEN "unqueried" ELSE S[p]]

\* add: contacts that are new become candidates.
Added(S, contacts) ==
  [p \in Peer |-> IF p \in contacts /\ S[p] = "unknown" THEN "unqueried" ELSE S[p]]

Return(o) ==
  /\ pc' = "done"
  /\ outcome' = o

-----------------------------------------------------------------------------
(* The loop.                                                               *)

\* LookupData finds the value in the node's own store.  It only checks the
\* context and the node's own done channel.
LocalHit ==
  /\ pc = "start" /\ findValue /\ stopped # "stopped"
  /\ value' = Self
  /\ Return("value")
  /\ UNCHANGED <<findValue, status, replies, stopped, result, known, told, asked,
                 cutShort>>

\* The contacts of the routing table are the first candidates.
Start ==
  /\ pc = "start"
  /\ \/ /\ stopped # "no"
        /\ Return("stopped")
        /\ UNCHANGED <<status, known>>
     \/ /\ stopped = "no"
        /\ \E S \in SUBSET Peer : known' = S /\ status' = Added(status, S)
        /\ pc' = "select"
        /\ UNCHANGED outcome
  /\ UNCHANGED <<findValue, replies, value, stopped, result, told, asked, cutShort>>

\* The loop checks lookupStopped before every batch.
SelectStopped ==
  /\ pc = "select" /\ stopped # "no"
  /\ Return("stopped")
  /\ UNCHANGED <<findValue, status, replies, value, stopped, result, known, told,
                 asked, cutShort>>

SelectBatch ==
  /\ pc = "select" /\ stopped = "no"
  /\ Batch # {}
  /\ status' = [p \in Peer |-> IF p \in Batch THEN "pending" ELSE status[p]]
  /\ asked' = [p \in Peer |-> IF p \in Batch THEN asked[p] + 1 ELSE asked[p]]
  /\ pc' = "drain"
  /\ UNCHANGED <<findValue, replies, value, stopped, outcome, result, known, told,
                 cutShort>>

\* Fault: it stops once the closest candidate has responded.
SelectResultEarly ==
  /\ pc = "select" /\ stopped = "no"
  /\ \A p \in Closest(Shortlist, 1) : status[p] = "responded"
  /\ IF Shortlist = {} THEN Return("ErrNoReachableContacts") /\ UNCHANGED result
     ELSE IF findValue THEN Return("ErrValueNotFound") /\ UNCHANGED result
     ELSE Return("contacts") /\ result' = {p \in Shortlist : status[p] = "responded"}
  /\ UNCHANGED <<findValue, status, replies, value, stopped, known, told, asked,
                 cutShort>>

\* Fault: the loop does not check lookupStopped.
SelectResultUnchecked ==
  /\ pc = "select" /\ Batch = {}
  /\ IF Shortlist = {} THEN Return("ErrNoReachableContacts") /\ UNCHANGED result
     ELSE IF findValue THEN Return("ErrValueNotFound") /\ UNCHANGED result
     ELSE Return("contacts") /\ result' = Shortlist
  /\ UNCHANGED <<findValue, status, replies, value, stopped, known, told, asked,
                 cutShort>>

\* Fault: no way out when every candidate has failed.
SelectResultNeedsContacts ==
  /\ pc = "select" /\ stopped = "no"
  /\ Batch = {} /\ Shortlist # {}
  /\ IF findValue THEN Return("ErrValueNotFound") /\ UNCHANGED result
     ELSE Return("contacts") /\ result' = Shortlist
  /\ UNCHANGED <<findValue, status, replies, value, stopped, known, told, asked,
                 cutShort>>

\* Every candidate of the shortlist has responded.
SelectResult ==
  /\ pc = "select" /\ stopped = "no"
  /\ Batch = {}
  /\ IF Shortlist = {} THEN Return("ErrNoReachableContacts") /\ UNCHANGED result
     ELSE IF findValue THEN Return("ErrValueNotFound") /\ UNCHANGED result
     ELSE Return("contacts") /\ result' = Shortlist
  /\ UNCHANGED <<findValue, status, replies, value, stopped, known, told, asked,
                 cutShort>>

\* Fault: a candidate that failed may be selected again.
DrainRetries(r) ==
  /\ pc = "drain" /\ r \in replies
  /\ replies' = replies \ {r}
  /\ value' = IF r.ok /\ r.found /\ value = None THEN r.from ELSE value
  /\ IF r.ok
       THEN /\ status' = Added([status EXCEPT ![r.from] = "responded"], r.contacts)
            /\ told' = told \cup r.contacts
       ELSE /\ status' = [status EXCEPT ![r.from] = "unqueried"]
            /\ UNCHANGED told
  /\ UNCHANGED <<pc, findValue, stopped, outcome, result, known, asked, cutShort>>

\* One reply is taken off the channel.  The first value cancels the other
\* probes; their replies are still awaited.
Drain(r) ==
  /\ pc = "drain" /\ r \in replies
  /\ replies' = replies \ {r}
  /\ value' = IF r.ok /\ r.found /\ value = None THEN r.from ELSE value
  /\ IF r.ok
       THEN /\ status' = Added([status EXCEPT ![r.from] = "responded"], r.contacts)
            /\ told' = told \cup r.contacts
       ELSE /\ status' = [status EXCEPT ![r.from] = "failed"]
            /\ UNCHANGED told
  /\ UNCHANGED <<pc, findValue, stopped, outcome, result, known, asked, cutShort>>

\* Fault: a value is only looked at when no candidate is left.
EndBatchGoesOn ==
  /\ pc = "drain"
  /\ \A p \in Peer : status[p] # "pending"
  /\ IF value # None /\ Batch = {} THEN Return("value")
     ELSE pc' = "select" /\ UNCHANGED outcome
  /\ UNCHANGED <<findValue, status, replies, value, stopped, result, known, told,
                 asked, cutShort>>

\* The batch is drained.
EndBatch ==
  /\ pc = "drain"
  /\ \A p \in Peer : status[p] # "pending"
  /\ IF value # None THEN Return("value") ELSE pc' = "select" /\ UNCHANGED outcome
  /\ UNCHANGED <<findValue, status, replies, value, stopped, result, known, told,
                 asked, cutShort>>

-----------------------------------------------------------------------------
(* The goroutine of the probe of p.                                        *)

Probing(p) == status[p] = "pending" /\ \A r \in replies : r.from # p

Put(r) ==
  /\ replies' = replies \cup {r}
  /\ UNCHANGED <<pc, findValue, status, value, stopped, outcome, result, known,
                 told, asked>>

\* A valid answer: contacts, or for FIND_VALUE the value.
Answers(p) ==
  /\ Probing(p)
  /\ \/ \E C \in SUBSET Peer :
          /\ Cardinality(C) =< K
          /\ Put([from |-> p, contacts |-> C, ok |-> TRUE, found |-> FALSE])
     \/ /\ findValue
        /\ Put([from |-> p, contacts |-> {}, ok |-> TRUE, found |-> TRUE])
  /\ UNCHANGED cutShort

Failure(p) == [from |-> p, contacts |-> {}, ok |-> FALSE, found |-> FALSE]

\* No valid answer in time.
Fails(p) ==
  /\ Probing(p)
  /\ Put(Failure(p))
  /\ UNCHANGED cutShort

\* The call is interrupted: by cancel, by the caller's context, by Close.
Interrupted(p) ==
  /\ Probing(p)
  /\ stopped # "no" \/ value # None
  /\ Put(Failure(p))
  /\ cutShort' = cutShort \cup {p}

\* The transport fails; the caller's context ends, or the node is closed.
Stop ==
  /\ \/ stopped = "no" /\ stopped' \in {"failed", "stopped"}
     \/ stopped = "failed" /\ stopped' = "stopped"
  /\ UNCHANGED <<pc, findValue, status, replies, value, outcome, result, known,
                 told, asked, cutShort>>

-----------------------------------------------------------------------------
Loop ==
  \/ LocalHit \/ Start
  \/ SelectStopped \/ SelectBatch \/ SelectResult
  \/ (\E r \in replies : Drain(r))
  \/ EndBatch

Probe(p) == Answers(p) \/ Fails(p) \/ Interrupted(p)

Terminated == pc = "done" /\ UNCHANGED vars

Next == Loop \/ (\E p \in Peer : Probe(p)) \/ Stop \/ Terminated

Spec == Init /\ [][Next]_vars

\* Go schedules the goroutines, and every call returns.
FairSpec == Spec /\ WF_vars(Loop) /\ \A p \in Peer : WF_vars(Probe(p))

-----------------------------------------------------------------------------
(* What a lookup promises.                                                 *)

\* The type invariant; a reply in the channel is that of a pending probe.
TypeOK ==
  /\ pc \in {"start", "select", "drain", "done"}
  /\ findValue \in BOOLEAN
  /\ status \in [Peer -> Status]
  /\ replies \in SUBSET Reply
  /\ value \in Peer \cup {Self, None}
  /\ stopped \in Stopped
  /\ outcome \in Outcome
  /\ result \in SUBSET Peer
  /\ known \in SUBSET Peer /\ told \in SUBSET Peer /\ cutShort \in SUBSET Peer
  /\ asked \in [Peer -> Nat]
  /\ \A r \in replies : status[r.from] = "pending"

\* "Stop when every candidate in the current K closest non-failed contacts has
\* replied. A round without a closer discovery is not enough to stop"
\* (lookup.go:42): the result is the K closest responsive peers of all that the
\* node knew or was told of; no answer, however late in its batch, is left out.
ResultIsClosest ==
  outcome = "contacts" =>
    /\ result # {} /\ Cardinality(result) =< K
    /\ \A p \in result : status[p] = "responded"
    /\ \A p \in (known \cup told) \ result :
         \/ status[p] = "failed"
         \/ /\ Cardinality(result) = K
            /\ \A q \in result : Rank[q] < Rank[p]

\* A lookup that has been cancelled, or whose node closes, says so: no probe
\* that was cut short passes for an unresponsive peer in a verdict on the
\* network (lookup.go:91, 117-126).
VerdictsAreHonest ==
  outcome \in {"contacts", "ErrNoReachableContacts", "ErrValueNotFound"} =>
    cutShort = {}

\* A value that a peer has sent in time is returned, although the other probes
\* of the batch are cancelled and fail; a missing value is only reported when
\* each of the closest responsive peers has answered that it has none.
ValueNotLost ==
  pc = "done" =>
    /\ value # None <=> outcome = "value"
    /\ outcome = "ErrValueNotFound" =>
         /\ told \cup known # {}
         /\ \A p \in Closest({q \in known \cup told : status[q] # "failed"}, K) :
              status[p] = "responded"

\* A peer is probed at most once in a lookup, however often it is named, and
\* at most Alpha probes run at a time, all of which have ended when the lookup
\* returns (lookup.go:39, 147).
ProbesBounded ==
  /\ \A p \in Peer : asked[p] =< 1
  /\ Cardinality({p \in Peer : status[p] = "pending"}) =< Alpha
  /\ pc = "done" => \A p \in Peer : status[p] # "pending"

\* Every lookup returns.
LookupReturns == <>(pc = "done")
=============================================================================
