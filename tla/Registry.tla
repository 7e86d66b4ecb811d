------------------------------ MODULE Registry ------------------------------
(***************************************************************************)
(* The package registry of the network (registry.go, registry_rpc.go and   *)
(* the callers of distribute and send in replication.go and handoff.go),   *)
(* for one package: signed version records in the DHT, and on each node a  *)
(* latest pointer, the head of a hash chain of records.                    *)
(*                                                                         *)
(* A record contains the hash of the record before it, so a hash stands    *)
(* for a whole history: here a hash IS that history, the sequence of       *)
(* entries from the oldest to the newest, and zeroHash is the empty one.   *)
(* Two records with one content have one hash, as in the code.  A latest   *)
(* pointer carries the hash and the version of its record, and Publish     *)
(* signs both with one key, so a pointer is a history too; a node without  *)
(* a pointer has the empty one.                                            *)
(*                                                                         *)
(* A node runs clients (application goroutines, replicationLoop,           *)
(* handoffLoop) and workers (dispatchRegistry).  chain fetches with no     *)
(* lock held, one record at a time; Registry.mu covers snapshot and the    *)
(* end of accept.  LookupContact may return any peers and LookupData may   *)
(* fail, or find what some node holds.  Packets are lost, repeated and     *)
(* delayed at will.  The package's blobs are left out: nothing here        *)
(* depends on them.                                                        *)
(***************************************************************************)
EXTENDS Integers, Sequences, FiniteSets

CONSTANTS Node,
          Client, Worker,   \* the goroutines ...
          Home,             \* ... and the node of each
          Rank,             \* distance of each node to latestKey
          K,                \* Config.K
          None,
          Version,          \* bound: the versions that are published
          Content,          \* bound: the blobs that are published
          MaxLength,        \* bound: the length of the histories published ...
          MaxRecords,       \* ... and their number
          Operations,       \* bound: the operations of each client
          Copied,           \* bound: the nodes that records are copied to
          Forces,           \* bound: whether PublishOptions.Force is used
          Cancels           \* bound: whether contexts are ever cancelled

Task == Client \cup Worker

ASSUME TaskAssumption == Client \cap Worker = {} /\ None \notin Client
ASSUME HomeAssumption == Home \in [Task -> Node]
ASSUME RankAssumption ==
  /\ Rank \in [Node -> Nat]
  /\ \A m, n \in Node : Rank[m] = Rank[n] => m = n
ASSUME RegistryKAssumption == K \in Nat \ {0}
ASSUME VersionsAssumption == Version \subseteq Nat
ASSUME OptionsAssumption == Forces \in BOOLEAN /\ Cancels \in BOOLEAN
ASSUME OperationsAssumption ==
  Operations \in [Client -> SUBSET {"latest", "publish", "replicate", "handoff"}]

\* A version record without its Previous: signed by the domain's owner or not.
Entry == [version : Version, content : Content, owned : BOOLEAN]
History == Seq(Entry)

VARIABLES
  store,     \* [Node -> SUBSET History]: the version records in dataStore
  heads,     \* [Node -> History]: the latest pointers
  tasks,     \* [Task -> TaskType]: the goroutines
  updates,   \* the REGISTRY_UPDATE requests that are, or may be, under way
  replies,   \* their responses under way
  returned   \* history: what Latest last returned on each node

vars == <<store, heads, tasks, updates, replies, returned>>

-----------------------------------------------------------------------------
(* Histories.                                                              *)

VersionOf(h) == IF h = << >> THEN 0 ELSE h[Len(h)].version

\* h is g, or continues it: the hash of g occurs in chain(h).
Extends(h, g) == Len(g) =< Len(h) /\ \A i \in 1 .. Len(g) : h[i] = g[i]

\* verify and the comparison of versions in chain, of the k-th record of h.
Good(h, k) ==
  /\ h[k].owned /\ h[k].version # 0
  /\ k < Len(h) => h[k].version < h[k + 1].version

\* Fault: only the version is compared, not the ancestry.
AcceptableNewer(old, new) == new = old \/ VersionOf(new) > VersionOf(old)

\* The decision of accept under the lock.
Acceptable(old, new) ==
  new = old \/ (VersionOf(new) > VersionOf(old) /\ Extends(new, old))

-----------------------------------------------------------------------------
(* The goroutines.                                                         *)

\* The calls of chain: in Latest, in distribute to the node itself, in send
\* after a rejection that carries a newer head, and for a REGISTRY_UPDATE.
Walking == {"newest", "self", "catchup", "update"}

TaskType ==
  [op : {"none", "latest", "publish", "distribute", "update"},
   pc : {"idle", "ask", "build", "send", "await", "refuse"} \cup Walking,
   unasked : SUBSET Node,     \* Latest: peers to be sent REGISTRY_GET
   found : SUBSET History,    \* Latest: heads
   chain : History,           \* chain: its argument
   head : History,            \* Publish, distribute: the head
   targets : SUBSET Node,     \* distribute: the nodes to update
   todo : SUBSET Node,        \* distribute: those that remain
   failed : BOOLEAN,          \* an error is recorded in failures
   caller : Client \cup {None}]   \* a worker: the call it will answer

IdleTask == [op |-> "none", pc |-> "idle", unasked |-> {}, found |-> {},
             chain |-> << >>, head |-> << >>, targets |-> {}, todo |-> {},
             failed |-> FALSE, caller |-> None]

Init ==
  /\ store = [n \in Node |-> {}]
  /\ heads = [n \in Node |-> << >>]
  /\ tasks = [x \in Task |-> IdleTask]
  /\ updates = {}
  /\ replies = {}
  /\ returned = [n \in Node |-> << >>]

Set(x, t) == tasks' = [tasks EXCEPT ![x] = t]

Nearest(S) == CHOOSE m \in S : \A x \in S : Rank[m] =< Rank[x]

\* What LookupContact may return on n.
Lookups(n) == {P \in SUBSET (Node \ {n}) : Cardinality(P) =< K}

\* The K closest to latestKey of S.
Closest(S) == {m \in S : Cardinality({x \in S : Rank[x] < Rank[m]}) < K}

Walk(t, pc, h) == [t EXCEPT !.pc = pc, !.chain = h]

\* distribute goes on to its next target.
Sent(t, ok) ==
  [t EXCEPT !.pc = "send", !.chain = << >>,
            !.todo = t.todo \ {Nearest(t.todo)}, !.failed = t.failed \/ ~ok]

Distribute(t, h, targets) ==
  [t EXCEPT !.pc = "send", !.head = h, !.targets = targets, !.todo = targets]

\* Fault: distribute ignores the error of the node's own accept.
AfterAcceptIgnored(t, ok) ==
  CASE t.pc = "newest" /\ ok /\ t.op = "publish" ->
         [IdleTask EXCEPT !.op = "publish", !.pc = "build", !.head = t.chain]
    [] t.pc = "self"          -> Sent(t, TRUE)
    [] t.pc = "catchup"       -> Sent(t, FALSE)
    [] t.pc = "update" /\ ~ok -> [t EXCEPT !.pc = "refuse"]
    [] OTHER                  -> IdleTask

\* Where a task is after its accept; a rejected sender that has caught up
\* still reports the rejection.
AfterAccept(t, ok) ==
  CASE t.pc = "newest" /\ ok /\ t.op = "publish" ->
         [IdleTask EXCEPT !.op = "publish", !.pc = "build", !.head = t.chain]
    [] t.pc = "self"          -> Sent(t, ok)
    [] t.pc = "catchup"       -> Sent(t, FALSE)
    [] t.pc = "update" /\ ~ok -> [t EXCEPT !.pc = "refuse"]
    [] OTHER                  -> IdleTask

-----------------------------------------------------------------------------
(* chain and accept.                                                       *)

\* The k-th record of h, counted from the oldest.
RecordOf(h, k) == SubSeq(h, 1, k)

\* Goroutine x, walking from the newest record of h, has passed record k.
Passed(x, h, k) == RecordOf(h, k) \in store[Home[x]] /\ Good(h, k)

\* A round of chain: LookupData finds, on any node, a record that this node
\* does not hold; it is checked and put.  The rounds for records that are
\* already in the node's store change nothing, and are no steps here.
Fetch(x) ==
  LET t == tasks[x]
      n == Home[x]
  IN  /\ t.pc \in Walking
      /\ \E k \in 1 .. Len(t.chain) :
           /\ RecordOf(t.chain, k) \notin store[n]
           /\ \E m \in Node : RecordOf(t.chain, k) \in store[m]
           /\ Good(t.chain, k)
           /\ \A i \in k + 1 .. Len(t.chain) : Passed(x, t.chain, i)
           /\ store' = [store EXCEPT ![n] = store[n] \cup {RecordOf(t.chain, k)}]
      /\ UNCHANGED <<heads, tasks, updates, replies, returned>>

\* Fault: chain does not keep the records it has verified.
WalkedAnywhere(x) ==
  \A k \in 1 .. Len(tasks[x].chain) :
    /\ \E m \in Node : RecordOf(tasks[x].chain, k) \in store[m]
    /\ Good(tasks[x].chain, k)

\* chain has reached genesis.
Walked(x) ==
  \A k \in 1 .. Len(tasks[x].chain) : Passed(x, tasks[x].chain, k)

\* What the rest of accept decides once the chain is fetched.  Latest first
\* requires every head it found to be in the chain.
Passes(x) ==
  LET t == tasks[x]
  IN  /\ t.pc = "newest" => \A h \in t.found : Extends(t.chain, h)
      /\ Acceptable(heads[Home[x]], t.chain)

\* Fault: a worker also answers a call that is over.
AcceptAnswersAll(x) ==
  LET t == tasks[x]
      n == Home[x]
  IN  /\ t.pc \in Walking /\ Walked(x)
      /\ Passes(x)
      /\ heads' = [heads EXCEPT ![n] = t.chain]
      /\ Set(x, AfterAccept(t, TRUE))
      /\ replies' = IF t.pc = "update"
                      THEN replies \cup {[to |-> t.caller, ok |-> TRUE,
                                          head |-> t.chain]}
                      ELSE replies
      /\ returned' = IF t.pc = "newest"
                       THEN [returned EXCEPT ![n] = t.chain] ELSE returned
      /\ UNCHANGED <<store, updates>>

\* Under the lock: the head is committed.  A worker then answers; in Latest
\* (where accept fetches again, from the node's own store) it is the result.
Accept(x) ==
  LET t == tasks[x]
      n == Home[x]
  IN  /\ t.pc \in Walking /\ Walked(x)
      /\ Passes(x)
      /\ heads' = [heads EXCEPT ![n] = t.chain]
      /\ Set(x, AfterAccept(t, TRUE))
      /\ replies' = IF t.pc = "update" /\ t.caller # None
                      THEN replies \cup {[to |-> t.caller, ok |-> TRUE,
                                          head |-> t.chain]}
                      ELSE replies
      /\ returned' = IF t.pc = "newest"
                       THEN [returned EXCEPT ![n] = t.chain] ELSE returned
      /\ UNCHANGED <<store, updates>>

\* accept returns an error: the chain is bad, a record cannot be found, the
\* context ends, or the head may not replace the present one.
Reject(x) ==
  LET t == tasks[x]
  IN  /\ t.pc \in Walking
      /\ \/ Cancels
         \/ ~Walked(x)
         \/ ~Passes(x)
      /\ Set(x, AfterAccept(t, FALSE))
      /\ UNCHANGED <<store, heads, updates, replies, returned>>

-----------------------------------------------------------------------------
(* Latest.                                                                 *)

\* Fault: Latest forgets the node's own head.
StartLatestOfPeers(c, op) ==
  /\ op \in Operations[c]
  /\ tasks[c].pc = "idle"
  /\ \E P \in Lookups(Home[c]) :
       Set(c, [IdleTask EXCEPT !.op = op, !.pc = "ask", !.unasked = P])
  /\ UNCHANGED <<store, heads, updates, replies, returned>>

\* LookupContact returns, and the node's own head joins the result.
StartLatest(c, op) ==
  /\ op \in Operations[c]
  /\ tasks[c].pc = "idle"
  /\ \E P \in Lookups(Home[c]) :
       Set(c, [IdleTask EXCEPT !.op = op, !.pc = "ask", !.unasked = P,
                 !.found = {heads[Home[c]]} \ {<< >>}])
  /\ UNCHANGED <<store, heads, updates, replies, returned>>

\* REGISTRY_GET: the peer's head, nothing, or an error.
Ask(c) ==
  LET t == tasks[c]
      m == Nearest(t.unasked)
      asked == [t EXCEPT !.unasked = t.unasked \ {m}]
  IN  /\ t.pc = "ask" /\ t.unasked # {}
      /\ \/ Set(c, [asked EXCEPT !.found = t.found \cup ({heads[m]} \ {<< >>})])
         \/ Set(c, [asked EXCEPT !.failed = TRUE])
      /\ UNCHANGED <<store, heads, updates, replies, returned>>

\* All are asked: nothing was found, or the newest of the heads is walked.
Choose(c) ==
  LET t == tasks[c]
  IN  /\ t.pc = "ask" /\ t.unasked = {}
      /\ \/ /\ t.found = {}
            /\ Set(c, IF t.op = "publish" /\ ~t.failed
                        THEN [IdleTask EXCEPT !.op = "publish", !.pc = "build"]
                        ELSE IdleTask)
         \/ \E h \in t.found :
              /\ \A g \in t.found : VersionOf(g) =< VersionOf(h)
              /\ Set(c, Walk(t, "newest", h))
      /\ UNCHANGED <<store, heads, updates, replies, returned>>

-----------------------------------------------------------------------------
(* Publish.                                                                *)

\* The predecessors that Publish may choose: the head, or with
\* PublishOptions.Previous any record of its chain, or none at all.
Predecessors(h) == {SubSeq(h, 1, i) : i \in 0 .. Len(h)}

\* The checks of Publish, which Force bypasses.
Prechecked(entry, previous, head) ==
  /\ entry.owned
  /\ entry.version > VersionOf(head)
  /\ previous = head

\* Store puts a value on the K closest of the peers found and the node itself;
\* when it fails, on some of them.
Placements(n) ==
  {S \in SUBSET Node : \/ Cardinality(S) = K
                       \/ Cardinality(S) < K /\ n \in S}

\* The record is signed and stored, and distribute looks its targets up.  Nobody
\* asks for a record that no head leads to, so its copies appear in one step.
Publish(c) ==
  LET t == tasks[c]
      n == Home[c]
  IN  /\ t.pc = "build"
      /\ \E entry \in Entry, previous \in Predecessors(t.head), S \in SUBSET Node :
           LET new == Append(previous, entry)
           IN  /\ Forces \/ Prechecked(entry, previous, t.head)
               /\ Len(new) =< MaxLength
               /\ Cardinality(UNION {store[m] : m \in Node} \cup {new}) =< MaxRecords
               /\ store' = [m \in Node |->
                              IF m \in S THEN store[m] \cup {new} ELSE store[m]]
               /\ \/ Cardinality(S) =< K /\ Set(c, IdleTask)
                  \/ /\ S \in Placements(n)
                     /\ \E P \in Lookups(n) :
                          Set(c, Distribute(t, new, Closest(P \cup {n})))
      /\ UNCHANGED <<heads, updates, replies, returned>>

\* Publish returns before it has stored anything: a precheck, or an error.
PublishFails(c) ==
  /\ tasks[c].pc = "build"
  /\ Set(c, IdleTask)
  /\ UNCHANGED <<store, heads, updates, replies, returned>>

-----------------------------------------------------------------------------
(* distribute and send.                                                    *)

\* Replicate distributes the node's head again.
Replicate(c) ==
  LET n == Home[c]
  IN  /\ "replicate" \in Operations[c]
      /\ tasks[c].pc = "idle" /\ heads[n] # << >>
      /\ \E P \in Lookups(n) :
           Set(c, Distribute([IdleTask EXCEPT !.op = "distribute"], heads[n],
                             Closest(P \cup {n})))
      /\ UNCHANGED <<store, heads, updates, replies, returned>>

\* transferToNewPeer sends it to one new peer.
Handoff(c, m) ==
  LET n == Home[c]
  IN  /\ "handoff" \in Operations[c] /\ m # n
      /\ tasks[c].pc = "idle" /\ heads[n] # << >>
      /\ Set(c, Distribute([IdleTask EXCEPT !.op = "distribute"], heads[n], {m}))
      /\ UNCHANGED <<store, heads, updates, replies, returned>>

\* The next target: the node itself, or a peer.
Send(c) ==
  LET t == tasks[c]
      m == Nearest(t.todo)
  IN  /\ t.pc = "send" /\ t.todo # {}
      /\ \/ /\ m = Home[c]
            /\ Set(c, Walk(t, "self", t.head))
            /\ UNCHANGED updates
         \/ /\ m # Home[c]
            /\ Set(c, [t EXCEPT !.pc = "await"])
            /\ updates' = updates \cup {[to |-> m, head |-> t.head]}
      /\ UNCHANGED <<store, heads, replies, returned>>

Finish(c) ==
  /\ tasks[c].pc = "send" /\ tasks[c].todo = {}
  /\ Set(c, IdleTask)
  /\ UNCHANGED <<store, heads, updates, replies, returned>>

\* The call of c ends, its request ID with it: a later answer goes nowhere.
EndCall(c, t) ==
  /\ tasks' = [x \in Task |->
                 IF x = c THEN t
                 ELSE IF tasks[x].caller = c THEN [tasks[x] EXCEPT !.caller = None]
                 ELSE tasks[x]]
  /\ replies' = {r \in replies : r.to # c}

\* The response: an acknowledgment, or a rejection, which may carry a newer
\* head to catch up with.
TakeReply(c) ==
  LET t == tasks[c]
  IN  /\ t.pc = "await"
      /\ \E r \in replies :
           /\ r.to = c
           /\ EndCall(c, IF ~r.ok /\ VersionOf(r.head) > VersionOf(t.head)
                           THEN Walk(t, "catchup", r.head)
                           ELSE Sent(t, r.ok))
      /\ UNCHANGED <<store, heads, updates, returned>>

\* The call fails: every attempt timed out, or the context ended.
CallFails(c) ==
  /\ tasks[c].pc = "await"
  /\ EndCall(c, Sent(tasks[c], FALSE))
  /\ UNCHANGED <<store, heads, updates, returned>>

-----------------------------------------------------------------------------
(* The REGISTRY_UPDATE handler.                                            *)

\* The calls that wait for an answer to u.
Callers(u) ==
  {c \in Client : /\ tasks[c].pc = "await"
                  /\ tasks[c].head = u.head /\ Nearest(tasks[c].todo) = u.to}

\* A request, or another copy of it, finds a free worker.  With none it is lost.
Receive(w) ==
  /\ tasks[w].pc = "idle"
  /\ \E u \in updates : \E c \in Callers(u) \cup {None} :
       /\ u.to = Home[w]
       /\ Set(w, Walk([IdleTask EXCEPT !.op = "update", !.caller = c],
                      "update", u.head))
  /\ UNCHANGED <<store, heads, updates, replies, returned>>

\* A rejection is answered with the node's head, read now.
Refuse(w) ==
  LET t == tasks[w]
  IN  /\ t.pc = "refuse"
      /\ Set(w, IdleTask)
      /\ replies' = IF t.caller = None THEN replies
                    ELSE replies \cup {[to |-> t.caller, ok |-> FALSE,
                                        head |-> heads[Home[w]]]}
      /\ UNCHANGED <<store, heads, updates, returned>>

\* A record reaches another node by the replication or the hand-off of values.
CopyRecord(m, n) ==
  /\ n \in Copied
  /\ \E r \in store[m] \ store[n] :
       store' = [store EXCEPT ![n] = store[n] \cup {r}]
  /\ UNCHANGED <<heads, tasks, updates, replies, returned>>

-----------------------------------------------------------------------------
Walker(x) == Fetch(x) \/ Accept(x) \/ Reject(x)

ClientStep(c) ==
  \/ \E op \in {"latest", "publish"} : StartLatest(c, op)
  \/ Ask(c) \/ Choose(c)
  \/ Publish(c) \/ PublishFails(c)
  \/ Replicate(c) \/ \E m \in Node : Handoff(c, m)
  \/ Send(c) \/ Finish(c)
  \/ TakeReply(c) \/ CallFails(c)

WorkerStep(w) == Receive(w) \/ Refuse(w)

Next ==
  \/ \E x \in Task : Walker(x)
  \/ \E c \in Client : ClientStep(c)
  \/ \E w \in Worker : WorkerStep(w)
  \/ \E m, n \in Node : CopyRecord(m, n)

Spec == Init /\ [][Next]_vars
=============================================================================
