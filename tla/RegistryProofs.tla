--------------------------- MODULE RegistryProofs ---------------------------
(* Proofs about the package registry (module Registry), for every number of  *)
(* nodes and goroutines, and for histories of every length.                  *)
EXTENDS RegistryProps, TLAPS, SequenceTheorems, FiniteSetTheorems

-----------------------------------------------------------------------------
(* The closest node of a set.                                              *)

\* Every set of naturals has a least member.
LEMMA LeastNatural ==
  ASSUME NEW T, T \subseteq Nat, T # {}
  PROVE  \E n \in T : \A m \in T : n =< m
<1> DEFINE R == OpToRel(<, Nat)
<1>1. \A x, y \in Nat : y < x => <<y, x>> \in R
  BY DEF OpToRel
<1>2. IsWellFoundedOn(R, Nat)
  BY NatLessThanWellFounded
<1> HIDE DEF R
<1>3. PICK n \in T : \A m \in T : ~ (<<m, n>> \in R)
  BY <1>2, WFMin
<1>4. ASSUME NEW m \in T PROVE n =< m
  <2>1. m \in Nat /\ n \in Nat
    OBVIOUS
  <2>2. ~ (m < n)
    BY <1>1, <1>3, <2>1
  <2> QED
    BY <2>1, <2>2
<1> QED
  BY <1>4

LEMMA NearestMember ==
  ASSUME NEW S \in SUBSET Node, S # {}
  PROVE  Nearest(S) \in S
<1> DEFINE T == {Rank[m] : m \in S}
<1>1. T \subseteq Nat /\ T # {}
  BY RankAssumption
<1>2. PICK i \in T : \A j \in T : i =< j
  BY <1>1, LeastNatural
<1>3. PICK m \in S : Rank[m] = i
  OBVIOUS
<1>4. \A x \in S : Rank[m] =< Rank[x]
  BY <1>2, <1>3
<1> QED
  BY <1>4 DEF Nearest

-----------------------------------------------------------------------------
(* Histories.                                                              *)

\* A record of a history is a history, and a prefix of it.
LEMMA RecordFacts ==
  ASSUME NEW h \in History, NEW k \in 0 .. Len(h)
  PROVE  /\ RecordOf(h, k) \in History
         /\ Len(RecordOf(h, k)) = k
         /\ \A i \in 1 .. k : RecordOf(h, k)[i] = h[i]
<1>1. Len(h) \in Nat /\ k \in Nat /\ \A i \in 1 .. k : h[i] \in Entry
  BY DEF History
<1> QED
  BY <1>1, SubSeqProperties DEF RecordOf, History

\* Extends is an order on histories.
LEMMA ExtendsOrder ==
  /\ \A h \in History : Extends(h, h) /\ Extends(h, << >>)
  /\ \A f, g, h \in History : Extends(h, g) /\ Extends(g, f) => Extends(h, f)
  /\ \A g, h \in History : Extends(h, g) /\ Extends(g, h) => g = h
<1>1. \A h \in History : Len(h) \in Nat /\ Len(<< >>) = 0
  BY DEF History
<1>2. ASSUME NEW f \in History, NEW g \in History, NEW h \in History,
             Extends(h, g), Extends(g, f)
      PROVE  Extends(h, f)
  BY <1>1, <1>2 DEF Extends
<1>3. ASSUME NEW g \in History, NEW h \in History, Extends(h, g), Extends(g, h)
      PROVE  g = h
  <2>1. Len(g) = Len(h) /\ \A i \in 1 .. Len(g) : g[i] = h[i]
    BY <1>1, <1>3 DEF Extends
  <2> QED
    BY <2>1, SeqEqual DEF History
<1>4. \A h \in History : Extends(h, h) /\ Extends(h, << >>)
  BY <1>1 DEF Extends
<1> QED
  BY <1>2, <1>3, <1>4

\* Two histories that a third extends are in line.
LEMMA ExtendsLine ==
  ASSUME NEW f \in History, NEW g \in History, NEW h \in History,
         Extends(h, f), Extends(h, g)
  PROVE  Extends(f, g) \/ Extends(g, f)
<1>1. Len(f) \in Nat /\ Len(g) \in Nat /\ Len(h) \in Nat
  BY DEF History
<1> QED
  BY <1>1 DEF Extends

\* A record added to a history.
LEMMA AppendFacts ==
  ASSUME NEW h \in History, NEW e \in Entry
  PROVE  /\ Append(h, e) \in History
         /\ Len(Append(h, e)) = Len(h) + 1
         /\ \A i \in 1 .. Len(h) : Append(h, e)[i] = h[i]
         /\ Append(h, e)[Len(h) + 1] = e
BY AppendProperties DEF History

\* Where each record follows a lower version, so does each two.
LEMMA VersionsIncrease ==
  ASSUME NEW h \in History, \A k \in 1 .. Len(h) : Good(h, k)
  PROVE  \A i, j \in 1 .. Len(h) : i < j => h[i].version < h[j].version
<1>1. Len(h) \in Nat /\ \A k \in 1 .. Len(h) : h[k] \in Entry
  BY DEF History
<1>2. \A k \in 1 .. Len(h) : h[k].version \in Nat
  BY <1>1, VersionsAssumption DEF Entry
<1>3. ASSUME NEW k \in 1 .. Len(h), k + 1 \in 1 .. Len(h)
      PROVE  h[k].version < h[k + 1].version
  BY <1>1, <1>3 DEF Good
<1> SUFFICES ASSUME NEW i \in 1 .. Len(h), NEW l \in 1 .. Len(h), i < l,
                    ~(h[i].version < h[l].version)
             PROVE  FALSE
  OBVIOUS
<1> DEFINE T == {j \in 1 .. Len(h) : i < j /\ ~(h[i].version < h[j].version)}
<1>4. l \in T /\ T \subseteq Nat
  BY <1>1
<1>5. PICK j \in T : \A m \in T : j =< m
  <2> HIDE DEF T
  <2> QED
    BY <1>4, LeastNatural
<1>6. j - 1 \in 1 .. Len(h) /\ h[j - 1].version < h[j].version
  <2>1. j - 1 \in 1 .. Len(h) /\ (j - 1) + 1 = j
    BY <1>1
  <2> QED
    BY <1>1, <1>3, <2>1
<1>7. CASE j - 1 = i
  BY <1>6, <1>7
<1>8. CASE j - 1 # i
  <2>1. i < j - 1 /\ j - 1 \notin T
    BY <1>5, <1>6, <1>8
  <2>2. h[i].version < h[j - 1].version
    BY <1>6, <2>1
  <2> QED
    BY <1>2, <1>6, <2>2
<1> QED
  BY <1>7, <1>8

-----------------------------------------------------------------------------
(* Types.                                                                  *)

LEMMA EmptyHistory == << >> \in History
BY DEF History

LEMMA IdleType == IdleTask \in TaskType
BY EmptyHistory DEF IdleTask, TaskType

LEMMA WalkType ==
  ASSUME NEW t \in TaskType, NEW pc \in Walking, NEW h \in History
  PROVE  Walk(t, pc, h) \in TaskType
BY DEF Walk, TaskType

LEMMA SentType ==
  ASSUME NEW t \in TaskType, NEW ok \in BOOLEAN
  PROVE  Sent(t, ok) \in TaskType
BY EmptyHistory DEF Sent, TaskType

LEMMA DistributeType ==
  ASSUME NEW t \in TaskType, NEW h \in History, NEW targets \in SUBSET Node
  PROVE  Distribute(t, h, targets) \in TaskType
BY DEF Distribute, TaskType

LEMMA AfterAcceptType ==
  ASSUME NEW t \in TaskType, NEW ok \in BOOLEAN
  PROVE  AfterAccept(t, ok) \in TaskType
<1>1. [IdleTask EXCEPT !.op = "publish", !.pc = "build", !.head = t.chain] \in TaskType
  BY IdleType DEF TaskType
<1>2. [t EXCEPT !.pc = "refuse"] \in TaskType
  BY DEF TaskType
<1>3. Sent(t, ok) \in TaskType /\ Sent(t, FALSE) \in TaskType
  BY SentType
<1> QED
  BY <1>1, <1>2, <1>3, IdleType DEF AfterAccept

LEMMA SetType ==
  ASSUME TypeOK, NEW x \in Task, NEW t \in TaskType, Set(x, t)
  PROVE  tasks' \in [Task -> TaskType]
BY DEF TypeOK, Set

\* The fields of a task.
LEMMA TaskFields ==
  ASSUME TypeOK, NEW x \in Task
  PROVE  /\ tasks[x] \in TaskType /\ Home[x] \in Node
         /\ tasks[x].unasked \in SUBSET Node /\ tasks[x].found \in SUBSET History
         /\ tasks[x].chain \in History /\ tasks[x].head \in History
         /\ tasks[x].targets \in SUBSET Node /\ tasks[x].todo \in SUBSET Node
         /\ tasks[x].failed \in BOOLEAN /\ tasks[x].caller \in Client \cup {None}
<1>1. tasks[x] \in TaskType
  BY DEF TypeOK
<1> QED
  BY <1>1, HomeAssumption DEF TaskType

LEMMA LookupsType ==
  ASSUME NEW n \in Node, NEW P \in Lookups(n)
  PROVE  P \in SUBSET Node /\ Closest(P \cup {n}) \in SUBSET Node
BY DEF Lookups, Closest

LEMMA WalkerKeepsType ==
  ASSUME TypeOK, NEW x \in Task, Walker(x)
  PROVE  TypeOK'
<1>1. CASE Fetch(x)
  <2>1. PICK k \in 1 .. Len(tasks[x].chain) :
          store' = [store EXCEPT ![Home[x]] =
                      store[Home[x]] \cup {RecordOf(tasks[x].chain, k)}]
    BY <1>1 DEF Fetch
  <2>2. RecordOf(tasks[x].chain, k) \in History
    BY TaskFields, RecordFacts
  <2>3. store' \in [Node -> SUBSET History]
    BY <2>1, <2>2, TaskFields DEF TypeOK
  <2> QED
    BY <1>1, <2>3 DEF Fetch, TypeOK
<1>2. CASE Accept(x)
  <2>1. AfterAccept(tasks[x], TRUE) \in TaskType /\ Set(x, AfterAccept(tasks[x], TRUE))
    BY <1>2, TaskFields, AfterAcceptType DEF Accept
  <2>2. tasks' \in [Task -> TaskType]
    BY <2>1, SetType
  <2>3. heads' \in [Node -> History] /\ returned' \in [Node -> History]
    BY <1>2, TaskFields DEF Accept, TypeOK
  <2>4. replies' \in SUBSET [to : Client, ok : BOOLEAN, head : History]
    <3>1. CASE tasks[x].pc = "update" /\ tasks[x].caller # None
      <4>1. [to |-> tasks[x].caller, ok |-> TRUE, head |-> tasks[x].chain]
              \in [to : Client, ok : BOOLEAN, head : History]
        BY <3>1, TaskFields
      <4> QED
        BY <1>2, <3>1, <4>1 DEF Accept, TypeOK
    <3>2. CASE ~(tasks[x].pc = "update" /\ tasks[x].caller # None)
      BY <1>2, <3>2 DEF Accept, TypeOK
    <3> QED
      BY <3>1, <3>2
  <2> QED
    BY <1>2, <2>2, <2>3, <2>4 DEF Accept, TypeOK
<1>3. CASE Reject(x)
  <2>1. AfterAccept(tasks[x], FALSE) \in TaskType /\ Set(x, AfterAccept(tasks[x], FALSE))
    BY <1>3, TaskFields, AfterAcceptType DEF Reject
  <2>2. tasks' \in [Task -> TaskType]
    BY <2>1, SetType
  <2> QED
    BY <1>3, <2>2 DEF Reject, TypeOK
<1> QED
  BY <1>1, <1>2, <1>3 DEF Walker

LEMMA LatestKeepsType ==
  ASSUME TypeOK, NEW c \in Client,
         (\E op \in {"latest", "publish"} : StartLatest(c, op)) \/ Ask(c) \/ Choose(c)
  PROVE  TypeOK'
<1> DEFINE t == tasks[c]
<1>1. c \in Task
  BY DEF Task
<1>2. /\ t \in TaskType /\ Home[c] \in Node /\ heads \in [Node -> History]
      /\ t.unasked \in SUBSET Node /\ t.found \in SUBSET History
  BY <1>1, TaskFields DEF TypeOK
<1>3. UNCHANGED <<store, heads, updates, replies, returned>>
  BY DEF StartLatest, Ask, Choose
<1>4. \E u \in TaskType : Set(c, u)
  <2>1. ASSUME NEW op \in {"latest", "publish"}, StartLatest(c, op)
        PROVE  \E u \in TaskType : Set(c, u)
    <3>1. PICK P \in Lookups(Home[c]) :
            Set(c, [IdleTask EXCEPT !.op = op, !.pc = "ask", !.unasked = P,
                      !.found = {heads[Home[c]]} \ {<< >>}])
      BY <2>1 DEF StartLatest
    <3>2. P \in SUBSET Node /\ {heads[Home[c]]} \ {<< >>} \in SUBSET History
      BY <1>2, LookupsType
    <3>3. [IdleTask EXCEPT !.op = op, !.pc = "ask", !.unasked = P,
             !.found = {heads[Home[c]]} \ {<< >>}] \in TaskType
      BY <3>2, IdleType DEF TaskType
    <3> QED
      BY <3>1, <3>3
  <2>2. CASE Ask(c)
    <3> DEFINE m == Nearest(t.unasked)
               asked == [t EXCEPT !.unasked = t.unasked \ {m}]
    <3>1. m \in Node
      BY <1>2, <2>2, NearestMember DEF Ask
    <3>2. /\ [asked EXCEPT !.found = t.found \cup ({heads[m]} \ {<< >>})] \in TaskType
          /\ [asked EXCEPT !.failed = TRUE] \in TaskType
      <4>1. heads[m] \in History
        BY <1>2, <3>1
      <4> HIDE DEF m
      <4>2. t.found \cup ({heads[m]} \ {<< >>}) \in SUBSET History
        BY <1>2, <4>1
      <4> QED
        BY <1>2, <4>2 DEF TaskType
    <3> QED
      BY <2>2, <3>2 DEF Ask
  <2>3. CASE Choose(c)
    <3>1. [IdleTask EXCEPT !.op = "publish", !.pc = "build"] \in TaskType
      BY IdleType DEF TaskType
    <3>2. \A h \in t.found : Walk(t, "newest", h) \in TaskType
      BY <1>2, WalkType DEF Walking
    <3> QED
      BY <2>3, <3>1, <3>2, IdleType DEF Choose
  <2> QED
    BY <2>1, <2>2, <2>3
<1>5. tasks' \in [Task -> TaskType]
  BY <1>1, <1>4, SetType
<1> QED
  BY <1>3, <1>5 DEF TypeOK

\* What a publication leaves: the record, stored on some nodes, and its head.
LEMMA PublishStep ==
  ASSUME TypeOK, NEW c \in Client, Publish(c)
  PROVE  \E i \in 0 .. Len(tasks[c].head), entry \in Entry, S \in SUBSET Node :
           LET previous == RecordOf(tasks[c].head, i)
               new == Append(previous, entry)
           IN  /\ previous \in History /\ new \in History
               /\ Forces \/ Prechecked(entry, previous, tasks[c].head)
               /\ store' = [m \in Node |->
                              IF m \in S THEN store[m] \cup {new} ELSE store[m]]
               /\ \/ Set(c, IdleTask)
                  \/ /\ S \in Placements(Home[c])
                     /\ \E P \in Lookups(Home[c]) :
                          Set(c, Distribute(tasks[c], new, Closest(P \cup {Home[c]})))
               /\ UNCHANGED <<heads, updates, replies, returned>>
<1>1. PICK entry \in Entry, previous \in Predecessors(tasks[c].head), S \in SUBSET Node :
        LET new == Append(previous, entry)
        IN  /\ Forces \/ Prechecked(entry, previous, tasks[c].head)
            /\ store' = [m \in Node |->
                           IF m \in S THEN store[m] \cup {new} ELSE store[m]]
            /\ \/ Set(c, IdleTask)
               \/ /\ S \in Placements(Home[c])
                  /\ \E P \in Lookups(Home[c]) :
                       Set(c, Distribute(tasks[c], new, Closest(P \cup {Home[c]})))
  BY DEF Publish
<1>2. PICK i \in 0 .. Len(tasks[c].head) : previous = RecordOf(tasks[c].head, i)
  BY DEF Predecessors, RecordOf
<1>3. tasks[c].head \in History
  BY TaskFields DEF Task
<1>4. previous \in History
  BY <1>2, <1>3, RecordFacts
<1>5. Append(previous, entry) \in History
  BY <1>4, AppendFacts
<1>6. UNCHANGED <<heads, updates, replies, returned>>
  BY DEF Publish
<1> QED
  BY <1>1, <1>2, <1>4, <1>5, <1>6

LEMMA PublishKeepsType ==
  ASSUME TypeOK, NEW c \in Client, Publish(c)
  PROVE  TypeOK'
<1>1. c \in Task /\ tasks[c] \in TaskType /\ Home[c] \in Node
  BY TaskFields DEF Task
<1>2. PICK new \in History, S \in SUBSET Node :
        /\ store' = [m \in Node |->
                       IF m \in S THEN store[m] \cup {new} ELSE store[m]]
        /\ \/ Set(c, IdleTask)
           \/ \E P \in Lookups(Home[c]) :
                Set(c, Distribute(tasks[c], new, Closest(P \cup {Home[c]})))
        /\ UNCHANGED <<heads, updates, replies, returned>>
  BY PublishStep
<1>3. store' \in [Node -> SUBSET History]
  BY <1>2 DEF TypeOK
<1>4. \E u \in TaskType : Set(c, u)
  BY <1>1, <1>2, IdleType, LookupsType, DistributeType
<1>5. tasks' \in [Task -> TaskType]
  BY <1>1, <1>4, SetType
<1> QED
  BY <1>2, <1>3, <1>5 DEF TypeOK

LEMMA DistributeKeepsType ==
  ASSUME TypeOK, NEW c \in Client,
         \/ PublishFails(c) \/ Replicate(c) \/ (\E m \in Node : Handoff(c, m))
         \/ Send(c) \/ Finish(c)
  PROVE  TypeOK'
<1> DEFINE t == tasks[c]
<1>1. c \in Task
  BY DEF Task
<1>2. /\ t \in TaskType /\ Home[c] \in Node /\ heads[Home[c]] \in History
      /\ t.head \in History /\ t.todo \in SUBSET Node
  BY <1>1, TaskFields DEF TypeOK
<1>3. UNCHANGED <<store, heads, replies, returned>>
  BY DEF PublishFails, Replicate, Handoff, Send, Finish
<1>4. [IdleTask EXCEPT !.op = "distribute"] \in TaskType
  BY IdleType DEF TaskType
<1>5. (\E u \in TaskType : Set(c, u))
      /\ updates' \in SUBSET [to : Node, head : History]
  <2>1. CASE PublishFails(c) \/ Finish(c)
    BY <2>1, IdleType DEF PublishFails, Finish, TypeOK
  <2>2. CASE Replicate(c)
    BY <1>2, <1>4, <2>2, LookupsType, DistributeType DEF Replicate, TypeOK
  <2>3. ASSUME NEW m \in Node, Handoff(c, m)
        PROVE  (\E u \in TaskType : Set(c, u)) /\ updates' = updates
    BY <1>2, <1>4, <2>3, DistributeType DEF Handoff
  <2>4. CASE Send(c)
    <3>1. Nearest(t.todo) \in Node
      BY <1>2, <2>4, NearestMember DEF Send
    <3>2. Walk(t, "self", t.head) \in TaskType /\ [t EXCEPT !.pc = "await"] \in TaskType
      <4>1. [t EXCEPT !.pc = "await"] \in TaskType
        BY <1>2 DEF TaskType
      <4> QED
        BY <1>2, <4>1, WalkType DEF Walking
    <3> QED
      BY <1>2, <2>4, <3>1, <3>2 DEF Send, TypeOK
  <2> QED
    BY <2>1, <2>2, <2>3, <2>4 DEF TypeOK
<1>6. tasks' \in [Task -> TaskType]
  BY <1>1, <1>5, SetType
<1> QED
  BY <1>3, <1>5, <1>6 DEF TypeOK

LEMMA EndCallKeepsType ==
  ASSUME TypeOK, NEW c \in Client, NEW t \in TaskType, EndCall(c, t),
         UNCHANGED <<store, heads, updates, returned>>
  PROVE  TypeOK'
<1>1. tasks' \in [Task -> TaskType]
  <2>1. \A x \in Task : [tasks[x] EXCEPT !.caller = None] \in TaskType
    BY DEF TypeOK, TaskType
  <2> QED
    BY <2>1 DEF EndCall, TypeOK
<1> QED
  BY <1>1 DEF EndCall, TypeOK

LEMMA AnswerKeepsType ==
  ASSUME TypeOK, NEW c \in Client, TakeReply(c) \/ CallFails(c)
  PROVE  TypeOK'
<1>1. tasks[c] \in TaskType /\ UNCHANGED <<store, heads, updates, returned>>
  BY TaskFields DEF Task, TakeReply, CallFails
<1>2. CASE TakeReply(c)
  <2>1. PICK r \in replies :
          EndCall(c, IF ~r.ok /\ VersionOf(r.head) > VersionOf(tasks[c].head)
                       THEN Walk(tasks[c], "catchup", r.head)
                       ELSE Sent(tasks[c], r.ok))
    BY <1>2 DEF TakeReply
  <2>2. r.ok \in BOOLEAN /\ r.head \in History
    BY DEF TypeOK
  <2>3. Walk(tasks[c], "catchup", r.head) \in TaskType /\ Sent(tasks[c], r.ok) \in TaskType
    BY <1>1, <2>2, WalkType, SentType DEF Walking
  <2> QED
    BY <1>1, <2>1, <2>3, EndCallKeepsType
<1>3. CASE CallFails(c)
  BY <1>1, <1>3, SentType, EndCallKeepsType DEF CallFails
<1> QED
  BY <1>2, <1>3

LEMMA WorkerKeepsType ==
  ASSUME TypeOK, NEW w \in Worker, WorkerStep(w)
  PROVE  TypeOK'
<1>1. w \in Task /\ tasks[w] \in TaskType /\ Home[w] \in Node
  BY TaskFields DEF Task
<1>2. CASE Receive(w)
  <2>0. PICK u \in updates : \E c \in Callers(u) \cup {None} :
          Set(w, Walk([IdleTask EXCEPT !.op = "update", !.caller = c], "update", u.head))
    BY <1>2 DEF Receive
  <2>1. PICK c \in Callers(u) \cup {None} :
          Set(w, Walk([IdleTask EXCEPT !.op = "update", !.caller = c], "update", u.head))
    BY <2>0
  <2>2. u.head \in History /\ c \in Client \cup {None}
    BY DEF TypeOK, Callers
  <2>3. [IdleTask EXCEPT !.op = "update", !.caller = c] \in TaskType
    BY <2>2, IdleType DEF TaskType
  <2>4. Walk([IdleTask EXCEPT !.op = "update", !.caller = c], "update", u.head) \in TaskType
    BY <2>2, <2>3, WalkType DEF Walking
  <2>5. tasks' \in [Task -> TaskType]
    BY <1>1, <2>1, <2>4, SetType
  <2> QED
    BY <1>2, <2>5 DEF Receive, TypeOK
<1>3. CASE Refuse(w)
  <2>1. tasks' \in [Task -> TaskType]
    BY <1>1, <1>3, IdleType, SetType DEF Refuse
  <2>2. replies' \in SUBSET [to : Client, ok : BOOLEAN, head : History]
    <3>1. CASE tasks[w].caller # None
      <4>1. [to |-> tasks[w].caller, ok |-> FALSE, head |-> heads[Home[w]]]
              \in [to : Client, ok : BOOLEAN, head : History]
        BY <1>1, <3>1, TaskFields DEF TypeOK
      <4> QED
        BY <1>3, <3>1, <4>1 DEF Refuse, TypeOK
    <3>2. CASE tasks[w].caller = None
      BY <1>3, <3>2 DEF Refuse, TypeOK
    <3> QED
      BY <3>1, <3>2
  <2> QED
    BY <1>3, <2>1, <2>2 DEF Refuse, TypeOK
<1> QED
  BY <1>2, <1>3 DEF WorkerStep

LEMMA TypeStep == TypeOK /\ [Next]_vars => TypeOK'
<1> SUFFICES ASSUME TypeOK, [Next]_vars PROVE TypeOK'
  OBVIOUS
<1>1. ASSUME NEW x \in Task, Walker(x) PROVE TypeOK'
  BY <1>1, WalkerKeepsType
<1>2. ASSUME NEW c \in Client, ClientStep(c) PROVE TypeOK'
  BY <1>2, LatestKeepsType, PublishKeepsType, DistributeKeepsType, AnswerKeepsType
     DEF ClientStep
<1>3. ASSUME NEW w \in Worker, WorkerStep(w) PROVE TypeOK'
  BY <1>3, WorkerKeepsType
<1>4. ASSUME NEW m \in Node, NEW n \in Node, CopyRecord(m, n) PROVE TypeOK'
  BY <1>4 DEF CopyRecord, TypeOK
<1>5. CASE UNCHANGED vars
  BY <1>5 DEF vars, TypeOK
<1> QED
  BY <1>1, <1>2, <1>3, <1>4, <1>5 DEF Next

LEMMA TypeInit == Init => TypeOK
BY EmptyHistory, IdleType DEF Init, TypeOK

\* Every variable of the registry holds a value of its type.
THEOREM RegistryTypeCorrect == Spec => []TypeOK
<1> QED
  BY TypeInit, TypeStep, PTL DEF Spec

-----------------------------------------------------------------------------
(* Heads and the records behind them.                                      *)

\* Only accept commits a head or ends a read.
LEMMA OnlyAcceptCommits ==
  ASSUME [Next]_vars
  PROVE  UNCHANGED <<heads, returned>> \/ \E x \in Task : Accept(x)
<1>1. ASSUME NEW x \in Task, Walker(x)
      PROVE  UNCHANGED <<heads, returned>> \/ Accept(x)
  BY <1>1 DEF Walker, Fetch, Reject
<1>2. ASSUME NEW c \in Client, ClientStep(c)
      PROVE  UNCHANGED <<heads, returned>>
  BY <1>2 DEF ClientStep, StartLatest, Ask, Choose, Publish, PublishFails, Replicate,
     Handoff, Send, Finish, TakeReply, CallFails
<1>3. ASSUME NEW w \in Worker, WorkerStep(w)
      PROVE  UNCHANGED <<heads, returned>>
  BY <1>3 DEF WorkerStep, Receive, Refuse
<1>4. ASSUME NEW m \in Node, NEW n \in Node, CopyRecord(m, n)
      PROVE  UNCHANGED <<heads, returned>>
  BY <1>4 DEF CopyRecord
<1> QED
  BY <1>1, <1>2, <1>3, <1>4 DEF Next, vars

\* No step takes a record out of a store.
LEMMA StoresGrow ==
  ASSUME TypeOK, [Next]_vars
  PROVE  \A n \in Node : store[n] \subseteq store'[n]
<1>1. store \in [Node -> SUBSET History]
  BY DEF TypeOK
<1>2. ASSUME NEW x \in Task, Walker(x)
      PROVE  \A n \in Node : store[n] \subseteq store'[n]
  BY <1>1, <1>2 DEF Walker, Fetch, Accept, Reject
<1>3. ASSUME NEW c \in Client, ClientStep(c)
      PROVE  \A n \in Node : store[n] \subseteq store'[n]
  <2>1. CASE Publish(c)
    <3>1. PICK new \in History, S \in SUBSET Node :
            store' = [m \in Node |-> IF m \in S THEN store[m] \cup {new} ELSE store[m]]
      BY <2>1, PublishStep
    <3> QED
      BY <3>1
  <2>2. CASE ~Publish(c)
    BY <1>3, <2>2 DEF ClientStep, StartLatest, Ask, Choose, PublishFails, Replicate,
       Handoff, Send, Finish, TakeReply, CallFails
  <2> QED
    BY <2>1, <2>2
<1>4. ASSUME NEW w \in Worker, WorkerStep(w)
      PROVE  store' = store
  BY <1>4 DEF WorkerStep, Receive, Refuse
<1>5. ASSUME NEW m \in Node, NEW n \in Node, CopyRecord(m, n)
      PROVE  \A l \in Node : store[l] \subseteq store'[l]
  BY <1>1, <1>5 DEF CopyRecord
<1> QED
  BY <1>2, <1>3, <1>4, <1>5 DEF Next, vars

\* What accept commits: the chain it has walked, which is or continues the head.
LEMMA AcceptStep ==
  ASSUME TypeOK, NEW x \in Task, Accept(x)
  PROVE  /\ Home[x] \in Node /\ tasks[x].chain \in History
         /\ heads' = [heads EXCEPT ![Home[x]] = tasks[x].chain]
         /\ store' = store
         /\ Acceptable(heads[Home[x]], tasks[x].chain)
         /\ \A k \in 1 .. Len(tasks[x].chain) :
              /\ RecordOf(tasks[x].chain, k) \in store[Home[x]]
              /\ Good(tasks[x].chain, k)
         /\ \/ UNCHANGED returned
            \/ returned' = [returned EXCEPT ![Home[x]] = tasks[x].chain]
BY TaskFields DEF Accept, Passes, Walked, Passed

\* A head only moves along its history.
LEMMA HeadsGrow ==
  ASSUME TypeOK, [Next]_vars
  PROVE  \A n \in Node : Extends(heads'[n], heads[n])
<1>1. heads \in [Node -> History]
  BY DEF TypeOK
<1>2. ASSUME NEW x \in Task, Accept(x)
      PROVE  \A n \in Node : Extends(heads'[n], heads[n])
  BY <1>1, <1>2, AcceptStep, ExtendsOrder DEF Acceptable
<1>3. CASE UNCHANGED <<heads, returned>>
  BY <1>1, <1>3, ExtendsOrder
<1> QED
  BY <1>2, <1>3, OnlyAcceptCommits

LEMMA HeadsHoldStep == TypeOK /\ HeadsHoldHistory /\ [Next]_vars => HeadsHoldHistory'
<1> SUFFICES ASSUME TypeOK, HeadsHoldHistory, [Next]_vars,
                    NEW n \in Node, NEW k \in 1 .. Len(heads'[n])
             PROVE  RecordOf(heads'[n], k) \in store'[n] /\ Good(heads'[n], k)
  BY DEF HeadsHoldHistory, RecordOf
<1>1. store[n] \subseteq store'[n]
  BY StoresGrow
<1>2. CASE heads'[n] = heads[n]
  BY <1>1, <1>2 DEF HeadsHoldHistory, RecordOf
<1>3. ASSUME NEW x \in Task, Accept(x), heads'[n] # heads[n]
      PROVE  RecordOf(heads'[n], k) \in store'[n] /\ Good(heads'[n], k)
  <2>1. n = Home[x] /\ heads'[n] = tasks[x].chain
    BY <1>3, AcceptStep DEF TypeOK
  <2> QED
    BY <1>3, <2>1, AcceptStep
<1> QED
  BY <1>2, <1>3, OnlyAcceptCommits

LEMMA HeadsHoldInvariant == Spec => [](TypeOK /\ HeadsHoldHistory)
<1>1. Init => HeadsHoldHistory
  <2> SUFFICES ASSUME Init, NEW n \in Node, NEW k \in 1 .. Len(heads[n])
               PROVE  FALSE
    BY DEF HeadsHoldHistory
  <2> QED
    BY DEF Init
<1> QED
  BY <1>1, TypeInit, TypeStep, HeadsHoldStep, PTL DEF Spec

\* A node that holds a head can serve its whole history from its own store, and
\* every record of it verifies (registry.go:110).
THEOREM HeadsAreServed == Spec => []HeadsHoldHistory
<1> QED
  BY HeadsHoldInvariant, PTL

-----------------------------------------------------------------------------
(* The registry implements Histories.                                      *)

\* A head that replaces another continues it by records that are in order.
LEMMA AcceptGrows ==
  ASSUME NEW g \in History, NEW h \in History, Acceptable(g, h), h # g,
         \A k \in 1 .. Len(h) : Good(h, k)
  PROVE  Promise!Grows(g, h)
<1>1. Len(g) \in Nat /\ Len(h) \in Nat /\ DOMAIN h = 1 .. Len(h)
  BY DEF History
<1>2. Extends(h, g) /\ Len(g) =< Len(h)
  BY DEF Acceptable, Extends
<1>3. Len(g) # Len(h)
  <2> SUFFICES ASSUME Len(g) = Len(h) PROVE FALSE
    OBVIOUS
  <2>1. \A i \in 1 .. Len(g) : g[i] = h[i]
    BY <1>2 DEF Extends
  <2> QED
    BY <2>1, SeqEqual DEF History
<1>4. SubSeq(h, 1, Len(g)) = g
  <2>1. Len(g) \in 0 .. Len(h)
    BY <1>1, <1>2
  <2>2. /\ RecordOf(h, Len(g)) \in History /\ Len(RecordOf(h, Len(g))) = Len(g)
        /\ \A i \in 1 .. Len(g) : RecordOf(h, Len(g))[i] = g[i]
    BY <1>2, <2>1, RecordFacts DEF Extends
  <2>3. RecordOf(h, Len(g)) = g
    BY <2>2, SeqEqual DEF History
  <2> QED
    BY <2>3 DEF RecordOf
<1>5. \A i \in DOMAIN h : h[i] \in Promise!Record /\ h[i].version # 0
  <2>1. \A i \in DOMAIN h : h[i] \in Entry
    BY <1>1 DEF History
  <2>2. \A i \in DOMAIN h : h[i].owned = TRUE /\ h[i].version # 0
    BY <1>1, <2>1 DEF Good, Entry
  <2> QED
    BY <2>1, <2>2 DEF Entry, Promise!Record
<1>6. \A i, j \in DOMAIN h : i < j => h[i].version < h[j].version
  BY <1>1, VersionsIncrease
<1>7. Len(h) > Len(g)
  BY <1>1, <1>2, <1>3
<1> QED
  BY <1>4, <1>5, <1>6, <1>7, Zenon DEF Promise!Grows

\* The registry, seen as one history on each node, does nothing that Histories
\* does not allow: histories only grow by records in order, and a read returns
\* what the history is at the moment of the commit in accept.
THEOREM RegistryImplementsHistories == Spec => ImplementsHistories
<1>1. Init => Promise!Init
  BY DEF Init, Promise!Init
<1>2. TypeOK /\ [Next]_vars => [Promise!Next]_<<heads, returned>>
  <2> SUFFICES ASSUME TypeOK, NEW x \in Task, Accept(x)
               PROVE  Promise!Next
    BY OnlyAcceptCommits
  <2> DEFINE n == Home[x]
             h == tasks[x].chain
  <2>1. /\ n \in Node /\ h \in History /\ heads[n] \in History
        /\ heads' = [heads EXCEPT ![n] = h] /\ heads'[n] = h
        /\ Acceptable(heads[n], h)
        /\ \A k \in 1 .. Len(h) : Good(h, k)
    BY AcceptStep DEF TypeOK
  <2>2. h = heads[n] \/ Promise!Grows(heads[n], h)
    BY <2>1, AcceptGrows
  <2>3. UNCHANGED returned \/ returned' = [returned EXCEPT ![n] = heads'[n]]
    BY <2>1, AcceptStep
  <2> HIDE DEF n, h
  <2> QED
    BY <2>1, <2>2, <2>3 DEF Promise!Next, Promise!Reach
<1> QED
  BY <1>1, <1>2, RegistryTypeCorrect, PTL DEF Spec, ImplementsHistories, Promise!Spec

-----------------------------------------------------------------------------
(* What an acknowledgment stands for.                                      *)

\* Where a client is in distribute, and in a call to a target.
Distributing == {"send", "await", "self", "catchup"}
AtTarget == {"await", "self", "catchup"}

\* Client c with task t, when H are the heads: it works through its targets one
\* by one, and those that it is done with hold its head.
ClientGood(c, t, H) ==
  /\ t.pc \notin {"update", "refuse"} /\ t.caller = None
  /\ t.targets # {} => t.pc \in Distributing
  /\ t.todo \subseteq t.targets
  /\ t.pc \in AtTarget => t.todo # {}
  /\ t.pc = "self" => t.chain = t.head /\ Nearest(t.todo) = Home[c]
  /\ t.targets # {} /\ ~t.failed =>
       \A m \in t.targets \ t.todo : Extends(H[m], t.head)

\* A worker that will answer a call walks the head that is sent in that call.
WorkerGood(w) ==
  /\ tasks[w].pc \in {"idle", "update", "refuse"}
  /\ tasks[w].caller # None =>
       /\ tasks[w].pc # "idle"
       /\ tasks[tasks[w].caller].pc = "await"
       /\ tasks[tasks[w].caller].head = tasks[w].chain
       /\ Nearest(tasks[tasks[w].caller].todo) = Home[w]

\* An acknowledgment under way: the target has, or has passed, the head sent.
ReplyGood(r) ==
  /\ tasks[r.to].pc = "await"
  /\ r.ok => Extends(heads[Nearest(tasks[r.to].todo)], tasks[r.to].head)

AckInv ==
  /\ TypeOK
  /\ \A c \in Client : ClientGood(c, tasks[c], heads)
  /\ \A w \in Worker : WorkerGood(w)
  /\ \A r \in replies : ReplyGood(r)

LEMMA KindsOfTask ==
  /\ \A c \in Client : c \in Task /\ c \notin Worker /\ c # None
  /\ \A w \in Worker : w \in Task /\ w \notin Client
BY TaskAssumption DEF Task

\* The target being called is a node.
LEMMA TargetType ==
  ASSUME TypeOK, NEW c \in Client, ClientGood(c, tasks[c], heads),
         tasks[c].pc \in AtTarget
  PROVE  Nearest(tasks[c].todo) \in Node /\ Nearest(tasks[c].todo) \in tasks[c].todo
<1>1. tasks[c].todo \in SUBSET Node /\ tasks[c].todo # {}
  BY TaskFields, KindsOfTask DEF ClientGood
<1> QED
  BY <1>1, NearestMember

\* Heads that move along their histories take back no acknowledgment.
LEMMA ClientGoodGrows ==
  ASSUME NEW c \in Client, NEW t \in TaskType,
         NEW G \in [Node -> History], NEW H \in [Node -> History],
         \A n \in Node : Extends(H[n], G[n]), ClientGood(c, t, G)
  PROVE  ClientGood(c, t, H)
<1>1. t.targets \in SUBSET Node /\ t.head \in History
  BY DEF TaskType
<1>2. ASSUME NEW m \in t.targets \ t.todo, Extends(G[m], t.head)
      PROVE  Extends(H[m], t.head)
  BY <1>1, <1>2, ExtendsOrder
<1> QED
  BY <1>2 DEF ClientGood

\* An idle client.
LEMMA IdleGood ==
  ASSUME NEW c \in Client, NEW t, NEW H,
         t.pc \in {"idle", "ask", "build", "newest"}, t.targets = {}, t.todo = {},
         t.caller = None
  PROVE  ClientGood(c, t, H)
BY DEF ClientGood, AtTarget, Distributing

LEMMA IdleTaskGood ==
  ASSUME NEW c \in Client, NEW H
  PROVE  ClientGood(c, IdleTask, H)
<1>1. /\ IdleTask.pc = "idle" /\ IdleTask.targets = {} /\ IdleTask.todo = {}
      /\ IdleTask.caller = None
  BY DEF IdleTask
<1> QED
  BY <1>1, IdleGood

\* distribute starts with nothing acknowledged.
LEMMA DistributeGood ==
  ASSUME NEW c \in Client, NEW t \in TaskType, NEW H, t.caller = None,
         NEW h \in History, NEW targets \in SUBSET Node
  PROVE  ClientGood(c, Distribute(t, h, targets), H)
<1> DEFINE u == Distribute(t, h, targets)
<1>1. /\ u.pc = "send" /\ u.caller = None /\ u.targets = targets /\ u.todo = targets
  BY DEF Distribute, TaskType
<1> HIDE DEF u
<1>2. u.pc \notin AtTarget \cup {"update", "refuse"} /\ u.pc # "self" /\ u.pc \in Distributing
  BY <1>1 DEF AtTarget, Distributing
<1> QED
  BY <1>1, <1>2 DEF ClientGood, u

\* distribute goes on after a target that failed, or that holds the head.
LEMMA SentGood ==
  ASSUME NEW c \in Client, NEW t \in TaskType, NEW H, NEW ok \in BOOLEAN,
         ClientGood(c, t, H), t.pc \in AtTarget,
         ok => Extends(H[Nearest(t.todo)], t.head)
  PROVE  ClientGood(c, Sent(t, ok), H)
<1> DEFINE u == Sent(t, ok)
<1>1. /\ u.pc = "send" /\ u.caller = t.caller /\ u.targets = t.targets
      /\ u.todo = t.todo \ {Nearest(t.todo)} /\ u.head = t.head
      /\ u.failed <=> t.failed \/ ~ok
  BY DEF Sent, TaskType
<1> HIDE DEF u
<1>2. ASSUME u.targets # {}, ~u.failed, NEW m \in u.targets \ u.todo
      PROVE  Extends(H[m], u.head)
  <2>1. CASE m = Nearest(t.todo)
    BY <1>1, <1>2, <2>1
  <2>2. CASE m # Nearest(t.todo)
    BY <1>1, <1>2, <2>2 DEF ClientGood
  <2> QED
    BY <2>1, <2>2
<1>3. /\ u.pc \notin {"update", "refuse"} /\ u.caller = None
      /\ u.targets # {} => u.pc \in Distributing
      /\ u.todo \subseteq u.targets
      /\ u.pc \notin AtTarget /\ u.pc # "self"
  BY <1>1 DEF ClientGood, AtTarget, Distributing
<1> QED
  BY <1>2, <1>3 DEF ClientGood, u

\* A worker's and a reply's promise when heads move and the callers stay.
LEMMA OthersKeepGood ==
  ASSUME AckInv, NEW H \in [Node -> History], \A n \in Node : Extends(H[n], heads[n])
  PROVE  /\ \A c \in Client : ClientGood(c, tasks[c], H)
         /\ \A r \in replies :
              /\ tasks[r.to].pc = "await"
              /\ r.ok => Extends(H[Nearest(tasks[r.to].todo)], tasks[r.to].head)
<1>1. heads \in [Node -> History] /\ \A c \in Client : tasks[c] \in TaskType
  BY KindsOfTask DEF AckInv, TypeOK
<1>2. \A c \in Client : ClientGood(c, tasks[c], H)
  BY <1>1, ClientGoodGrows DEF AckInv
<1>3. ASSUME NEW r \in replies, r.ok
      PROVE  Extends(H[Nearest(tasks[r.to].todo)], tasks[r.to].head)
  <2>1. r.to \in Client /\ tasks[r.to].pc \in AtTarget
    BY DEF AckInv, TypeOK, ReplyGood, AtTarget
  <2>2. Nearest(tasks[r.to].todo) \in Node /\ tasks[r.to].head \in History
    BY <2>1, TargetType, TaskFields, KindsOfTask DEF AckInv
  <2>3. Extends(heads[Nearest(tasks[r.to].todo)], tasks[r.to].head)
    BY <1>3 DEF AckInv, ReplyGood
  <2> QED
    BY <1>1, <2>2, <2>3, ExtendsOrder
<1> QED
  BY <1>2, <1>3 DEF AckInv, ReplyGood

\* A client that is in no call moves.
LEMMA ClientMoves ==
  ASSUME AckInv, [Next]_vars, NEW c \in Client, tasks[c].pc # "await",
         NEW t, Set(c, t), ClientGood(c, t, heads'), replies' = replies
  PROVE  AckInv'
<1>1. /\ TypeOK' /\ heads' \in [Node -> History]
      /\ \A n \in Node : Extends(heads'[n], heads[n])
  BY TypeStep, HeadsGrow DEF AckInv, TypeOK
<1>2. c \in Task /\ tasks' = [tasks EXCEPT ![c] = t] /\ tasks \in [Task -> TaskType]
  BY KindsOfTask DEF Set, AckInv, TypeOK
<1>3. ASSUME NEW d \in Client
      PROVE  ClientGood(d, tasks'[d], heads')
  BY <1>1, <1>2, OthersKeepGood, KindsOfTask
<1>4. ASSUME NEW w \in Worker
      PROVE  WorkerGood(w)'
  <2>1. w \in Task /\ tasks'[w] = tasks[w] /\ WorkerGood(w)
    BY <1>2, KindsOfTask DEF AckInv
  <2>2. tasks[w].caller # None =>
          /\ tasks[w].caller # c
          /\ tasks'[tasks[w].caller] = tasks[tasks[w].caller]
    BY <1>2, <2>1 DEF WorkerGood
  <2> QED
    BY <2>1, <2>2 DEF WorkerGood
<1>5. ASSUME NEW r \in replies
      PROVE  ReplyGood(r)'
  <2>1. r.to # c /\ r.to \in Task
    BY KindsOfTask DEF AckInv, TypeOK, ReplyGood
  <2>2. tasks'[r.to] = tasks[r.to]
    BY <1>2, <2>1
  <2> QED
    BY <1>1, <2>2, OthersKeepGood DEF ReplyGood
<1> QED
  BY <1>1, <1>3, <1>4, <1>5 DEF AckInv

\* A worker moves; a reply that it sends is a good one.
LEMMA WorkerMoves ==
  ASSUME AckInv, [Next]_vars, NEW w \in Worker, NEW t, Set(w, t),
         t.pc \in {"idle", "update", "refuse"},
         t.caller # None =>
           /\ t.pc # "idle" /\ tasks[t.caller].pc = "await"
           /\ tasks[t.caller].head = t.chain
           /\ Nearest(tasks[t.caller].todo) = Home[w],
         \A r \in replies' \ replies :
           /\ r.to \in Client /\ tasks[r.to].pc = "await"
           /\ r.ok => Extends(heads'[Nearest(tasks[r.to].todo)], tasks[r.to].head)
  PROVE  AckInv'
<1>1. /\ TypeOK' /\ heads' \in [Node -> History]
      /\ \A n \in Node : Extends(heads'[n], heads[n])
  BY TypeStep, HeadsGrow DEF AckInv, TypeOK
<1>2. w \in Task /\ tasks' = [tasks EXCEPT ![w] = t] /\ tasks \in [Task -> TaskType]
  BY KindsOfTask DEF Set, AckInv, TypeOK
<1>3. t \in TaskType /\ \A c \in Client : tasks'[c] = tasks[c]
  BY <1>1, <1>2, KindsOfTask DEF TypeOK
<1>4. \A c \in Client : ClientGood(c, tasks'[c], heads')
  BY <1>1, <1>3, OthersKeepGood
<1>5. ASSUME NEW v \in Worker
      PROVE  WorkerGood(v)'
  <2>1. v \in Task /\ tasks[v].caller \in Client \cup {None} /\ WorkerGood(v)
        /\ t.caller \in Client \cup {None}
    BY <1>3, KindsOfTask, TaskFields DEF AckInv, TaskType
  <2>2. CASE v = w
    BY <1>2, <1>3, <2>1, <2>2 DEF WorkerGood
  <2>3. CASE v # w
    BY <1>2, <1>3, <2>1, <2>3 DEF WorkerGood
  <2> QED
    BY <2>2, <2>3
<1>6. ASSUME NEW r \in replies'
      PROVE  ReplyGood(r)'
  <2>1. CASE r \in replies
    <3>1. r.to \in Client
      BY <2>1 DEF AckInv, TypeOK
    <3> QED
      BY <1>1, <1>3, <2>1, <3>1, OthersKeepGood DEF ReplyGood
  <2>2. CASE r \notin replies
    BY <1>3, <2>2 DEF ReplyGood
  <2> QED
    BY <2>1, <2>2
<1> QED
  BY <1>1, <1>4, <1>5, <1>6 DEF AckInv

\* A call ends: nobody answers it any more.
LEMMA EndCallGood ==
  ASSUME AckInv, [Next]_vars, NEW c \in Client, NEW t, EndCall(c, t),
         ClientGood(c, t, heads), heads' = heads
  PROVE  AckInv'
<1>1. TypeOK' /\ tasks \in [Task -> TaskType] /\ c \in Task
  BY TypeStep, KindsOfTask DEF AckInv, TypeOK
<1>2. /\ tasks' = [x \in Task |->
                     IF x = c THEN t
                     ELSE IF tasks[x].caller = c THEN [tasks[x] EXCEPT !.caller = None]
                     ELSE tasks[x]]
      /\ replies' = {r \in replies : r.to # c}
  BY DEF EndCall
<1>3. ASSUME NEW d \in Client
      PROVE  /\ d # c => tasks'[d] = tasks[d]
             /\ ClientGood(d, tasks'[d], heads')
  <2>1. d \in Task /\ c # None /\ ClientGood(d, tasks[d], heads)
    BY KindsOfTask DEF AckInv
  <2>2. tasks[d].caller # c
    BY <2>1 DEF ClientGood
  <2> QED
    BY <1>2, <2>1, <2>2
<1>4. ASSUME NEW w \in Worker
      PROVE  WorkerGood(w)'
  <2>1. w \in Task /\ w # c /\ tasks[w] \in TaskType /\ WorkerGood(w)
        /\ tasks[w].caller \in Client \cup {None}
    BY <1>1, KindsOfTask DEF AckInv, TaskType
  <2>2. CASE tasks[w].caller = c
    <3>1. tasks'[w] = [tasks[w] EXCEPT !.caller = None]
      BY <1>2, <2>1, <2>2
    <3>2. tasks'[w].pc = tasks[w].pc /\ tasks'[w].caller = None
      BY <2>1, <3>1 DEF TaskType
    <3> QED
      BY <2>1, <3>2 DEF WorkerGood
  <2>3. CASE tasks[w].caller # c
    BY <1>2, <1>3, <2>1, <2>3 DEF WorkerGood
  <2> QED
    BY <2>2, <2>3
<1>5. ASSUME NEW r \in replies'
      PROVE  ReplyGood(r)'
  <2>1. r \in replies /\ r.to \in Client /\ r.to # c /\ ReplyGood(r)
    BY <1>2 DEF AckInv, TypeOK
  <2> QED
    BY <1>3, <2>1 DEF ReplyGood
<1> QED
  BY <1>1, <1>3, <1>4, <1>5 DEF AckInv

\* A step that changes neither the tasks nor what is under way.
LEMMA RestGood ==
  ASSUME AckInv, [Next]_vars, UNCHANGED <<heads, tasks, replies>>
  PROVE  AckInv'
<1>1. TypeOK'
  BY TypeStep DEF AckInv
<1> QED
  BY <1>1 DEF AckInv, WorkerGood, ReplyGood

\* accept returns to a client.
LEMMA AfterAcceptGood ==
  ASSUME NEW c \in Client, NEW t \in TaskType, NEW H, NEW ok \in BOOLEAN,
         ClientGood(c, t, H), t.pc \in Walking,
         t.pc = "self" /\ ok => Extends(H[Home[c]], t.head)
  PROVE  ClientGood(c, AfterAccept(t, ok), H)
<1>1. t.pc \in {"newest", "self", "catchup"}
  BY DEF ClientGood, Walking
<1>2. CASE t.pc = "newest"
  <2> DEFINE built == [IdleTask EXCEPT !.op = "publish", !.pc = "build", !.head = t.chain]
  <2>1. AfterAccept(t, ok) \in {built, IdleTask}
    BY <1>2 DEF AfterAccept
  <2>2. /\ built.pc = "build" /\ built.targets = {} /\ built.todo = {}
        /\ built.caller = None
    BY DEF IdleTask
  <2> HIDE DEF built
  <2> QED
    BY <2>1, <2>2, IdleGood, IdleTaskGood
<1>3. CASE t.pc = "self"
  <2>1. AfterAccept(t, ok) = Sent(t, ok) /\ Nearest(t.todo) = Home[c]
    BY <1>3 DEF AfterAccept, ClientGood
  <2> QED
    BY <1>3, <2>1, SentGood DEF AtTarget
<1>4. CASE t.pc = "catchup"
  <2>1. AfterAccept(t, ok) = Sent(t, FALSE)
    BY <1>4 DEF AfterAccept
  <2> QED
    BY <1>4, <2>1, SentGood DEF AtTarget
<1> QED
  BY <1>1, <1>2, <1>3, <1>4

LEMMA ClientWalkGood ==
  ASSUME AckInv, [Next]_vars, NEW c \in Client, Accept(c) \/ Reject(c)
  PROVE  AckInv'
<1> DEFINE t == tasks[c]
<1>1. /\ c \in Task /\ t \in TaskType /\ t.pc \in Walking
      /\ ClientGood(c, t, heads) /\ t.pc # "update"
      /\ heads \in [Node -> History] /\ Home[c] \in Node /\ t.head \in History
  BY KindsOfTask, TaskFields DEF AckInv, TypeOK, Accept, Reject, ClientGood
<1>2. heads' \in [Node -> History] /\ \A n \in Node : Extends(heads'[n], heads[n])
  BY TypeStep, HeadsGrow DEF AckInv, TypeOK
<1>3. ClientGood(c, t, heads') /\ t.pc # "await"
  BY <1>1, <1>2, OthersKeepGood DEF Walking
<1>4. CASE Accept(c)
  <2>1. Set(c, AfterAccept(t, TRUE)) /\ replies' = replies
    BY <1>1, <1>4 DEF Accept
  <2>2. t.pc = "self" => Extends(heads'[Home[c]], t.head)
    BY <1>1, <1>4, ExtendsOrder DEF Accept, ClientGood
  <2>3. ClientGood(c, AfterAccept(t, TRUE), heads')
    BY <1>1, <1>3, <2>2, AfterAcceptGood
  <2> QED
    BY <1>3, <2>1, <2>3, ClientMoves
<1>5. CASE Reject(c)
  <2>1. Set(c, AfterAccept(t, FALSE)) /\ replies' = replies
    BY <1>5 DEF Reject
  <2>2. ClientGood(c, AfterAccept(t, FALSE), heads')
    BY <1>1, <1>3, AfterAcceptGood
  <2> QED
    BY <1>3, <2>1, <2>2, ClientMoves
<1> QED
  BY <1>4, <1>5

LEMMA WorkerWalkGood ==
  ASSUME AckInv, [Next]_vars, NEW w \in Worker, Accept(w) \/ Reject(w)
  PROVE  AckInv'
<1> DEFINE t == tasks[w]
<1>1. /\ w \in Task /\ t \in TaskType /\ t.pc = "update" /\ WorkerGood(w)
      /\ heads \in [Node -> History] /\ Home[w] \in Node /\ t.chain \in History
      /\ t.caller \in Client \cup {None}
  BY KindsOfTask, TaskFields DEF AckInv, TypeOK, Accept, Reject, WorkerGood, Walking
<1>2. CASE Accept(w)
  <2>1. Set(w, IdleTask)
    BY <1>1, <1>2 DEF Accept, AfterAccept
  <2>2. IdleTask.pc = "idle" /\ IdleTask.caller = None
    BY DEF IdleTask
  <2>3. ASSUME NEW r \in replies' \ replies
        PROVE  /\ r.to \in Client /\ tasks[r.to].pc = "await"
               /\ Extends(heads'[Nearest(tasks[r.to].todo)], tasks[r.to].head)
    <3>1. t.caller # None /\ r.to = t.caller
      BY <1>1, <1>2 DEF Accept
    <3>2. /\ tasks[r.to].pc = "await" /\ tasks[r.to].head = t.chain
          /\ Nearest(tasks[r.to].todo) = Home[w]
      BY <1>1, <3>1 DEF WorkerGood
    <3>3. heads'[Home[w]] = t.chain
      BY <1>1, <1>2 DEF Accept
    <3> QED
      BY <1>1, <3>1, <3>2, <3>3, ExtendsOrder
  <2> QED
    BY <2>1, <2>2, <2>3, WorkerMoves
<1>3. CASE Reject(w)
  <2> DEFINE u == [t EXCEPT !.pc = "refuse"]
  <2>1. Set(w, u) /\ replies' = replies
    BY <1>1, <1>3 DEF Reject, AfterAccept
  <2>2. u.pc = "refuse" /\ u.caller = t.caller /\ u.chain = t.chain
    BY <1>1 DEF TaskType
  <2> HIDE DEF u
  <2>3. u.caller # None =>
          /\ tasks[u.caller].pc = "await" /\ tasks[u.caller].head = u.chain
          /\ Nearest(tasks[u.caller].todo) = Home[w]
    BY <1>1, <2>2 DEF WorkerGood
  <2> QED
    BY <2>1, <2>2, <2>3, WorkerMoves
<1> QED
  BY <1>2, <1>3

LEMMA LatestGood ==
  ASSUME AckInv, [Next]_vars, NEW c \in Client,
         (\E op \in {"latest", "publish"} : StartLatest(c, op)) \/ Ask(c) \/ Choose(c)
  PROVE  AckInv'
<1> DEFINE t == tasks[c]
<1>1. t \in TaskType /\ ClientGood(c, t, heads)
  BY KindsOfTask, TaskFields DEF AckInv
<1>2. t.pc \in {"idle", "ask"} /\ replies' = replies
  BY DEF StartLatest, Ask, Choose
<1>3. t.targets = {} /\ t.todo = {} /\ t.caller = None
  BY <1>1, <1>2 DEF ClientGood, Distributing
<1>4. \E u : Set(c, u) /\ ClientGood(c, u, heads')
  <2>1. ASSUME NEW op \in {"latest", "publish"}, StartLatest(c, op)
        PROVE  \E u : Set(c, u) /\ ClientGood(c, u, heads')
    <3> DEFINE u(P) == [IdleTask EXCEPT !.op = op, !.pc = "ask", !.unasked = P,
                          !.found = {heads[Home[c]]} \ {<< >>}]
    <3>1. PICK P \in Lookups(Home[c]) : Set(c, u(P))
      BY <2>1 DEF StartLatest
    <3>2. /\ u(P).pc = "ask" /\ u(P).targets = {} /\ u(P).todo = {}
          /\ u(P).caller = None
      BY DEF IdleTask
    <3> HIDE DEF u
    <3> QED
      BY <3>1, <3>2, IdleGood
  <2>2. CASE Ask(c)
    <3> DEFINE m == Nearest(t.unasked)
               asked == [t EXCEPT !.unasked = t.unasked \ {m}]
               more == [asked EXCEPT !.found = t.found \cup ({heads[m]} \ {<< >>})]
               less == [asked EXCEPT !.failed = TRUE]
    <3>1. Set(c, more) \/ Set(c, less)
      BY <2>2 DEF Ask
    <3>2. /\ more.pc = t.pc /\ more.targets = {} /\ more.todo = {} /\ more.caller = None
          /\ less.pc = t.pc /\ less.targets = {} /\ less.todo = {} /\ less.caller = None
      BY <1>1, <1>3 DEF TaskType
    <3> HIDE DEF more, less
    <3>3. ClientGood(c, more, heads') /\ ClientGood(c, less, heads')
      BY <1>2, <3>2, IdleGood
    <3> QED
      BY <3>1, <3>3
  <2>3. CASE Choose(c)
    <3> DEFINE built == [IdleTask EXCEPT !.op = "publish", !.pc = "build"]
    <3>1. \/ Set(c, built) \/ Set(c, IdleTask)
          \/ \E h \in t.found : Set(c, Walk(t, "newest", h))
      BY <2>3 DEF Choose
    <3>2. /\ built.pc = "build" /\ built.targets = {} /\ built.todo = {}
          /\ built.caller = None
      BY DEF IdleTask
    <3>3. ASSUME NEW h
          PROVE  ClientGood(c, Walk(t, "newest", h), heads')
      <4>1. /\ Walk(t, "newest", h).pc = "newest" /\ Walk(t, "newest", h).targets = {}
            /\ Walk(t, "newest", h).todo = {} /\ Walk(t, "newest", h).caller = None
        BY <1>1, <1>3 DEF Walk, TaskType
      <4> QED
        BY <4>1, IdleGood
    <3> HIDE DEF built
    <3> QED
      BY <3>1, <3>2, <3>3, IdleGood, IdleTaskGood
  <2> QED
    BY <2>1, <2>2, <2>3
<1> QED
  BY <1>2, <1>4, ClientMoves

LEMMA DistributionGood ==
  ASSUME AckInv, [Next]_vars, NEW c \in Client,
         \/ Publish(c) \/ PublishFails(c) \/ Replicate(c)
         \/ (\E m \in Node : Handoff(c, m)) \/ Send(c) \/ Finish(c)
  PROVE  AckInv'
<1> DEFINE t == tasks[c]
<1>1. /\ t \in TaskType /\ Home[c] \in Node /\ ClientGood(c, t, heads) /\ TypeOK
      /\ heads[Home[c]] \in History /\ t.caller = None /\ c \in Task
      /\ t.todo \in SUBSET Node
  BY KindsOfTask, TaskFields DEF AckInv, TypeOK, ClientGood
<1>2. t.pc # "await" /\ heads' = heads /\ replies' = replies
  BY DEF Publish, PublishFails, Replicate, Handoff, Send, Finish
<1>3. ClientGood(c, IdleTask, heads)
  BY IdleTaskGood
<1>4. [IdleTask EXCEPT !.op = "distribute"] \in TaskType
      /\ [IdleTask EXCEPT !.op = "distribute"].caller = None
  BY IdleType DEF TaskType, IdleTask
<1>5. \E u : Set(c, u) /\ ClientGood(c, u, heads)
  <2>1. CASE Publish(c)
    <3>1. PICK new \in History :
            \/ Set(c, IdleTask)
            \/ \E P \in Lookups(Home[c]) :
                 Set(c, Distribute(t, new, Closest(P \cup {Home[c]})))
      BY <1>1, <2>1, PublishStep
    <3> QED
      BY <1>1, <1>3, <3>1, LookupsType, DistributeGood
  <2>2. CASE PublishFails(c) \/ Finish(c)
    BY <1>3, <2>2 DEF PublishFails, Finish
  <2>3. CASE Replicate(c)
    BY <1>1, <1>4, <2>3, LookupsType, DistributeGood DEF Replicate
  <2>4. ASSUME NEW m \in Node, Handoff(c, m)
        PROVE  \E u : Set(c, u) /\ ClientGood(c, u, heads)
    BY <1>1, <1>4, <2>4, DistributeGood DEF Handoff
  <2>5. CASE Send(c)
    <3> DEFINE m == Nearest(t.todo)
               here == Walk(t, "self", t.head)
               there == [t EXCEPT !.pc = "await"]
    <3>1. t.pc = "send" /\ t.todo # {} /\ ((m = Home[c] /\ Set(c, here)) \/ Set(c, there))
      BY <2>5 DEF Send
    <3>2. /\ here.pc = "self" /\ here.chain = t.head /\ here.head = t.head
          /\ here.targets = t.targets /\ here.todo = t.todo
          /\ here.failed = t.failed /\ here.caller = t.caller
          /\ there.pc = "await" /\ there.head = t.head
          /\ there.targets = t.targets /\ there.todo = t.todo
          /\ there.failed = t.failed /\ there.caller = t.caller
      BY <1>1 DEF TaskType, Walk
    <3> HIDE DEF here, there
    <3>3. m = Home[c] => ClientGood(c, here, heads)
      BY <1>1, <3>1, <3>2 DEF ClientGood, Distributing, AtTarget
    <3>4. ClientGood(c, there, heads)
      BY <1>1, <3>1, <3>2 DEF ClientGood, Distributing, AtTarget
    <3> QED
      BY <3>1, <3>3, <3>4
  <2> QED
    BY <2>1, <2>2, <2>3, <2>4, <2>5
<1> QED
  BY <1>2, <1>5, ClientMoves

LEMMA AnswerGood ==
  ASSUME AckInv, [Next]_vars, NEW c \in Client, TakeReply(c) \/ CallFails(c)
  PROVE  AckInv'
<1> DEFINE t == tasks[c]
<1>1. /\ t \in TaskType /\ ClientGood(c, t, heads) /\ t.pc = "await" /\ heads' = heads
  BY KindsOfTask, TaskFields DEF AckInv, TakeReply, CallFails
<1>2. ClientGood(c, Sent(t, FALSE), heads)
  BY <1>1, SentGood DEF AtTarget
<1>3. CASE TakeReply(c)
  <2>1. PICK r \in replies :
          /\ r.to = c
          /\ EndCall(c, IF ~r.ok /\ VersionOf(r.head) > VersionOf(t.head)
                          THEN Walk(t, "catchup", r.head) ELSE Sent(t, r.ok))
    BY <1>3 DEF TakeReply
  <2>2. r.ok \in BOOLEAN /\ (r.ok => Extends(heads[Nearest(t.todo)], t.head))
    BY <2>1 DEF AckInv, TypeOK, ReplyGood
  <2>3. ClientGood(c, Sent(t, r.ok), heads)
    BY <1>1, <2>2, SentGood DEF AtTarget
  <2>4. ClientGood(c, Walk(t, "catchup", r.head), heads)
    <3> DEFINE u == Walk(t, "catchup", r.head)
    <3>1. /\ u.pc = "catchup" /\ u.head = t.head /\ u.targets = t.targets
          /\ u.todo = t.todo /\ u.failed = t.failed /\ u.caller = t.caller
      BY <1>1 DEF TaskType, Walk
    <3> HIDE DEF u
    <3>2. ClientGood(c, u, heads)
      BY <1>1, <3>1 DEF ClientGood, Distributing, AtTarget
    <3> QED
      BY <3>2 DEF u
  <2> QED
    BY <1>1, <2>1, <2>3, <2>4, EndCallGood
<1>4. CASE CallFails(c)
  BY <1>1, <1>2, <1>4, EndCallGood DEF CallFails
<1> QED
  BY <1>3, <1>4

LEMMA WorkerStepGood ==
  ASSUME AckInv, [Next]_vars, NEW w \in Worker, WorkerStep(w)
  PROVE  AckInv'
<1>1. CASE Receive(w)
  <2>1. PICK u \in updates : \E c \in Callers(u) \cup {None} :
          /\ u.to = Home[w]
          /\ Set(w, Walk([IdleTask EXCEPT !.op = "update", !.caller = c],
                         "update", u.head))
    BY <1>1 DEF Receive
  <2>2. PICK c \in Callers(u) \cup {None} :
          Set(w, Walk([IdleTask EXCEPT !.op = "update", !.caller = c], "update", u.head))
    BY <2>1
  <2> DEFINE t == Walk([IdleTask EXCEPT !.op = "update", !.caller = c], "update", u.head)
  <2>3. t.pc = "update" /\ t.caller = c /\ t.chain = u.head
    BY DEF Walk, IdleTask
  <2> HIDE DEF t
  <2>4. t.caller # None =>
          /\ tasks[t.caller].pc = "await" /\ tasks[t.caller].head = t.chain
          /\ Nearest(tasks[t.caller].todo) = Home[w]
    BY <2>1, <2>3 DEF Callers
  <2>5. Set(w, t) /\ replies' = replies
    BY <1>1, <2>2 DEF Receive, t
  <2> QED
    BY <2>3, <2>4, <2>5, WorkerMoves
<1>2. CASE Refuse(w)
  <2>1. Set(w, IdleTask) /\ IdleTask.pc = "idle" /\ IdleTask.caller = None
    BY <1>2 DEF Refuse, IdleTask
  <2>2. ASSUME NEW r \in replies' \ replies
        PROVE  r.to \in Client /\ tasks[r.to].pc = "await" /\ ~r.ok
    <3>1. tasks[w].caller # None /\ r.to = tasks[w].caller /\ r.ok = FALSE
      BY <1>2 DEF Refuse
    <3>2. WorkerGood(w) /\ tasks[w].caller \in Client \cup {None}
      BY KindsOfTask, TaskFields DEF AckInv
    <3> QED
      BY <3>1, <3>2 DEF WorkerGood
  <2> QED
    BY <2>1, <2>2, WorkerMoves
<1> QED
  BY <1>1, <1>2 DEF WorkerStep

LEMMA AckStep == AckInv /\ [Next]_vars => AckInv'
<1> SUFFICES ASSUME AckInv, [Next]_vars PROVE AckInv'
  OBVIOUS
<1>1. ASSUME NEW x \in Task, Walker(x) PROVE AckInv'
  <2>1. CASE Fetch(x)
    BY <2>1, RestGood DEF Fetch
  <2>2. CASE Accept(x) \/ Reject(x)
    BY <2>2, ClientWalkGood, WorkerWalkGood DEF Task
  <2> QED
    BY <1>1, <2>1, <2>2 DEF Walker
<1>2. ASSUME NEW c \in Client, ClientStep(c) PROVE AckInv'
  BY <1>2, LatestGood, DistributionGood, AnswerGood DEF ClientStep
<1>3. ASSUME NEW w \in Worker, WorkerStep(w) PROVE AckInv'
  BY <1>3, WorkerStepGood
<1>4. ASSUME NEW m \in Node, NEW n \in Node, CopyRecord(m, n) PROVE AckInv'
  BY <1>4, RestGood DEF CopyRecord
<1>5. CASE UNCHANGED vars
  BY <1>5, RestGood DEF vars
<1> QED
  BY <1>1, <1>2, <1>3, <1>4, <1>5 DEF Next

LEMMA AckInit == Init => AckInv
<1> SUFFICES ASSUME Init PROVE AckInv
  OBVIOUS
<1>1. \A x \in Task : tasks[x] = IdleTask
  BY DEF Init
<1>2. \A c \in Client : ClientGood(c, tasks[c], heads)
  BY <1>1, KindsOfTask, IdleTaskGood
<1>3. \A w \in Worker : WorkerGood(w)
  BY <1>1, KindsOfTask DEF WorkerGood, IdleTask
<1> QED
  BY <1>2, <1>3, TypeInit DEF AckInv, Init

LEMMA AckInvariant == Spec => []AckInv
<1> QED
  BY AckInit, AckStep, PTL DEF Spec

\* A publication, a replication or a hand-off that reports no error has its head
\* on every target, or a later one, although packets are lost, repeated and late
\* and other heads come in between (registry_rpc.go, distribute).
THEOREM AcknowledgmentsHold == Spec => []AcknowledgedHold
<1>1. AckInv => AcknowledgedHold
  BY DEF AckInv, ClientGood, AcknowledgedHold
<1> QED
  BY <1>1, AckInvariant, PTL

-----------------------------------------------------------------------------
(* A sole owner never forks its package.                                   *)

\* One goroutine publishes, without Force; nothing is cancelled; and the network
\* fits in K.
SoleOwner(o) ==
  /\ \A c \in Client \ {o} : "publish" \notin Operations[c]
  /\ ~Forces /\ ~Cancels
  /\ IsFiniteSet(Node) /\ Cardinality(Node) =< K

\* A task that distributes a version that it has published.
Publishes(t) == t.op = "publish" /\ t.pc \in Distributing

\* The newest history of the package, when the owner's task is t and H are the
\* heads: what the owner distributes, or has.
Newest(o, t, H) == IF Publishes(t) THEN t.head ELSE H[Home[o]]

Frontier(o) == Newest(o, tasks[o], heads)

\* F extends every history that a task works with, and all that is under way.
TaskWithin(F, t) ==
  Extends(F, t.chain) /\ Extends(F, t.head) /\ \A h \in t.found : Extends(F, h)

Within(F) ==
  /\ \A n \in Node : Extends(F, heads[n])
  /\ \A x \in Task : TaskWithin(F, tasks[x])
  /\ \A u \in updates : Extends(F, u.head)
  /\ \A r \in replies : Extends(F, r.head)

\* The owner, with task t when H are the heads and S the stores, publishes on top
\* of its own head, holds what it distributes, and takes it for its own head when
\* its turn among the targets comes.
OwnerGood(o, t, H, S) ==
  /\ t.pc = "ask" => t.found # {} \/ H[Home[o]] = << >>
  /\ t.pc = "build" => t.head = H[Home[o]]
  /\ Publishes(t) =>
       /\ Home[o] \in t.todo \/ H[Home[o]] = t.head
       /\ t.pc \in {"await", "catchup"} => Nearest(t.todo) # Home[o]
       /\ \A k \in 1 .. Len(t.head) :
            RecordOf(t.head, k) \in S[Home[o]] /\ Good(t.head, k)

\* Only the owner publishes.
OnlyOwner(o, x, t) ==
  /\ t.op = "publish" => x = o
  /\ t.pc = "build" => t.op = "publish"

SoleInv(o) ==
  /\ AckInv /\ HeadsHoldHistory
  /\ \A x \in Task : OnlyOwner(o, x, tasks[x])
  /\ Within(Frontier(o))
  /\ OwnerGood(o, tasks[o], heads, store)

\* Any set of the nodes fits in K: all of it is closest.
LEMMA AllAreClosest ==
  ASSUME NEW o, SoleOwner(o), NEW S \in SUBSET Node
  PROVE  Closest(S) = S
<1> SUFFICES ASSUME NEW m \in S
             PROVE  Cardinality({x \in S : Rank[x] < Rank[m]}) < K
  BY DEF Closest
<1> DEFINE T == {x \in S : Rank[x] < Rank[m]}
<1>1. Rank[m] \in Nat
  BY RankAssumption
<1>2. T \in SUBSET Node /\ T # Node
  BY <1>1
<1>3. IsFiniteSet(Node) /\ Cardinality(Node) =< K /\ Cardinality(Node) \in Nat /\ K \in Nat
  BY FS_CardinalityType, RegistryKAssumption DEF SoleOwner
<1> HIDE DEF T
<1>4. Cardinality(T) \in Nat /\ Cardinality(T) =< Cardinality(Node)
  BY <1>2, <1>3, FS_Subset, FS_CardinalityType
<1>5. Cardinality(T) # Cardinality(Node)
  BY <1>2, <1>3, FS_Subset
<1> QED
  BY <1>3, <1>4, <1>5 DEF T

\* A record that is stored is stored on its publisher too.
LEMMA PublisherStores ==
  ASSUME NEW o, SoleOwner(o), NEW n \in Node, NEW S \in Placements(n)
  PROVE  n \in S
<1>1. S \in SUBSET Node /\ (Cardinality(S) = K \/ n \in S)
  BY DEF Placements
<1>2. CASE Cardinality(S) = K
  <2>1. IsFiniteSet(Node) /\ Cardinality(Node) =< K /\ Cardinality(Node) \in Nat /\ K \in Nat
    BY FS_CardinalityType, RegistryKAssumption DEF SoleOwner
  <2>2. Cardinality(S) =< Cardinality(Node)
    BY <1>1, <2>1, FS_Subset
  <2>3. S = Node
    BY <1>1, <1>2, <2>1, <2>2, FS_Subset
  <2> QED
    BY <2>3
<1> QED
  BY <1>1, <1>2

LEMMA FrontierType ==
  ASSUME TypeOK, NEW o \in Client
  PROVE  Frontier(o) \in History /\ heads[Home[o]] \in History /\ Home[o] \in Node
BY TaskFields, KindsOfTask DEF Frontier, Newest, TypeOK

\* Nothing is accepted in the place of the newest history.
LEMMA NewestStays ==
  ASSUME TypeOK, [Next]_vars, NEW F \in History, Within(F), NEW n \in Node, heads[n] = F
  PROVE  heads'[n] = F
<1>1. ASSUME NEW x \in Task, Accept(x)
      PROVE  heads'[n] = F
  <2> DEFINE h == tasks[x].chain
  <2>1. /\ Home[x] \in Node /\ h \in History /\ heads \in [Node -> History]
        /\ heads' = [heads EXCEPT ![Home[x]] = h] /\ Acceptable(heads[Home[x]], h)
    BY <1>1, AcceptStep DEF TypeOK
  <2>2. CASE Home[x] = n
    <3>1. Acceptable(F, h) /\ Extends(F, h)
      BY <2>1, <2>2 DEF Within, TaskWithin
    <3>2. h = F
      BY <2>1, <3>1, ExtendsOrder DEF Acceptable
    <3> QED
      BY <2>1, <2>2, <3>2
  <2>3. CASE Home[x] # n
    BY <2>1, <2>3
  <2> QED
    BY <2>2, <2>3
<1> QED
  BY <1>1, OnlyAcceptCommits

-----------------------------------------------------------------------------
(* What is under way comes from what was, unless it is published.          *)

LEMMA EmptyWithin ==
  ASSUME NEW F \in History
  PROVE  TaskWithin(F, IdleTask) /\ Extends(F, << >>)
<1>1. IdleTask.chain = << >> /\ IdleTask.head = << >> /\ IdleTask.found = {}
  BY DEF IdleTask
<1> QED
  BY <1>1, ExtendsOrder DEF TaskWithin

LEMMA WalkWithin ==
  ASSUME NEW F \in History, NEW t \in TaskType, TaskWithin(F, t),
         NEW pc, NEW h, Extends(F, h)
  PROVE  TaskWithin(F, Walk(t, pc, h))
BY DEF Walk, TaskWithin, TaskType

LEMMA SentWithin ==
  ASSUME NEW F \in History, NEW t \in TaskType, TaskWithin(F, t), NEW ok \in BOOLEAN
  PROVE  TaskWithin(F, Sent(t, ok))
<1>1. Sent(t, ok).chain = << >> /\ Sent(t, ok).head = t.head /\ Sent(t, ok).found = t.found
  BY DEF Sent, TaskType
<1> QED
  BY <1>1, EmptyWithin DEF TaskWithin

LEMMA DistributeWithin ==
  ASSUME NEW F \in History, NEW t \in TaskType, TaskWithin(F, t),
         NEW h, Extends(F, h), NEW targets
  PROVE  TaskWithin(F, Distribute(t, h, targets))
<1>1. /\ Distribute(t, h, targets).chain = t.chain
      /\ Distribute(t, h, targets).head = h /\ Distribute(t, h, targets).found = t.found
  BY DEF Distribute, TaskType
<1> QED
  BY <1>1 DEF TaskWithin

LEMMA AfterAcceptWithin ==
  ASSUME NEW F \in History, NEW t \in TaskType, TaskWithin(F, t), NEW ok \in BOOLEAN
  PROVE  TaskWithin(F, AfterAccept(t, ok))
<1> DEFINE built == [IdleTask EXCEPT !.op = "publish", !.pc = "build", !.head = t.chain]
           refusing == [t EXCEPT !.pc = "refuse"]
<1>1. AfterAccept(t, ok) \in {built, refusing, IdleTask, Sent(t, ok), Sent(t, FALSE)}
  BY DEF AfterAccept
<1>2. /\ built.chain = << >> /\ built.head = t.chain /\ built.found = {}
      /\ refusing.chain = t.chain /\ refusing.head = t.head /\ refusing.found = t.found
  BY DEF IdleTask, TaskType
<1> HIDE DEF built, refusing
<1>3. TaskWithin(F, built) /\ TaskWithin(F, refusing)
  BY <1>2, EmptyWithin DEF TaskWithin
<1> QED
  BY <1>1, <1>3, EmptyWithin, SentWithin

\* One task moves, and nothing else does.
LEMMA SetWithin ==
  ASSUME TypeOK, NEW F \in History, Within(F), NEW x \in Task, NEW t,
         Set(x, t), TaskWithin(F, t),
         \A n \in Node : Extends(F, heads'[n]),
         \A u \in updates' : Extends(F, u.head),
         \A r \in replies' : Extends(F, r.head)
  PROVE  Within(F)'
<1>1. tasks' = [tasks EXCEPT ![x] = t] /\ tasks \in [Task -> TaskType]
  BY DEF Set, TypeOK
<1>2. \A y \in Task : TaskWithin(F, tasks'[y])
  BY <1>1 DEF Within
<1> QED
  BY <1>2 DEF Within

LEMMA WalkerKeepsWithin ==
  ASSUME TypeOK, NEW F \in History, Within(F), NEW x \in Task, Walker(x)
  PROVE  Within(F)'
<1>1. /\ tasks[x] \in TaskType /\ TaskWithin(F, tasks[x]) /\ Extends(F, tasks[x].chain)
      /\ Home[x] \in Node /\ heads \in [Node -> History]
  BY TaskFields DEF TypeOK, Within, TaskWithin
<1>2. CASE Fetch(x)
  BY <1>2 DEF Fetch, Within
<1>3. CASE Accept(x)
  <2>1. Set(x, AfterAccept(tasks[x], TRUE)) /\ TaskWithin(F, AfterAccept(tasks[x], TRUE))
    BY <1>1, <1>3, AfterAcceptWithin DEF Accept
  <2>2. \A n \in Node : Extends(F, heads'[n])
    BY <1>1, <1>3 DEF Accept, Within
  <2>3. \A r \in replies' : Extends(F, r.head)
    BY <1>1, <1>3 DEF Accept, Within
  <2>4. \A u \in updates' : Extends(F, u.head)
    BY <1>3 DEF Accept, Within
  <2> QED
    BY <2>1, <2>2, <2>3, <2>4, SetWithin
<1>4. CASE Reject(x)
  <2>1. Set(x, AfterAccept(tasks[x], FALSE)) /\ TaskWithin(F, AfterAccept(tasks[x], FALSE))
    BY <1>1, <1>4, AfterAcceptWithin DEF Reject
  <2> QED
    BY <1>4, <2>1, SetWithin DEF Reject, Within
<1> QED
  BY <1>2, <1>3, <1>4 DEF Walker

LEMMA LatestKeepsWithin ==
  ASSUME TypeOK, NEW F \in History, Within(F), NEW c \in Client,
         (\E op \in {"latest", "publish"} : StartLatest(c, op)) \/ Ask(c) \/ Choose(c)
  PROVE  Within(F)'
<1> DEFINE t == tasks[c]
<1>1. /\ c \in Task /\ t \in TaskType /\ TaskWithin(F, t) /\ Home[c] \in Node
      /\ t.unasked \in SUBSET Node
  BY KindsOfTask, TaskFields DEF Within
<1>2. UNCHANGED <<heads, updates, replies>>
  BY DEF StartLatest, Ask, Choose
<1>3. \E u : Set(c, u) /\ TaskWithin(F, u)
  <2>1. ASSUME NEW op \in {"latest", "publish"}, StartLatest(c, op)
        PROVE  \E u : Set(c, u) /\ TaskWithin(F, u)
    <3> DEFINE u(P) == [IdleTask EXCEPT !.op = op, !.pc = "ask", !.unasked = P,
                          !.found = {heads[Home[c]]} \ {<< >>}]
    <3>1. PICK P \in Lookups(Home[c]) : Set(c, u(P))
      BY <2>1 DEF StartLatest
    <3>2. /\ u(P).chain = << >> /\ u(P).head = << >>
          /\ u(P).found \subseteq {heads[Home[c]]}
      BY DEF IdleTask
    <3> HIDE DEF u
    <3>3. TaskWithin(F, u(P))
      BY <1>1, <3>2, EmptyWithin DEF TaskWithin, Within
    <3> QED
      BY <3>1, <3>3
  <2>2. CASE Ask(c)
    <3> DEFINE m == Nearest(t.unasked)
               asked == [t EXCEPT !.unasked = t.unasked \ {m}]
               more == [asked EXCEPT !.found = t.found \cup ({heads[m]} \ {<< >>})]
               less == [asked EXCEPT !.failed = TRUE]
    <3>1. (Set(c, more) \/ Set(c, less)) /\ m \in Node
      BY <1>1, <2>2, NearestMember DEF Ask
    <3>2. /\ more.chain = t.chain /\ more.head = t.head
          /\ more.found \subseteq t.found \cup {heads[m]}
          /\ less.chain = t.chain /\ less.head = t.head /\ less.found = t.found
      BY <1>1 DEF TaskType
    <3> HIDE DEF more, less, m
    <3>3. TaskWithin(F, more) /\ TaskWithin(F, less)
      BY <1>1, <3>1, <3>2 DEF TaskWithin, Within
    <3> QED
      BY <3>1, <3>3
  <2>3. CASE Choose(c)
    <3> DEFINE built == [IdleTask EXCEPT !.op = "publish", !.pc = "build"]
    <3>1. \/ Set(c, built) \/ Set(c, IdleTask)
          \/ \E h \in t.found : Set(c, Walk(t, "newest", h))
      BY <2>3 DEF Choose
    <3>2. built.chain = << >> /\ built.head = << >> /\ built.found = {}
      BY DEF IdleTask
    <3> HIDE DEF built
    <3>3. TaskWithin(F, built)
      BY <3>2, EmptyWithin DEF TaskWithin
    <3>4. \A h \in t.found : TaskWithin(F, Walk(t, "newest", h))
      BY <1>1, WalkWithin DEF TaskWithin
    <3> QED
      BY <3>1, <3>3, <3>4, EmptyWithin
  <2> QED
    BY <2>1, <2>2, <2>3
<1> QED
  BY <1>1, <1>2, <1>3, SetWithin DEF Within

LEMMA DistributionKeepsWithin ==
  ASSUME TypeOK, NEW F \in History, Within(F), NEW c \in Client,
         \/ PublishFails(c) \/ Replicate(c) \/ (\E m \in Node : Handoff(c, m))
         \/ Send(c) \/ Finish(c)
  PROVE  Within(F)'
<1> DEFINE t == tasks[c]
           resent == [IdleTask EXCEPT !.op = "distribute"]
<1>1. /\ c \in Task /\ t \in TaskType /\ TaskWithin(F, t) /\ Home[c] \in Node
      /\ Extends(F, heads[Home[c]]) /\ Extends(F, t.head)
  BY KindsOfTask, TaskFields DEF Within, TaskWithin
<1>2. UNCHANGED <<heads, replies>>
  BY DEF PublishFails, Replicate, Handoff, Send, Finish
<1>3. resent \in TaskType /\ TaskWithin(F, resent)
  <2>1. resent.chain = << >> /\ resent.head = << >> /\ resent.found = {}
    BY DEF IdleTask
  <2> QED
    BY <2>1, IdleType, EmptyWithin DEF TaskWithin, TaskType
<1>4. /\ \E u : Set(c, u) /\ TaskWithin(F, u)
      /\ \A u \in updates' : Extends(F, u.head)
  <2>1. CASE PublishFails(c) \/ Finish(c)
    BY <2>1, EmptyWithin DEF PublishFails, Finish, Within
  <2>2. CASE Replicate(c)
    <3>1. PICK P \in Lookups(Home[c]) :
            Set(c, Distribute(resent, heads[Home[c]], Closest(P \cup {Home[c]})))
      BY <2>2 DEF Replicate
    <3>2. TaskWithin(F, Distribute(resent, heads[Home[c]], Closest(P \cup {Home[c]})))
      BY <1>1, <1>3, DistributeWithin
    <3> QED
      BY <2>2, <3>1, <3>2 DEF Replicate, Within
  <2>3. ASSUME NEW m \in Node, Handoff(c, m)
        PROVE  (\E u : Set(c, u) /\ TaskWithin(F, u)) /\ updates' = updates
    <3>1. TaskWithin(F, Distribute(resent, heads[Home[c]], {m}))
      BY <1>1, <1>3, DistributeWithin
    <3> QED
      BY <2>3, <3>1 DEF Handoff
  <2>4. CASE Send(c)
    <3> DEFINE there == [t EXCEPT !.pc = "await"]
    <3>1. (Set(c, Walk(t, "self", t.head)) /\ updates' = updates)
          \/ (Set(c, there)
              /\ updates' = updates \cup {[to |-> Nearest(t.todo), head |-> t.head]})
      BY <2>4 DEF Send
    <3>2. there.chain = t.chain /\ there.head = t.head /\ there.found = t.found
      BY <1>1 DEF TaskType
    <3> HIDE DEF there
    <3>3. TaskWithin(F, there) /\ TaskWithin(F, Walk(t, "self", t.head))
      BY <1>1, <3>2, WalkWithin DEF TaskWithin
    <3>4. \A u \in updates' : Extends(F, u.head)
      BY <1>1, <3>1 DEF Within
    <3> QED
      BY <3>1, <3>3, <3>4
  <2> QED
    BY <2>1, <2>2, <2>3, <2>4 DEF Within
<1> QED
  BY <1>1, <1>2, <1>4, SetWithin DEF Within

LEMMA AnswerKeepsWithin ==
  ASSUME TypeOK, NEW F \in History, Within(F), NEW c \in Client,
         TakeReply(c) \/ CallFails(c)
  PROVE  Within(F)'
<1> DEFINE t == tasks[c]
<1>1. c \in Task /\ t \in TaskType /\ TaskWithin(F, t)
  BY KindsOfTask, TaskFields DEF Within
<1>2. \E u : EndCall(c, u) /\ TaskWithin(F, u)
  <2>1. CASE TakeReply(c)
    <3>1. PICK r \in replies :
            EndCall(c, IF ~r.ok /\ VersionOf(r.head) > VersionOf(t.head)
                         THEN Walk(t, "catchup", r.head) ELSE Sent(t, r.ok))
      BY <2>1 DEF TakeReply
    <3>2. r.ok \in BOOLEAN /\ Extends(F, r.head)
      BY DEF TypeOK, Within
    <3>3. TaskWithin(F, Walk(t, "catchup", r.head)) /\ TaskWithin(F, Sent(t, r.ok))
      BY <1>1, <3>2, WalkWithin, SentWithin
    <3> QED
      BY <3>1, <3>3
  <2>2. CASE CallFails(c)
    BY <1>1, <2>2, SentWithin DEF CallFails
  <2> QED
    BY <2>1, <2>2
<1>3. PICK u : EndCall(c, u) /\ TaskWithin(F, u)
  BY <1>2
<1>4. ASSUME NEW x \in Task
      PROVE  TaskWithin(F, tasks'[x])
  <2>1. tasks[x] \in TaskType /\ TaskWithin(F, tasks[x])
    BY DEF TypeOK, Within
  <2>2. tasks'[x] \in {u, tasks[x], [tasks[x] EXCEPT !.caller = None]}
    BY <1>3 DEF EndCall
  <2>3. TaskWithin(F, [tasks[x] EXCEPT !.caller = None])
    <3> DEFINE v == [tasks[x] EXCEPT !.caller = None]
    <3>1. v.chain = tasks[x].chain /\ v.head = tasks[x].head /\ v.found = tasks[x].found
      BY <2>1 DEF TaskType
    <3> HIDE DEF v
    <3>2. TaskWithin(F, v)
      BY <2>1, <3>1 DEF TaskWithin
    <3> QED
      BY <3>2 DEF v
  <2> QED
    BY <1>3, <2>1, <2>2, <2>3
<1> QED
  BY <1>3, <1>4 DEF TakeReply, CallFails, EndCall, Within

LEMMA WorkerKeepsWithin ==
  ASSUME TypeOK, NEW F \in History, Within(F), NEW w \in Worker, WorkerStep(w)
  PROVE  Within(F)'
<1>1. w \in Task /\ Home[w] \in Node
  BY KindsOfTask, TaskFields
<1>2. CASE Receive(w)
  <2>1. PICK u \in updates : \E c \in Callers(u) \cup {None} :
          Set(w, Walk([IdleTask EXCEPT !.op = "update", !.caller = c], "update", u.head))
    BY <1>2 DEF Receive
  <2>2. PICK c \in Callers(u) \cup {None} :
          Set(w, Walk([IdleTask EXCEPT !.op = "update", !.caller = c], "update", u.head))
    BY <2>1
  <2> DEFINE t == Walk([IdleTask EXCEPT !.op = "update", !.caller = c], "update", u.head)
  <2>3. t.chain = u.head /\ t.head = << >> /\ t.found = {}
    BY DEF Walk, IdleTask
  <2> HIDE DEF t
  <2>4. TaskWithin(F, t)
    BY <2>3, EmptyWithin DEF TaskWithin, Within
  <2>5. Set(w, t) /\ UNCHANGED <<heads, updates, replies>>
    BY <1>2, <2>2 DEF Receive, t
  <2> QED
    BY <1>1, <2>4, <2>5, SetWithin DEF Within
<1>3. CASE Refuse(w)
  <2>1. \A r \in replies' : Extends(F, r.head)
    BY <1>1, <1>3 DEF Refuse, Within
  <2>2. Set(w, IdleTask) /\ UNCHANGED <<heads, updates>>
    BY <1>3 DEF Refuse
  <2> QED
    BY <1>1, <2>1, <2>2, EmptyWithin, SetWithin DEF Within
<1> QED
  BY <1>2, <1>3 DEF WorkerStep

\* Only Publish puts a history in the world that F does not extend.
LEMMA WithinStep ==
  ASSUME TypeOK, NEW F \in History, Within(F), [Next]_vars,
         \A c \in Client : ~Publish(c)
  PROVE  Within(F)'
<1>1. ASSUME NEW c \in Client, ClientStep(c)
      PROVE  Within(F)'
  BY <1>1, LatestKeepsWithin, DistributionKeepsWithin, AnswerKeepsWithin DEF ClientStep
<1>2. ASSUME NEW m \in Node, NEW n \in Node, CopyRecord(m, n)
      PROVE  Within(F)'
  BY <1>2 DEF CopyRecord, Within
<1>3. CASE UNCHANGED vars
  BY <1>3 DEF vars, Within
<1> QED
  BY <1>1, <1>2, <1>3, WalkerKeepsWithin, WorkerKeepsWithin DEF Next

\* A newer frontier extends the same histories.
LEMMA WithinGrows ==
  ASSUME TypeOK, NEW F \in History, NEW G \in History, Within(F), Extends(G, F)
  PROVE  Within(G)
<1>1. \A h \in History : Extends(F, h) => Extends(G, h)
  BY ExtendsOrder
<1>2. \A n \in Node : Extends(G, heads[n])
  BY <1>1 DEF Within, TypeOK
<1>3. ASSUME NEW x \in Task
      PROVE  TaskWithin(G, tasks[x])
  <2>1. /\ tasks[x].chain \in History /\ tasks[x].head \in History
        /\ tasks[x].found \in SUBSET History /\ TaskWithin(F, tasks[x])
    BY TaskFields DEF Within
  <2> QED
    BY <1>1, <2>1 DEF TaskWithin
<1>4. \A u \in updates : Extends(G, u.head)
  BY <1>1 DEF Within, TypeOK
<1>5. \A r \in replies : Extends(G, r.head)
  BY <1>1 DEF Within, TypeOK
<1> QED
  BY <1>2, <1>3, <1>4, <1>5 DEF Within

-----------------------------------------------------------------------------
(* The owner's steps.                                                      *)

\* Whatever the step does to heads and stores leaves the owner's task good.
LEMMA OwnerRests ==
  ASSUME NEW o \in Client, SoleInv(o), [Next]_vars
  PROVE  /\ OwnerGood(o, tasks[o], heads', store')
         /\ Newest(o, tasks[o], heads') = Frontier(o)
         /\ tasks[o] \in TaskType /\ Home[o] \in Node
<1> DEFINE t == tasks[o]
<1>1. /\ TypeOK /\ t \in TaskType /\ Home[o] \in Node /\ Frontier(o) \in History
      /\ Within(Frontier(o)) /\ OwnerGood(o, t, heads, store)
  BY FrontierType, TaskFields, KindsOfTask DEF SoleInv, AckInv
<1>2. heads[Home[o]] = Frontier(o) => heads'[Home[o]] = Frontier(o)
  BY <1>1, NewestStays
<1>3. store[Home[o]] \subseteq store'[Home[o]]
  BY <1>1, StoresGrow
<1>4. CASE Publishes(t)
  <2>1. Frontier(o) = t.head /\ Newest(o, t, heads') = t.head
        /\ t.pc # "ask" /\ t.pc # "build"
    BY <1>4 DEF Frontier, Newest, Publishes, Distributing
  <2> QED
    BY <1>1, <1>2, <1>3, <1>4, <2>1 DEF OwnerGood
<1>5. CASE ~Publishes(t)
  <2>1. Frontier(o) = heads[Home[o]] /\ Newest(o, t, heads') = heads'[Home[o]]
    BY <1>5 DEF Frontier, Newest
  <2> QED
    BY <1>1, <1>2, <1>5, <2>1 DEF OwnerGood
<1> QED
  BY <1>1, <1>4, <1>5

\* What the invariant says of a task depends on these.
SameTask(t, u) ==
  /\ u.op = t.op /\ u.pc = t.pc /\ u.head = t.head /\ u.found = t.found
  /\ u.todo = t.todo

\* Task x moves, without a publication.
LEMMA SoleMoves ==
  ASSUME NEW o \in Client, SoleInv(o), [Next]_vars, \A c \in Client : ~Publish(c),
         NEW x \in Task, NEW u, tasks'[x] = u, OnlyOwner(o, x, u),
         \A y \in Task \ {x} : SameTask(tasks[y], tasks'[y]),
         x = o => /\ OwnerGood(o, u, heads', store')
                  /\ Newest(o, u, heads') = Newest(o, tasks[o], heads')
  PROVE  SoleInv(o)'
<1>1. AckInv' /\ HeadsHoldHistory'
  BY AckStep, HeadsHoldStep DEF SoleInv, AckInv
<1>2. ASSUME NEW y \in Task
      PROVE  OnlyOwner(o, y, tasks'[y])
  <2>1. OnlyOwner(o, y, tasks[y])
    BY DEF SoleInv
  <2> QED
    BY <2>1 DEF OnlyOwner, SameTask
<1>3. /\ OwnerGood(o, tasks'[o], heads', store')
      /\ Newest(o, tasks'[o], heads') = Frontier(o)
  <2>1. CASE x = o
    BY <2>1, OwnerRests
  <2>2. CASE x # o
    <3>1. SameTask(tasks[o], tasks'[o])
      BY <2>2, KindsOfTask
    <3>2. OwnerGood(o, tasks[o], heads', store') /\ Newest(o, tasks[o], heads') = Frontier(o)
      BY OwnerRests
    <3>3. Publishes(tasks[o]) <=> Publishes(tasks'[o])
      BY <3>1 DEF SameTask, Publishes
    <3> QED
      BY <3>1, <3>2, <3>3 DEF SameTask, OwnerGood, Newest
  <2> QED
    BY <2>1, <2>2
<1>4. Frontier(o)' = Frontier(o) /\ Frontier(o) \in History
  BY <1>3, FrontierType DEF Frontier, SoleInv, AckInv
<1>5. PICK F \in History : F = Frontier(o)
  BY <1>4
<1>6. Within(F)'
  <2>1. TypeOK /\ Within(F)
    BY <1>5 DEF SoleInv, AckInv
  <2> QED
    BY <2>1, WithinStep
<1>7. Within(Frontier(o))'
  BY <1>4, <1>5, <1>6 DEF Within
<1> QED
  BY <1>1, <1>2, <1>3, <1>7 DEF SoleInv

\* The owner's task becomes u, and what it holds as the newest stays the same.
OwnerMoves(o, t, u, H, S) ==
  OwnerGood(o, u, H, S) /\ Newest(o, u, H) = Newest(o, t, H)

\* It does so while it publishes nothing ...
LEMMA RestMoves ==
  ASSUME NEW o, NEW t, NEW u, NEW H, NEW S, ~Publishes(t), ~Publishes(u),
         u.pc = "ask" => u.found # {} \/ H[Home[o]] = << >>,
         u.pc = "build" => u.head = H[Home[o]]
  PROVE  OwnerMoves(o, t, u, H, S)
BY DEF OwnerMoves, OwnerGood, Newest

\* ... when it goes on with the distribution of a version ...
LEMMA PublishMoves ==
  ASSUME NEW o, NEW t, NEW u, NEW H, NEW S, OwnerGood(o, t, H, S),
         Publishes(t), Publishes(u), u.head = t.head,
         Home[o] \in u.todo \/ H[Home[o]] = t.head,
         u.pc \in {"await", "catchup"} => Nearest(u.todo) # Home[o]
  PROVE  OwnerMoves(o, t, u, H, S)
<1>1. u.pc \notin {"ask", "build"}
  BY DEF Publishes, Distributing
<1> QED
  BY <1>1 DEF OwnerMoves, OwnerGood, Newest

\* ... and when that is done.
LEMMA FinishMoves ==
  ASSUME NEW o, NEW t, NEW u, NEW H, NEW S, Publishes(t), ~Publishes(u),
         H[Home[o]] = t.head, u.pc \notin {"ask", "build"}
  PROVE  OwnerMoves(o, t, u, H, S)
BY DEF OwnerMoves, OwnerGood, Newest

\* distribute goes on after a target.
LEMMA SentMoves ==
  ASSUME NEW o, NEW t \in TaskType, NEW H, NEW S, NEW ok \in BOOLEAN,
         OwnerGood(o, t, H, S), t.pc \in AtTarget,
         Publishes(t) /\ t.pc = "self" => H[Home[o]] = t.head
  PROVE  OwnerMoves(o, t, Sent(t, ok), H, S)
<1> DEFINE u == Sent(t, ok)
<1>1. /\ u.pc = "send" /\ u.op = t.op /\ u.head = t.head
      /\ u.todo = t.todo \ {Nearest(t.todo)}
  BY DEF Sent, TaskType
<1> HIDE DEF u
<1>2. CASE Publishes(t)
  <2>1. Publishes(u) /\ u.pc \notin {"await", "catchup"}
    BY <1>1, <1>2 DEF Publishes, Distributing
  <2>2. Home[o] \in u.todo \/ H[Home[o]] = t.head
    BY <1>1, <1>2 DEF OwnerGood, AtTarget
  <2> QED
    BY <1>1, <1>2, <2>1, <2>2, PublishMoves DEF u
<1>3. CASE ~Publishes(t)
  <2>1. ~Publishes(u) /\ u.pc \notin {"ask", "build"}
    BY <1>1, <1>3 DEF Publishes, Distributing, AtTarget
  <2> QED
    BY <1>3, <2>1, RestMoves DEF u
<1> QED
  BY <1>2, <1>3

\* One task moves, by Set.
LEMMA SoleSets ==
  ASSUME NEW o \in Client, SoleInv(o), [Next]_vars, \A c \in Client : ~Publish(c),
         NEW x \in Task, NEW u, Set(x, u), OnlyOwner(o, x, u),
         x = o => OwnerMoves(o, tasks[o], u, heads', store')
  PROVE  SoleInv(o)'
<1>1. tasks \in [Task -> TaskType]
  BY DEF SoleInv, AckInv, TypeOK
<1>2. tasks'[x] = u /\ \A y \in Task \ {x} : SameTask(tasks[y], tasks'[y])
  BY <1>1 DEF Set, SameTask
<1> QED
  BY <1>2, SoleMoves DEF OwnerMoves

\* No task moves.
LEMMA SoleRests ==
  ASSUME NEW o \in Client, SoleInv(o), [Next]_vars, \A c \in Client : ~Publish(c),
         UNCHANGED tasks
  PROVE  SoleInv(o)'
<1>1. o \in Task /\ OnlyOwner(o, o, tasks[o]) /\ tasks'[o] = tasks[o]
  BY KindsOfTask DEF SoleInv
<1>2. \A y \in Task : SameTask(tasks[y], tasks'[y])
  BY DEF SameTask
<1>3. OwnerGood(o, tasks[o], heads', store')
  BY OwnerRests
<1> QED
  BY <1>1, <1>2, <1>3, SoleMoves

\* A chain that verifies ends in a higher version than any chain it continues.
LEMMA LongerIsNewer ==
  ASSUME NEW g \in History, NEW h \in History, Extends(h, g), g # h,
         \A k \in 1 .. Len(h) : Good(h, k)
  PROVE  VersionOf(h) > VersionOf(g)
<1>1. /\ Len(g) \in Nat /\ Len(h) \in Nat
      /\ \A k \in 1 .. Len(h) : h[k].version \in Nat
  <2>1. Len(g) \in Nat /\ Len(h) \in Nat /\ \A k \in 1 .. Len(h) : h[k] \in Entry
    BY DEF History
  <2>2. \A e \in Entry : e.version \in Nat
    BY VersionsAssumption DEF Entry
  <2> QED
    BY <2>1, <2>2
<1>2. Len(g) < Len(h)
  <2>1. Len(g) = Len(h) => Extends(g, h)
    BY <1>1 DEF Extends
  <2> QED
    BY <1>1, <2>1, ExtendsOrder DEF Extends
<1>3. Len(h) \in 1 .. Len(h) /\ h # << >> /\ VersionOf(h) = h[Len(h)].version
  BY <1>1, <1>2 DEF VersionOf
<1>4. CASE g = << >>
  <2>1. VersionOf(g) = 0 /\ h[Len(h)].version # 0
    BY <1>3, <1>4 DEF VersionOf, Good
  <2> QED
    BY <1>1, <1>3, <2>1
<1>5. CASE g # << >>
  <2>1. Len(g) \in 1 .. Len(g) /\ VersionOf(g) = g[Len(g)].version
    BY <1>1, <1>5, EmptySeq DEF VersionOf, History
  <2>2. g[Len(g)] = h[Len(g)] /\ Len(g) \in 1 .. Len(h)
    BY <1>1, <1>2, <2>1 DEF Extends
  <2>3. h[Len(g)].version < h[Len(h)].version
    BY <1>2, <1>3, <2>2, VersionsIncrease
  <2> QED
    BY <1>1, <1>3, <2>1, <2>2, <2>3
<1> QED
  BY <1>4, <1>5

\* The owner's node accepts what the owner publishes.
LEMMA SelfIsAccepted ==
  ASSUME NEW o \in Client, SoleOwner(o), SoleInv(o),
         Publishes(tasks[o]), tasks[o].pc = "self"
  PROVE  ~Reject(o)
<1> DEFINE t == tasks[o]
<1>1. /\ t.chain = t.head /\ t.head \in History
      /\ heads[Home[o]] \in History /\ Home[o] \in Node
  BY TaskFields, FrontierType, KindsOfTask DEF SoleInv, AckInv, ClientGood
<1>2. \A k \in 1 .. Len(t.head) : RecordOf(t.head, k) \in store[Home[o]] /\ Good(t.head, k)
  BY DEF SoleInv, OwnerGood
<1>3. Walked(o)
  BY <1>1, <1>2 DEF Walked, Passed
<1>4. Extends(t.head, heads[Home[o]])
  BY <1>1 DEF SoleInv, Within, Frontier, Newest
<1>5. Acceptable(heads[Home[o]], t.chain)
  BY <1>1, <1>2, <1>4, LongerIsNewer DEF Acceptable
<1>6. Passes(o)
  BY <1>5 DEF Passes
<1> QED
  BY <1>3, <1>6 DEF Reject, SoleOwner

\* accept returns to its caller.
LEMMA AfterAcceptOnly ==
  ASSUME NEW o, NEW x, NEW t \in TaskType, NEW ok \in BOOLEAN, OnlyOwner(o, x, t),
         t.pc \in Walking
  PROVE  OnlyOwner(o, x, AfterAccept(t, ok))
<1> DEFINE built == [IdleTask EXCEPT !.op = "publish", !.pc = "build", !.head = t.chain]
           refusing == [t EXCEPT !.pc = "refuse"]
<1>1. /\ AfterAccept(t, ok) \in {built, refusing, IdleTask, Sent(t, ok), Sent(t, FALSE)}
      /\ t.op # "publish" =>
           AfterAccept(t, ok) \in {refusing, IdleTask, Sent(t, ok), Sent(t, FALSE)}
  <2>1. CASE t.op = "publish"
    BY <2>1 DEF AfterAccept
  <2>2. CASE t.op # "publish"
    BY <2>2 DEF AfterAccept
  <2> QED
    BY <2>1, <2>2
<1>2. /\ built.op = "publish" /\ refusing.op = t.op /\ refusing.pc = "refuse"
      /\ IdleTask.op = "none" /\ IdleTask.pc = "idle"
      /\ Sent(t, ok).op = t.op /\ Sent(t, ok).pc = "send"
      /\ Sent(t, FALSE).op = t.op /\ Sent(t, FALSE).pc = "send"
  BY DEF IdleTask, TaskType, Sent
<1> HIDE DEF built, refusing
<1> QED
  BY <1>1, <1>2 DEF OnlyOwner

LEMMA AfterAcceptMoves ==
  ASSUME NEW o \in Client, NEW t \in TaskType, NEW H, NEW S, NEW ok \in BOOLEAN,
         ClientGood(o, t, H), OwnerGood(o, t, H, S), t.pc \in Walking,
         ok => H[Home[o]] = t.chain,
         Publishes(t) /\ t.pc = "self" => ok
  PROVE  OwnerMoves(o, t, AfterAccept(t, ok), H, S)
<1>1. t.pc \in {"newest", "self", "catchup"}
  BY DEF ClientGood, Walking
<1>2. CASE t.pc = "newest"
  <2> DEFINE built == [IdleTask EXCEPT !.op = "publish", !.pc = "build", !.head = t.chain]
  <2>1. /\ AfterAccept(t, ok) \in {IdleTask, built}
        /\ ~ok => AfterAccept(t, ok) = IdleTask
    <3>1. CASE ok
      BY <1>2, <3>1 DEF AfterAccept
    <3>2. CASE ~ok
      BY <1>2, <3>2 DEF AfterAccept
    <3> QED
      BY <3>1, <3>2
  <2>2. built.pc = "build" /\ built.head = t.chain /\ IdleTask.pc = "idle"
    BY DEF IdleTask
  <2> HIDE DEF built
  <2>3. ~Publishes(t) /\ ~Publishes(built) /\ ~Publishes(IdleTask)
    BY <1>2, <2>2 DEF Publishes, Distributing
  <2>4. OwnerMoves(o, t, IdleTask, H, S)
    BY <2>2, <2>3, RestMoves
  <2>5. ok => OwnerMoves(o, t, built, H, S)
    BY <2>2, <2>3, RestMoves
  <2> QED
    BY <2>1, <2>4, <2>5
<1>3. CASE t.pc = "self"
  <2>1. AfterAccept(t, ok) = Sent(t, ok) /\ t.chain = t.head
    BY <1>3 DEF AfterAccept, ClientGood
  <2> QED
    BY <1>3, <2>1, SentMoves DEF AtTarget
<1>4. CASE t.pc = "catchup"
  <2>1. AfterAccept(t, ok) = Sent(t, FALSE)
    BY <1>4 DEF AfterAccept
  <2> QED
    BY <1>4, <2>1, SentMoves DEF AtTarget
<1> QED
  BY <1>1, <1>2, <1>3, <1>4

LEMMA WalkerKeepsSole ==
  ASSUME NEW o \in Client, SoleOwner(o), SoleInv(o), [Next]_vars,
         \A c \in Client : ~Publish(c), NEW x \in Task, Walker(x)
  PROVE  SoleInv(o)'
<1>1. /\ TypeOK /\ tasks[x] \in TaskType /\ Home[x] \in Node
      /\ OnlyOwner(o, x, tasks[x]) /\ heads \in [Node -> History]
      /\ tasks[o] \in TaskType
  BY TaskFields, KindsOfTask DEF SoleInv, AckInv, TypeOK
<1>2. OwnerGood(o, tasks[o], heads', store')
  BY OwnerRests
<1>3. ClientGood(o, tasks[o], heads')
  <2>1. AckInv /\ heads' \in [Node -> History] /\ \A n \in Node : Extends(heads'[n], heads[n])
    BY TypeStep, HeadsGrow DEF SoleInv, AckInv, TypeOK
  <2> QED
    BY <2>1, OthersKeepGood
<1>4. CASE Fetch(x)
  BY <1>4, SoleRests DEF Fetch
<1>5. CASE Accept(x)
  <2>1. tasks[x].pc \in Walking /\ Set(x, AfterAccept(tasks[x], TRUE))
        /\ heads' = [heads EXCEPT ![Home[x]] = tasks[x].chain]
    BY <1>5 DEF Accept
  <2>2. heads'[Home[x]] = tasks[x].chain
    BY <1>1, <2>1
  <2>3. x = o => OwnerMoves(o, tasks[o], AfterAccept(tasks[x], TRUE), heads', store')
    BY <1>1, <1>2, <1>3, <2>1, <2>2, AfterAcceptMoves
  <2>4. OnlyOwner(o, x, AfterAccept(tasks[x], TRUE))
    BY <1>1, <2>1, AfterAcceptOnly
  <2> QED
    BY <2>1, <2>3, <2>4, SoleSets
<1>6. CASE Reject(x)
  <2>1. tasks[x].pc \in Walking /\ Set(x, AfterAccept(tasks[x], FALSE))
    BY <1>6 DEF Reject
  <2>2. x = o => ~(Publishes(tasks[o]) /\ tasks[o].pc = "self")
    BY <1>6, SelfIsAccepted
  <2>3. x = o => OwnerMoves(o, tasks[o], AfterAccept(tasks[x], FALSE), heads', store')
    BY <1>1, <1>2, <1>3, <2>1, <2>2, AfterAcceptMoves
  <2>4. OnlyOwner(o, x, AfterAccept(tasks[x], FALSE))
    BY <1>1, <2>1, AfterAcceptOnly
  <2> QED
    BY <2>1, <2>3, <2>4, SoleSets
<1> QED
  BY <1>4, <1>5, <1>6 DEF Walker

\* The idle task publishes nothing.
LEMMA IdlePublishesNothing ==
  /\ IdleTask.op = "none" /\ IdleTask.pc = "idle" /\ ~Publishes(IdleTask)
  /\ \A o, x : OnlyOwner(o, x, IdleTask)
<1>1. IdleTask.op = "none" /\ IdleTask.pc = "idle"
  BY DEF IdleTask
<1> QED
  BY <1>1 DEF Publishes, OnlyOwner

LEMMA LatestKeepsSole ==
  ASSUME NEW o \in Client, SoleOwner(o), SoleInv(o), [Next]_vars,
         \A d \in Client : ~Publish(d), NEW c \in Client,
         (\E op \in {"latest", "publish"} : StartLatest(c, op)) \/ Ask(c) \/ Choose(c)
  PROVE  SoleInv(o)'
<1> DEFINE t == tasks[c]
           Allowed(u) == OnlyOwner(o, c, u)
                         /\ (c = o => OwnerMoves(o, t, u, heads', store'))
<1>1. /\ c \in Task /\ t \in TaskType /\ OnlyOwner(o, c, t)
      /\ c = o => OwnerGood(o, t, heads', store')
  BY KindsOfTask, TaskFields, OwnerRests DEF SoleInv, AckInv
<1>2. UNCHANGED heads /\ t.pc \in {"idle", "ask"}
  BY DEF StartLatest, Ask, Choose
<1>3. ~Publishes(t)
  BY <1>2 DEF Publishes, Distributing
<1>4. ASSUME NEW u, OnlyOwner(o, c, u), ~Publishes(u),
             c = o => (u.pc = "ask" => u.found # {} \/ heads'[Home[o]] = << >>),
             c = o => (u.pc = "build" => u.head = heads'[Home[o]])
      PROVE  Allowed(u)
  BY <1>3, <1>4, RestMoves
<1>5. Allowed(IdleTask)
  BY <1>4, IdlePublishesNothing
<1>6. \E u : Set(c, u) /\ Allowed(u)
  <2> HIDE DEF Allowed
  <2>1. ASSUME NEW op \in {"latest", "publish"}, StartLatest(c, op)
        PROVE  \E u : Set(c, u) /\ Allowed(u)
    <3> DEFINE u(P) == [IdleTask EXCEPT !.op = op, !.pc = "ask", !.unasked = P,
                          !.found = {heads[Home[c]]} \ {<< >>}]
    <3>1. PICK P \in Lookups(Home[c]) : Set(c, u(P))
      BY <2>1 DEF StartLatest
    <3>2. /\ u(P).op = op /\ u(P).pc = "ask"
          /\ u(P).found = {heads[Home[c]]} \ {<< >>}
      BY DEF IdleTask
    <3> HIDE DEF u
    <3>3. OnlyOwner(o, c, u(P)) /\ ~Publishes(u(P))
      BY <2>1, <3>2 DEF OnlyOwner, StartLatest, SoleOwner, Publishes, Distributing
    <3>4. c = o => u(P).found # {} \/ heads'[Home[o]] = << >>
      BY <1>2, <3>2
    <3>5. Allowed(u(P))
      BY <1>4, <3>2, <3>3, <3>4
    <3> QED
      BY <3>1, <3>5
  <2>2. CASE Ask(c)
    <3> DEFINE m == Nearest(t.unasked)
               asked == [t EXCEPT !.unasked = t.unasked \ {m}]
               more == [asked EXCEPT !.found = t.found \cup ({heads[m]} \ {<< >>})]
               less == [asked EXCEPT !.failed = TRUE]
    <3>1. (Set(c, more) \/ Set(c, less)) /\ t.pc = "ask"
      BY <2>2 DEF Ask
    <3>2. /\ more.op = t.op /\ more.pc = t.pc /\ t.found \subseteq more.found
          /\ less.op = t.op /\ less.pc = t.pc /\ less.found = t.found
      BY <1>1 DEF TaskType
    <3> HIDE DEF more, less
    <3>3. c = o => t.found # {} \/ heads'[Home[o]] = << >>
      BY <1>1, <3>1 DEF OwnerGood
    <3>4. /\ OnlyOwner(o, c, more) /\ ~Publishes(more)
          /\ OnlyOwner(o, c, less) /\ ~Publishes(less)
      BY <1>1, <3>1, <3>2 DEF OnlyOwner, Publishes, Distributing
    <3>5. Allowed(more)
      BY <1>4, <3>1, <3>2, <3>3, <3>4
    <3>6. Allowed(less)
      BY <1>4, <3>1, <3>2, <3>3, <3>4
    <3> QED
      BY <3>1, <3>5, <3>6
  <2>3. CASE Choose(c)
    <3> DEFINE built == [IdleTask EXCEPT !.op = "publish", !.pc = "build"]
    <3>1. \/ Set(c, built) /\ t.op = "publish" /\ t.found = {}
          \/ Set(c, IdleTask)
          \/ \E h \in t.found : Set(c, Walk(t, "newest", h))
      BY <2>3 DEF Choose
    <3>2. /\ built.op = "publish" /\ built.pc = "build" /\ built.head = << >>
          /\ t.pc = "ask"
      BY <2>3 DEF IdleTask, Choose
    <3>3. ASSUME t.op = "publish", t.found = {}
          PROVE  Allowed(built)
      <4> HIDE DEF built
      <4>1. OnlyOwner(o, c, built) /\ ~Publishes(built)
        BY <1>1, <3>2, <3>3 DEF OnlyOwner, Publishes, Distributing
      <4>2. c = o => built.head = heads'[Home[o]]
        BY <1>1, <3>2, <3>3 DEF OwnerGood
      <4> QED
        BY <1>4, <3>2, <4>1, <4>2
    <3>4. ASSUME NEW h
          PROVE  Allowed(Walk(t, "newest", h))
      <4> DEFINE u == Walk(t, "newest", h)
      <4>1. u.op = t.op /\ u.pc = "newest"
        BY <1>1 DEF Walk, TaskType
      <4> HIDE DEF u
      <4>2. OnlyOwner(o, c, u) /\ ~Publishes(u)
        BY <1>1, <4>1 DEF OnlyOwner, Publishes, Distributing
      <4>3. Allowed(u)
        BY <1>4, <4>1, <4>2
      <4> QED
        BY <4>3 DEF u
    <3> HIDE DEF built
    <3> QED
      BY <1>5, <3>1, <3>3, <3>4
  <2> QED
    BY <2>1, <2>2, <2>3
<1>7. PICK u : Set(c, u) /\ Allowed(u)
  BY <1>6
<1> QED
  BY <1>1, <1>7, SoleSets

LEMMA DistributionKeepsSole ==
  ASSUME NEW o \in Client, SoleOwner(o), SoleInv(o), [Next]_vars,
         \A d \in Client : ~Publish(d), NEW c \in Client,
         \/ PublishFails(c) \/ Replicate(c) \/ (\E m \in Node : Handoff(c, m))
         \/ Send(c) \/ Finish(c)
  PROVE  SoleInv(o)'
<1> DEFINE t == tasks[c]
           resent == [IdleTask EXCEPT !.op = "distribute"]
           Allowed(u) == OnlyOwner(o, c, u)
                         /\ (c = o => OwnerMoves(o, t, u, heads', store'))
<1>1. /\ c \in Task /\ t \in TaskType /\ OnlyOwner(o, c, t)
      /\ c = o => OwnerGood(o, t, heads', store')
  BY KindsOfTask, TaskFields, OwnerRests DEF SoleInv, AckInv
<1>2. ASSUME ~Publishes(t), NEW h, NEW targets
      PROVE  Allowed(Distribute(resent, h, targets))
  <2> DEFINE u == Distribute(resent, h, targets)
  <2>1. u.op = "distribute" /\ u.pc = "send"
    BY DEF Distribute, IdleTask
  <2> HIDE DEF u
  <2>2. OnlyOwner(o, c, u) /\ ~Publishes(u)
    BY <2>1 DEF OnlyOwner, Publishes
  <2>3. Allowed(u)
    BY <1>2, <2>1, <2>2, RestMoves
  <2> QED
    BY <2>3 DEF u
<1>3. \E u : Set(c, u) /\ Allowed(u)
  <2>1. CASE PublishFails(c)
    <3>1. ~Publishes(t) /\ Set(c, IdleTask)
      BY <2>1 DEF PublishFails, Publishes, Distributing
    <3>2. Allowed(IdleTask)
      BY <3>1, RestMoves, IdlePublishesNothing
    <3> QED
      BY <3>1, <3>2
  <2>2. CASE Replicate(c) \/ \E m \in Node : Handoff(c, m)
    <3>1. ~Publishes(t)
      BY <2>2 DEF Replicate, Handoff, Publishes, Distributing
    <3> HIDE DEF Allowed
    <3> QED
      BY <1>2, <2>2, <3>1 DEF Replicate, Handoff
  <2>3. CASE Send(c)
    <3> DEFINE here == Walk(t, "self", t.head)
               there == [t EXCEPT !.pc = "await"]
    <3>1. /\ t.pc = "send"
          /\ (Nearest(t.todo) = Home[c] /\ Set(c, here))
             \/ (Nearest(t.todo) # Home[c] /\ Set(c, there))
      BY <2>3 DEF Send
    <3>2. /\ here.op = t.op /\ here.pc = "self" /\ here.head = t.head
          /\ here.todo = t.todo
          /\ there.op = t.op /\ there.pc = "await" /\ there.head = t.head
          /\ there.todo = t.todo
      BY <1>1 DEF TaskType, Walk
    <3> HIDE DEF here, there
    <3>3. OnlyOwner(o, c, here) /\ OnlyOwner(o, c, there)
      BY <1>1, <3>2 DEF OnlyOwner
    <3>4. CASE Publishes(t)
      <4>1. Publishes(here) /\ Publishes(there)
        BY <3>2, <3>4 DEF Publishes, Distributing
      <4>2. c = o => Home[o] \in t.todo \/ heads'[Home[o]] = t.head
        BY <1>1, <3>4 DEF OwnerGood
      <4>3. c = o => OwnerMoves(o, t, here, heads', store')
        BY <1>1, <3>2, <3>4, <4>1, <4>2, PublishMoves
      <4>4. c = o /\ Nearest(t.todo) # Home[c] => OwnerMoves(o, t, there, heads', store')
        BY <1>1, <3>2, <3>4, <4>1, <4>2, PublishMoves
      <4> QED
        BY <3>1, <3>3, <4>3, <4>4
    <3>5. CASE ~Publishes(t)
      <4>1. ~Publishes(here) /\ ~Publishes(there)
        BY <3>1, <3>2, <3>5 DEF Publishes, Distributing
      <4>2. OwnerMoves(o, t, here, heads', store')
        BY <3>2, <3>5, <4>1, RestMoves
      <4>3. OwnerMoves(o, t, there, heads', store')
        BY <3>2, <3>5, <4>1, RestMoves
      <4> QED
        BY <3>1, <3>3, <4>2, <4>3
    <3> QED
      BY <3>4, <3>5
  <2>4. CASE Finish(c)
    <3>1. Set(c, IdleTask) /\ t.todo = {}
      BY <2>4 DEF Finish
    <3>2. CASE Publishes(t)
      <4>1. c = o => heads'[Home[o]] = t.head
        BY <1>1, <3>1, <3>2 DEF OwnerGood
      <4>2. c = o => OwnerMoves(o, t, IdleTask, heads', store')
        BY <3>2, <4>1, FinishMoves, IdlePublishesNothing
      <4> QED
        BY <3>1, <4>2, IdlePublishesNothing
    <3>3. CASE ~Publishes(t)
      <4>1. OwnerMoves(o, t, IdleTask, heads', store')
        BY <3>3, RestMoves, IdlePublishesNothing
      <4> QED
        BY <3>1, <4>1, IdlePublishesNothing
    <3> QED
      BY <3>2, <3>3
  <2> QED
    BY <2>1, <2>2, <2>3, <2>4
<1>4. PICK u : Set(c, u) /\ Allowed(u)
  BY <1>3
<1> QED
  BY <1>1, <1>4, SoleSets

LEMMA AnswerKeepsSole ==
  ASSUME NEW o \in Client, SoleInv(o), [Next]_vars, \A d \in Client : ~Publish(d),
         NEW c \in Client, TakeReply(c) \/ CallFails(c)
  PROVE  SoleInv(o)'
<1> DEFINE t == tasks[c]
           Allowed(u) == OnlyOwner(o, c, u)
                         /\ (c = o => OwnerMoves(o, t, u, heads', store'))
<1>1. /\ c \in Task /\ t \in TaskType /\ OnlyOwner(o, c, t) /\ t.pc = "await"
      /\ c = o => OwnerGood(o, t, heads', store')
  BY KindsOfTask, TaskFields, OwnerRests DEF SoleInv, AckInv, TakeReply, CallFails
<1>2. ASSUME NEW ok \in BOOLEAN
      PROVE  Allowed(Sent(t, ok))
  <2>1. Sent(t, ok).op = t.op /\ Sent(t, ok).pc = "send"
    BY <1>1 DEF Sent, TaskType
  <2>2. OnlyOwner(o, c, Sent(t, ok))
    BY <1>1, <2>1 DEF OnlyOwner
  <2>3. c = o => OwnerMoves(o, t, Sent(t, ok), heads', store')
    BY <1>1, SentMoves DEF AtTarget
  <2> QED
    BY <2>2, <2>3
<1>3. ASSUME NEW h
      PROVE  Allowed(Walk(t, "catchup", h))
  <2> DEFINE u == Walk(t, "catchup", h)
  <2>1. u.op = t.op /\ u.pc = "catchup" /\ u.head = t.head /\ u.todo = t.todo
    BY <1>1 DEF TaskType, Walk
  <2> HIDE DEF u
  <2>2. OnlyOwner(o, c, u)
    BY <1>1, <2>1 DEF OnlyOwner
  <2>3. CASE Publishes(t)
    <3>1. Publishes(u)
      BY <2>1, <2>3 DEF Publishes, Distributing
    <3>2. c = o => /\ Home[o] \in t.todo \/ heads'[Home[o]] = t.head
                   /\ Nearest(t.todo) # Home[o]
      BY <1>1, <2>3 DEF OwnerGood
    <3>3. c = o => OwnerMoves(o, t, u, heads', store')
      BY <1>1, <2>1, <2>3, <3>1, <3>2, PublishMoves
    <3> QED
      BY <2>2, <3>3 DEF u
  <2>4. CASE ~Publishes(t)
    <3>1. ~Publishes(u)
      BY <1>1, <2>1, <2>4 DEF Publishes, Distributing
    <3>2. OwnerMoves(o, t, u, heads', store')
      BY <2>1, <2>4, <3>1, RestMoves
    <3> QED
      BY <2>2, <3>2 DEF u
  <2> QED
    BY <2>3, <2>4
<1>4. \E u : EndCall(c, u) /\ Allowed(u)
  <2> HIDE DEF Allowed
  <2>1. CASE TakeReply(c)
    <3>1. PICK r \in replies :
            EndCall(c, IF ~r.ok /\ VersionOf(r.head) > VersionOf(t.head)
                         THEN Walk(t, "catchup", r.head) ELSE Sent(t, r.ok))
      BY <2>1 DEF TakeReply
    <3>2. r.ok \in BOOLEAN
      BY DEF SoleInv, AckInv, TypeOK
    <3> QED
      BY <1>2, <1>3, <3>1, <3>2
  <2>2. CASE CallFails(c)
    BY <1>2, <2>2 DEF CallFails
  <2> QED
    BY <2>1, <2>2
<1>5. PICK u : EndCall(c, u) /\ Allowed(u)
  BY <1>4
<1>6. tasks'[c] = u
  BY <1>1, <1>5 DEF EndCall
<1>7. ASSUME NEW y \in Task \ {c}
      PROVE  SameTask(tasks[y], tasks'[y])
  <2>1. tasks[y] \in TaskType
    BY DEF SoleInv, AckInv, TypeOK
  <2>2. tasks'[y] \in {tasks[y], [tasks[y] EXCEPT !.caller = None]}
    BY <1>5 DEF EndCall
  <2>3. SameTask(tasks[y], [tasks[y] EXCEPT !.caller = None])
    BY <2>1 DEF SameTask, TaskType
  <2>4. SameTask(tasks[y], tasks[y])
    BY DEF SameTask
  <2> QED
    BY <2>2, <2>3, <2>4
<1> QED
  BY <1>1, <1>5, <1>6, <1>7, SoleMoves DEF OwnerMoves

LEMMA WorkerKeepsSole ==
  ASSUME NEW o \in Client, SoleInv(o), [Next]_vars, \A d \in Client : ~Publish(d),
         NEW w \in Worker, WorkerStep(w)
  PROVE  SoleInv(o)'
<1>1. w \in Task /\ w # o
  BY KindsOfTask
<1>2. CASE Receive(w)
  <2>1. PICK u \in updates : \E c \in Callers(u) \cup {None} :
          Set(w, Walk([IdleTask EXCEPT !.op = "update", !.caller = c], "update", u.head))
    BY <1>2 DEF Receive
  <2>2. PICK c \in Callers(u) \cup {None} :
          Set(w, Walk([IdleTask EXCEPT !.op = "update", !.caller = c], "update", u.head))
    BY <2>1
  <2> DEFINE t == Walk([IdleTask EXCEPT !.op = "update", !.caller = c], "update", u.head)
  <2>3. t.op = "update" /\ t.pc = "update"
    BY DEF Walk, IdleTask
  <2>4. Set(w, t)
    BY <2>2
  <2> HIDE DEF t
  <2>5. OnlyOwner(o, w, t)
    BY <2>3 DEF OnlyOwner
  <2> QED
    BY <1>1, <2>4, <2>5, SoleSets
<1>3. CASE Refuse(w)
  <2>1. Set(w, IdleTask)
    BY <1>3 DEF Refuse
  <2> QED
    BY <1>1, <2>1, SoleSets, IdlePublishesNothing
<1> QED
  BY <1>2, <1>3 DEF WorkerStep

-----------------------------------------------------------------------------
(* The owner publishes.                                                    *)

\* A newer record signed by the owner makes a chain that verifies longer.
LEMMA AppendGood ==
  ASSUME NEW h \in History, NEW e \in Entry, \A k \in 1 .. Len(h) : Good(h, k),
         e.owned, e.version > VersionOf(h)
  PROVE  \A k \in 1 .. Len(Append(h, e)) : Good(Append(h, e), k)
<1> DEFINE new == Append(h, e)
<1>1. /\ Len(h) \in Nat /\ Len(new) = Len(h) + 1
      /\ \A i \in 1 .. Len(h) : new[i] = h[i]
      /\ new[Len(h) + 1] = e
  <2>1. Len(h) \in Nat
    BY DEF History
  <2> QED
    BY <2>1, AppendFacts
<1>2. e.version \in Nat /\ VersionOf(h) \in Nat /\ e.version # 0
  <2>1. \A x \in Entry : x.version \in Nat
    BY VersionsAssumption DEF Entry
  <2>2. \A k \in 1 .. Len(h) : h[k] \in Entry
    BY DEF History
  <2>3. h # << >> => Len(h) \in 1 .. Len(h)
    BY <1>1, EmptySeq DEF History
  <2>4. VersionOf(h) \in Nat
    BY <2>1, <2>2, <2>3 DEF VersionOf
  <2> QED
    BY <2>1, <2>4
<1> HIDE DEF new
<1>3. ASSUME NEW k \in 1 .. Len(new)
      PROVE  Good(new, k)
  <2>1. CASE k = Len(h) + 1
    BY <1>1, <1>2, <2>1 DEF Good
  <2>2. CASE k = Len(h)
    <3>1. h # << >> /\ k \in 1 .. Len(h)
      BY <1>1, <1>3, <2>2
    <3>2. VersionOf(h) = h[k].version /\ new[k + 1] = e /\ Good(h, k)
      BY <1>1, <2>2, <3>1 DEF VersionOf
    <3> QED
      BY <1>1, <1>2, <3>1, <3>2 DEF Good
  <2>3. CASE k < Len(h)
    <3>1. k \in 1 .. Len(h) /\ k + 1 \in 1 .. Len(h)
      BY <1>1, <1>3, <2>3
    <3>2. new[k] = h[k] /\ new[k + 1] = h[k + 1] /\ Good(h, k)
      BY <1>1, <3>1
    <3> QED
      BY <2>3, <3>2 DEF Good
  <2> QED
    BY <1>1, <1>3, <2>1, <2>2, <2>3
<1> QED
  BY <1>3 DEF new

\* The records of the longer chain.
LEMMA AppendRecords ==
  ASSUME NEW h \in History, NEW e \in Entry
  PROVE  /\ \A k \in 1 .. Len(h) : RecordOf(Append(h, e), k) = RecordOf(h, k)
         /\ RecordOf(Append(h, e), Len(h) + 1) = Append(h, e)
         /\ Len(Append(h, e)) = Len(h) + 1
<1> DEFINE new == Append(h, e)
<1>1. /\ Len(h) \in Nat /\ new \in History /\ Len(new) = Len(h) + 1
      /\ \A i \in 1 .. Len(h) : new[i] = h[i]
  <2>1. Len(h) \in Nat
    BY DEF History
  <2> QED
    BY <2>1, AppendFacts
<1> HIDE DEF new
<1>2. ASSUME NEW k \in 1 .. Len(h)
      PROVE  RecordOf(new, k) = RecordOf(h, k)
  <2>1. k \in 0 .. Len(h) /\ k \in 0 .. Len(new)
    BY <1>1
  <2>2. /\ RecordOf(new, k) \in History /\ RecordOf(h, k) \in History
        /\ Len(RecordOf(new, k)) = k /\ Len(RecordOf(h, k)) = k
        /\ \A i \in 1 .. k : RecordOf(new, k)[i] = RecordOf(h, k)[i]
    BY <1>1, <2>1, RecordFacts
  <2> QED
    BY <2>2, SeqEqual DEF History
<1>3. RecordOf(new, Len(new)) = new
  <2>1. Len(new) \in 0 .. Len(new)
    BY <1>1
  <2>2. /\ RecordOf(new, Len(new)) \in History /\ Len(RecordOf(new, Len(new))) = Len(new)
        /\ \A i \in 1 .. Len(new) : RecordOf(new, Len(new))[i] = new[i]
    BY <1>1, <2>1, RecordFacts
  <2> QED
    BY <1>1, <2>2, SeqEqual DEF History
<1> QED
  BY <1>1, <1>2, <1>3 DEF new

LEMMA PublishKeepsSole ==
  ASSUME NEW o \in Client, SoleOwner(o), SoleInv(o), [Next]_vars,
         NEW c \in Client, Publish(c)
  PROVE  SoleInv(o)'
<1> DEFINE t == tasks[o]
           n == Home[o]
<1>1. /\ TypeOK /\ o \in Task /\ t \in TaskType /\ n \in Node /\ t.head \in History
      /\ heads \in [Node -> History] /\ tasks \in [Task -> TaskType]
      /\ store \in [Node -> SUBSET History]
  BY KindsOfTask, TaskFields DEF SoleInv, AckInv, TypeOK
<1>2. c = o /\ t.op = "publish" /\ t.pc = "build"
  <2>1. c \in Task /\ OnlyOwner(o, c, tasks[c]) /\ tasks[c].pc = "build"
    BY KindsOfTask DEF SoleInv, Publish
  <2> QED
    BY <2>1 DEF OnlyOwner
<1>3. /\ t.head = heads[n] /\ Frontier(o) = t.head /\ Within(t.head)
      /\ TaskWithin(t.head, t)
  <2>1. t.head = heads[n] /\ Frontier(o) = heads[n]
    BY <1>2 DEF SoleInv, OwnerGood, Frontier, Newest, Publishes, Distributing
  <2> QED
    BY <1>1, <2>1 DEF SoleInv, Within
<1>4. PICK i \in 0 .. Len(t.head), entry \in Entry, S \in SUBSET Node :
        LET previous == RecordOf(t.head, i)
            new == Append(previous, entry)
        IN  /\ Prechecked(entry, previous, t.head)
            /\ store' = [m \in Node |->
                           IF m \in S THEN store[m] \cup {new} ELSE store[m]]
            /\ \/ Set(o, IdleTask)
               \/ /\ S \in Placements(n)
                  /\ \E P \in Lookups(n) : Set(o, Distribute(t, new, Closest(P \cup {n})))
            /\ UNCHANGED <<heads, updates, replies, returned>>
  BY <1>1, <1>2, PublishStep DEF SoleOwner
<1> DEFINE new == Append(t.head, entry)
<1>5. /\ entry.owned /\ entry.version > VersionOf(t.head)
      /\ store' = [m \in Node |-> IF m \in S THEN store[m] \cup {new} ELSE store[m]]
      /\ \/ Set(o, IdleTask)
         \/ /\ S \in Placements(n)
            /\ \E P \in Lookups(n) : Set(o, Distribute(t, new, Closest(P \cup {n})))
      /\ UNCHANGED <<heads, updates, replies>>
  BY <1>4 DEF Prechecked
<1>6. AckInv' /\ HeadsHoldHistory'
  BY AckStep, HeadsHoldStep DEF SoleInv, AckInv
<1>7. ASSUME NEW u, Set(o, u), u.op \in {"none", "publish"}, u.pc # "build"
      PROVE  /\ tasks'[o] = u
             /\ \A x \in Task : OnlyOwner(o, x, tasks'[x])
  BY <1>1, <1>7 DEF Set, SoleInv, OnlyOwner
<1>8. CASE Set(o, IdleTask)
  <2>1. /\ tasks'[o] = IdleTask /\ \A x \in Task : OnlyOwner(o, x, tasks'[x])
    BY <1>7, <1>8, IdlePublishesNothing
  <2>2. OwnerGood(o, IdleTask, heads', store') /\ Newest(o, IdleTask, heads') = heads[n]
    BY <1>5, IdlePublishesNothing DEF OwnerGood, Newest
  <2>3. PICK F \in History : F = t.head
    BY <1>1
  <2>4. TaskWithin(F, IdleTask)
    BY EmptyWithin
  <2>5. Within(F)'
    BY <1>1, <1>3, <1>5, <1>8, <2>3, <2>4, SetWithin DEF Within
  <2>6. Frontier(o)' = F
    BY <1>3, <2>1, <2>2, <2>3 DEF Frontier
  <2>7. Within(Frontier(o))'
    BY <2>5, <2>6 DEF Within
  <2> QED
    BY <1>6, <2>1, <2>2, <2>7 DEF SoleInv
<1>9. ASSUME S \in Placements(n), NEW P \in Lookups(n),
             Set(o, Distribute(t, new, Closest(P \cup {n})))
      PROVE  SoleInv(o)'
  <2> DEFINE u == Distribute(t, new, Closest(P \cup {n}))
  <2>1. /\ u.op = "publish" /\ u.pc = "send" /\ u.head = new /\ n \in u.todo
    <3>1. Closest(P \cup {n}) = P \cup {n}
      BY <1>1, AllAreClosest DEF Lookups
    <3> QED
      BY <1>1, <1>2, <3>1 DEF Distribute, TaskType
  <2>2. /\ new \in History /\ Extends(new, t.head)
    BY <1>1, AppendFacts DEF Extends
  <2>3. Within(new) /\ TaskWithin(new, t) /\ Extends(new, new)
    <3>1. Within(new)
      BY <1>1, <1>3, <2>2, WithinGrows
    <3> QED
      BY <1>1, <2>2, <3>1, ExtendsOrder DEF Within
  <2>4. TaskWithin(new, u)
    BY <1>1, <2>2, <2>3, DistributeWithin
  <2>5. \A k \in 1 .. Len(t.head) :
           SubSeq(t.head, 1, k) \in store[n] /\ Good(t.head, k)
    BY <1>1, <1>3 DEF SoleInv, HeadsHoldHistory
  <2>6. n \in S /\ store'[n] = store[n] \cup {new}
    BY <1>1, <1>5, <1>9, PublisherStores
  <2>7. ASSUME NEW k \in 1 .. Len(new)
        PROVE  RecordOf(new, k) \in store'[n] /\ Good(new, k)
    <3>1. Good(new, k)
      BY <1>1, <1>5, <2>5, AppendGood
    <3>2. /\ Len(new) = Len(t.head) + 1 /\ Len(t.head) \in Nat
          /\ RecordOf(new, Len(t.head) + 1) = new
          /\ \A j \in 1 .. Len(t.head) : RecordOf(new, j) = RecordOf(t.head, j)
      BY <1>1, AppendRecords DEF History
    <3>3. CASE k = Len(t.head) + 1
      BY <2>6, <3>1, <3>2, <3>3
    <3>4. CASE k # Len(t.head) + 1
      <4>1. k \in 1 .. Len(t.head)
        BY <3>2, <3>4
      <4> QED
        BY <2>5, <2>6, <3>1, <3>2, <4>1 DEF RecordOf
    <3> QED
      BY <3>3, <3>4
  <2>8. Set(o, u)
    BY <1>9
  <2>9. PICK F \in History : F = new
    BY <2>2
  <2> HIDE DEF u, new
  <2>10. /\ tasks'[o] = u /\ \A x \in Task : OnlyOwner(o, x, tasks'[x])
    BY <1>7, <2>1, <2>8
  <2>11. Publishes(u)
    BY <2>1 DEF Publishes, Distributing
  <2>12. OwnerGood(o, u, heads', store') /\ Newest(o, u, heads') = F
    BY <2>1, <2>7, <2>9, <2>11 DEF OwnerGood, Newest
  <2>13. Within(F)'
    BY <1>1, <1>5, <2>3, <2>4, <2>8, <2>9, SetWithin DEF Within
  <2>14. Frontier(o)' = F
    BY <2>10, <2>12 DEF Frontier
  <2>15. Within(Frontier(o))'
    BY <2>13, <2>14 DEF Within
  <2> QED
    BY <1>6, <2>10, <2>12, <2>15 DEF SoleInv
<1> QED
  BY <1>5, <1>8, <1>9

LEMMA SoleStep ==
  ASSUME NEW o \in Client, SoleOwner(o)
  PROVE  SoleInv(o) /\ [Next]_vars => SoleInv(o)'
<1> SUFFICES ASSUME SoleInv(o), [Next]_vars, \A d \in Client : ~Publish(d)
             PROVE  SoleInv(o)'
  BY PublishKeepsSole
<1>1. ASSUME NEW c \in Client, ClientStep(c)
      PROVE  SoleInv(o)'
  BY <1>1, LatestKeepsSole, DistributionKeepsSole, AnswerKeepsSole DEF ClientStep
<1>2. ASSUME NEW m \in Node, NEW n \in Node, CopyRecord(m, n)
      PROVE  SoleInv(o)'
  BY <1>2, SoleRests DEF CopyRecord
<1>3. CASE UNCHANGED vars
  BY <1>3, SoleRests DEF vars
<1> QED
  BY <1>1, <1>2, <1>3, WalkerKeepsSole, WorkerKeepsSole DEF Next

LEMMA SoleInit ==
  ASSUME NEW o \in Client, Init
  PROVE  SoleInv(o)
<1>1. /\ \A x \in Task : tasks[x] = IdleTask
      /\ \A n \in Node : heads[n] = << >> /\ store[n] = {}
      /\ updates = {} /\ replies = {}
  BY DEF Init
<1>2. AckInv /\ o \in Task /\ Home[o] \in Node
  BY AckInit, KindsOfTask, TaskFields DEF AckInv
<1>3. HeadsHoldHistory
  BY <1>1 DEF HeadsHoldHistory
<1>4. Frontier(o) = << >> /\ OwnerGood(o, tasks[o], heads, store)
  BY <1>1, <1>2, IdlePublishesNothing DEF Frontier, Newest, OwnerGood
<1>5. Within(<< >>)
  BY <1>1, EmptyHistory, EmptyWithin DEF Within
<1>6. \A x \in Task : OnlyOwner(o, x, tasks[x])
  BY <1>1, IdlePublishesNothing
<1> QED
  BY <1>2, <1>3, <1>4, <1>5, <1>6 DEF SoleInv

\* accept refuses a head that does not continue the present one (registry.go:153),
\* and Latest always includes the node's own head: an owner that publishes from one
\* goroutine, without Force and without cancelling, on a network that fits in K,
\* never forks its package.  The heads of all nodes are in one line, whatever is
\* lost, repeated or late, and however many nodes cannot be reached.
THEOREM SoleOwnerIsSafe ==
  ASSUME NEW o \in Client, SoleOwner(o)
  PROVE  Spec => []SoleOwnerNeverForks
<1>1. Init => SoleInv(o)
  BY SoleInit
<1>2. SoleInv(o) /\ [Next]_vars => SoleInv(o)'
  BY SoleStep
<1>3. SoleInv(o) => SoleOwnerNeverForks
  <2> SUFFICES ASSUME SoleInv(o), NEW m \in Node, NEW n \in Node
               PROVE  Extends(heads[m], heads[n]) \/ Extends(heads[n], heads[m])
    BY DEF SoleOwnerNeverForks
  <2>1. /\ heads[m] \in History /\ heads[n] \in History /\ Frontier(o) \in History
        /\ Extends(Frontier(o), heads[m]) /\ Extends(Frontier(o), heads[n])
    BY FrontierType DEF SoleInv, AckInv, TypeOK, Within
  <2> QED
    BY <2>1, ExtendsLine
<1> QED
  BY <1>1, <1>2, <1>3, PTL DEF Spec
=============================================================================
