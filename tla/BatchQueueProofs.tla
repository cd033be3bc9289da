-------------------------- MODULE BatchQueueProofs --------------------------
(***************************************************************************)
(* Theorems about BatchQueue, for any number of items, requests and        *)
(* dispatchers: its types, its dispatchers and pipelines, its table, and   *)
(* that it implements JobQueue.                                            *)
(***************************************************************************)
EXTENDS BatchQueue, FiniteSetTheorems, SequenceTheorems, WellFoundedInduction, TLAPS

LEMMA Numbers == MaxItems \in Nat /\ Ids \subseteq Nat /\ Prios \subseteq Int
<1>1. MaxItems \in Nat
  BY BoundsAssumption
<1>2. Prios \subseteq Int
  BY BoundsAssumption
<1> QED BY <1>1, <1>2 DEF Ids

LEMMA IdBounds == \A i \in Ids : i \in Nat /\ 1 <= i /\ i <= MaxItems
BY Numbers DEF Ids

LEMMA IdsFinite == IsFiniteSet(Ids) /\ Cardinality(Ids) = MaxItems
<1>1. MaxItems \in Int /\ MaxItems >= 1
  BY BoundsAssumption
<1> QED BY <1>1, FS_Interval DEF Ids

\* The largest id of a set of ids exists.
LEMMA MaxExists ==
    ASSUME NEW S \in SUBSET Ids, S # {}
    PROVE  \E m \in S : \A n \in S : n <= m
<1> DEFINE R == {ss \in Nat \X Nat : ss[1] < ss[2]}
           T == {k \in Nat : \E n \in S : k = MaxItems - n}
<1>1. MaxItems \in Nat /\ S \subseteq Nat /\ \A n \in S : MaxItems - n \in Nat
  BY BoundsAssumption DEF Ids
<1>2. T \subseteq Nat /\ T # {}
  BY <1>1
<1>3. IsWellFoundedOn(R, Nat)
  BY NatLessThanWellFounded DEF OpToRel
<1>4. \A k, l \in Nat : k < l => <<k, l>> \in R
  OBVIOUS
<1>5. \A n \in S : MaxItems - n \in T
  BY <1>1
<1>6. \A k \in T : \E n \in S : k = MaxItems - n
  OBVIOUS
<1> HIDE DEF R, T
<1>7. PICK x \in T : \A y \in T : ~ (<<y, x>> \in R)
  BY <1>2, <1>3, WFMin
<1>8. \A y \in T : x <= y
  <2> TAKE y \in T
  <2>1. x \in Nat /\ y \in Nat /\ ~ (y < x)
    BY <1>2, <1>4, <1>7
  <2> QED BY <2>1
<1>9. PICK m \in S : x = MaxItems - m
  BY <1>6
<1>10. \A n \in S : n <= m
  BY <1>1, <1>5, <1>8, <1>9
<1> QED BY <1>10

LEMMA MaxOfBounds ==
    ASSUME NEW S \in SUBSET Ids
    PROVE  MaxOf(S) \in 0..MaxItems /\ \A n \in S : n <= MaxOf(S)
<1>1. CASE S = {}
  BY <1>1, BoundsAssumption DEF MaxOf
<1>2. CASE S # {}
  <2>1. MaxOf(S) \in S /\ \A n \in S : n <= MaxOf(S)
    BY <1>2, MaxExists DEF MaxOf
  <2>2. MaxOf(S) \in Ids
    BY <2>1
  <2> QED BY <2>1, <2>2, Numbers DEF Ids
<1> QED BY <1>1, <1>2

\* What the sort of the dispatcher returns: at most n items of S, none twice.
LEMMA RankedIs ==
    ASSUME NEW S \in SUBSET Ids, NEW n \in 1..4, NEW s \in Ranked(S, n),
           item \in [Ids -> Item]
    PROVE  /\ s \in Seq(Ids) /\ Len(s) <= n
           /\ \A a \in 1..Len(s) : s[a] \in S
           /\ \A a, b \in 1..Len(s) : a # b => s[a] # s[b]
<1>1. IsFiniteSet(S) /\ Cardinality(S) \in Nat
  BY IdsFinite, FS_Subset, FS_CardinalityType
<1> DEFINE size == IF Cardinality(S) < n THEN Cardinality(S) ELSE n
<1>2. size \in Nat /\ size <= n
  BY <1>1
<1>3. s \in [1..size -> S] /\ \A a, b \in 1..size : a < b => Before(s[a], s[b])
  BY DEF Ranked
<1> HIDE DEF size
<1>4. s \in Seq(Ids) /\ Len(s) = size
  BY <1>2, <1>3
<1>5. \A i \in Ids : ~Before(i, i)
  <2> SUFFICES ASSUME NEW i \in Ids PROVE ~Before(i, i)
    OBVIOUS
  <2>1. item[i].prio \in Int /\ i \in Int
    <3>1. item[i].prio \in Prios
      BY DEF Item
    <3>2. item[i].prio \in Int
      BY <3>1, Numbers
    <3>3. i \in Int
      BY IdBounds
    <3> QED BY <3>2, <3>3
  <2>2. ~ (item[i].prio > item[i].prio) /\ ~ (i < i)
    BY <2>1
  <2>3. LeadDigit(i) \in Int
    BY <2>1 DEF LeadDigit
  <2> QED BY <2>2, <2>3 DEF Before, TextBefore
<1>6. \A a, b \in 1..size : a # b => a < b \/ b < a
  BY <1>2
<1>7. \A a, b \in 1..size : a # b => s[a] # s[b]
  BY <1>3, <1>5, <1>6
<1> QED BY <1>2, <1>3, <1>4, <1>7

-----------------------------------------------------------------------------
\* The type invariant.

USE DEF memory, threads, store, env

LEMMA UpsertType ==
    ASSUME TypeOK, NEW i \in Ids, NEW r \in Item, Upsert(i, r)
    PROVE  /\ rows' \in [Ids -> Item \cup {None}]
           /\ exposed' \subseteq Ids
           /\ budget' \in [Bounds -> Nat]
<1>1. CASE UNCHANGED budget
  BY <1>1 DEF TypeOK, Upsert
<1>2. CASE Spend("write")
  BY <1>2 DEF TypeOK, Upsert, Spend, Bounds
<1> QED BY <1>1, <1>2 DEF Upsert

LEMMA DeleteType ==
    ASSUME TypeOK, NEW S \in SUBSET Ids, Delete(S)
    PROVE  /\ rows' \in [Ids -> Item \cup {None}]
           /\ exposed' \subseteq Ids
           /\ budget' \in [Bounds -> Nat]
<1>1. CASE UNCHANGED budget
  BY <1>1 DEF TypeOK, Delete
<1>2. CASE Spend("write")
  BY <1>2 DEF TypeOK, Delete, Spend, Bounds
<1> QED BY <1>1, <1>2 DEF Delete

LEMMA SetItemType ==
    ASSUME TypeOK, NEW i \in Ids, NEW st \in Statuses, SetItem(i, st)
    PROVE  /\ item' \in [Ids -> Item]
           /\ rows' \in [Ids -> Item \cup {None}]
           /\ exposed' \subseteq Ids
           /\ budget' \in [Bounds -> Nat]
<1>1. CASE i \in queue
  <2>1. item' = [item EXCEPT ![i].status = st] /\ Upsert(i, item'[i])
    BY <1>1 DEF SetItem
  <2>2. item' \in [Ids -> Item] /\ item'[i] \in Item
    BY <2>1 DEF TypeOK, Item
  <2> QED BY <2>1, <2>2, UpsertType
<1>2. CASE i \notin queue
  BY <1>2 DEF SetItem, TypeOK
<1> QED BY <1>1, <1>2

LEMMA AnswerType ==
    ASSUME TypeOK, NEW c \in Threads
    PROVE  /\ [caller EXCEPT ![c] = Idle] \in [Threads -> Call]
           /\ \A r \in Call : [caller EXCEPT ![c] = r] \in [Threads -> Call]
<1>1. Idle \in Call
  BY DEF Idle, Call
<1> QED BY <1>1 DEF TypeOK

LEMMA GotoType ==
    ASSUME TypeOK, NEW d \in Dispatchers,
           NEW label \in {"off", "scan", "sort", "mark", "launch", "join", "finish"},
           Goto(d, label)
    PROVE  disp' \in [Dispatchers -> DispatcherState]
BY DEF TypeOK, Goto, DispatcherState

LEMMA RegisteredSize == Cardinality(Registered) \in 0..MaxItems
<1>1. IsFiniteSet(Ids) /\ Cardinality(Ids) = MaxItems
  BY IdsFinite
<1>2. Registered \in SUBSET Ids
  BY DEF Registered
<1>3. Cardinality(Registered) \in Nat /\ Cardinality(Registered) <= MaxItems
  BY <1>1, <1>2, FS_Subset, FS_CardinalityType
<1> QED BY <1>3, Numbers

LEMMA OffType == Off \in DispatcherState
<1>1. <<>> \in Seq(Ids)
  OBVIOUS
<1>2. {} \in SUBSET Ids /\ 1 \in Nat /\ 1 \in 1..4 /\ FALSE \in BOOLEAN
  OBVIOUS
<1> QED BY <1>1, <1>2 DEF Off, DispatcherState

LEMMA StartedType ==
    ASSUME NEW r \in DispatcherState, NEW n \in 1..4, NEW ins \in BOOLEAN
    PROVE  [r EXCEPT !.pc = "scan", !.par = n, !.install = ins] \in DispatcherState
BY DEF DispatcherState

LEMMA AdvanceType ==
    ASSUME NEW r \in DispatcherState, NEW label \in {"mark", "join"}, NEW k \in Nat
    PROVE  [r EXCEPT !.pc = label, !.pos = k] \in DispatcherState
BY DEF DispatcherState

LEMMA BlankType == Blank \in Item
BY BoundsAssumption, NamesAssumption DEF Blank, Item, Statuses

\* The requests of Callers and Starters, and those answered at once.
LEMMA RequestType ==
    ASSUME TypeOK,
           \/ \E p \in Paths, n \in AddPrios : Add(p, n)
           \/ \E i \in Ids, n \in Prios : Priority(i, n)
           \/ \E c \in Callers : Request(c) \/ Answer(c)
           \/ \E c \in Starters : StartRequest(c) \/ StartAnswer(c)
    PROVE  TypeOK'
<1>1. CASE \E p \in Paths, n \in AddPrios : Add(p, n)
  <2>1. PICK p \in Paths, n \in AddPrios : Add(p, n)
    BY <1>1
  <2> DEFINE r == [path |-> p, status |-> "pending", prio |-> n]
  <2>2. seq + 1 \in Ids
    BY <2>1, Numbers DEF Add, TypeOK, Ids
  <2>3. r \in Item
    BY BoundsAssumption DEF Item, Statuses
  <2>4. Upsert(seq + 1, r)
    BY <2>1 DEF Add
  <2>5. /\ rows' \in [Ids -> Item \cup {None}]
        /\ exposed' \subseteq Ids
        /\ budget' \in [Bounds -> Nat]
    BY <2>2, <2>3, <2>4, UpsertType
  <2>6. seq' \in 0..MaxItems /\ queue' \subseteq Ids /\ item' \in [Ids -> Item]
    BY <2>1, <2>2, <2>3, Numbers DEF Add, TypeOK
  <2> QED BY <2>1, <2>5, <2>6 DEF Add, TypeOK
<1>2. CASE \E i \in Ids, n \in Prios : Priority(i, n)
  <2>1. PICK i \in Ids, n \in Prios : Priority(i, n)
    BY <1>2
  <2>2. item' \in [Ids -> Item] /\ item'[i] \in Item
    BY <2>1 DEF Priority, TypeOK, Item
  <2>3. /\ rows' \in [Ids -> Item \cup {None}]
        /\ exposed' \subseteq Ids
        /\ budget' \in [Bounds -> Nat]
    BY <2>1, <2>2, UpsertType DEF Priority
  <2> QED BY <2>1, <2>2, <2>3 DEF Priority, TypeOK
<1>3. ASSUME NEW c \in Callers, Request(c) PROVE TypeOK'
  <2>0. c \in Threads
    BY DEF Threads
  <2>1. CASE \E i \in RemoveArgs : RemoveBegin(c, i)
    <3>1. PICK i \in Ids : RemoveBegin(c, i)
      BY <2>1, BoundsAssumption
    <3>2. [op |-> "remove", id |-> i] \in Call
      BY DEF Call
    <3> QED BY <2>0, <3>1, <3>2, AnswerType DEF RemoveBegin, Begin, TypeOK
  <2>2. CASE \E st \in ClearArgs : ClearBegin(c, st)
    <3>1. PICK st \in ClearArgs : ClearBegin(c, st)
      BY <2>2
    <3>2. [op |-> "clear", status |-> st] \in Call
      BY BoundsAssumption DEF Call
    <3> QED BY <2>0, <3>1, <3>2, AnswerType DEF ClearBegin, Begin, TypeOK
  <2>3. CASE \E t \in CancelArgs : CancelBegin(c, t)
    <3>1. PICK t \in CancelArgs : CancelBegin(c, t)
      BY <2>3
    <3>2. t \in Ids \cup {AllItems}
      BY BoundsAssumption
    <3>3. [op |-> "cancel", id |-> t, size |-> Cardinality(Registered)] \in Call
      BY <3>2, RegisteredSize DEF Call
    <3> QED BY <2>0, <3>1, <3>3, AnswerType DEF CancelBegin, Begin, TypeOK
  <2> QED BY <1>3, <2>1, <2>2, <2>3 DEF Request
<1>4. ASSUME NEW c \in Callers, Answer(c) PROVE TypeOK'
  <2>0. c \in Threads
    BY DEF Threads
  <2>1. CASE RemoveEnd(c)
    <3>1. caller[c].id \in Ids
      BY <2>0, <2>1 DEF RemoveEnd, TypeOK, Call
    <3>2. Delete({caller[c].id})
      BY <2>1 DEF RemoveEnd
    <3>3. /\ rows' \in [Ids -> Item \cup {None}]
          /\ exposed' \subseteq Ids
          /\ budget' \in [Bounds -> Nat]
      BY <3>1, <3>2, DeleteType
    <3> QED BY <2>0, <2>1, <3>3, AnswerType DEF RemoveEnd, End, TypeOK
  <2>2. CASE ClearEnd(c)
    <3>1. /\ rows' \in [Ids -> Item \cup {None}]
          /\ exposed' \subseteq Ids
          /\ budget' \in [Bounds -> Nat]
      BY <2>2, DeleteType DEF ClearEnd
    <3> QED BY <2>0, <2>2, <3>1, AnswerType DEF ClearEnd, End, TypeOK
  <2>3. CASE CancelEnd(c)
    <3>1. \A i \in CancelTargets(c) : i \in Ids /\ active[i] \in Dispatchers
      BY DEF CancelTargets, Registered, TypeOK
    <3>2. cancelled' \subseteq Dispatchers \X Ids
      BY <2>3, <3>1 DEF CancelEnd, TypeOK
    <3> QED BY <2>0, <2>3, <3>2, AnswerType DEF CancelEnd, End, TypeOK
  <2> QED BY <1>4, <2>1, <2>2, <2>3 DEF Answer
<1>5. ASSUME NEW c \in Starters, StartRequest(c) PROVE TypeOK'
  <2>0. c \in Threads
    BY DEF Threads
  <2>1. PICK n \in Parallels, ins \in Installs : StartBegin(c, n, ins)
    BY <1>5 DEF StartRequest
  <2>2. n \in 1..4 /\ ins \in BOOLEAN
    BY BoundsAssumption
  <2>3. [op |-> "check", par |-> IF ins THEN 1 ELSE n, install |-> ins] \in Call
    BY <2>2 DEF Call
  <2> QED BY <2>0, <2>1, <2>3, AnswerType DEF StartBegin, Begin, TypeOK
<1>6. ASSUME NEW c \in Starters, StartAnswer(c) PROVE TypeOK'
  <2>0. c \in Threads
    BY DEF Threads
  <2>1. CASE StartCheck(c)
    <3>1. [caller[c] EXCEPT !.op = "set"] \in Call
      BY <2>0, <2>1 DEF StartCheck, TypeOK, Call
    <3>2. caller' \in [Threads -> Call]
      BY <2>0, <2>1, <3>1, AnswerType DEF StartCheck, End
    <3> QED BY <2>1, <3>2 DEF StartCheck, TypeOK
  <2>2. ASSUME NEW d \in Dispatchers, StartSet(c, d) PROVE TypeOK'
    <3>1. caller[c].par \in 1..4 /\ caller[c].install \in BOOLEAN
      BY <2>0, <2>2 DEF StartSet, TypeOK, Call
    <3>2. [Off EXCEPT !.pc = "scan", !.par = caller[c].par, !.install = caller[c].install]
             \in DispatcherState
      BY <3>1, OffType, StartedType
    <3>3. disp' \in [Dispatchers -> DispatcherState]
      BY <2>2, <3>2 DEF StartSet, TypeOK
    <3> QED BY <2>0, <2>2, <3>3, AnswerType DEF StartSet, End, TypeOK
  <2> QED BY <1>6, <2>1, <2>2 DEF StartAnswer
<1> QED BY <1>1, <1>2, <1>3, <1>4, <1>5, <1>6

\* The dispatcher threads.  The item they are at is one of the batch: a batch
\* taken from a scan that found something has an item.
PosOk(d) ==
    /\ disp[d].pos >= 1
    /\ disp[d].pc = "sort" => disp[d].snap # {}
    /\ disp[d].pc \in {"mark", "launch"} => disp[d].pos <= Len(disp[d].batch)

LEMMA DispatchType ==
    ASSUME TypeOK, NEW d \in Dispatchers, PosOk(d), Dispatch(d)
    PROVE  TypeOK'
<1>0. disp[d] \in DispatcherState
  BY DEF TypeOK
<1>1. CASE Scan(d)
  <2> DEFINE pending == {i \in queue : item[i].status = "pending"}
             pc == IF pending = {} THEN "finish" ELSE "sort"
  <2>1. pending \in SUBSET Ids /\ pc \in {"finish", "sort"}
    BY DEF TypeOK
  <2>2. disp' = [disp EXCEPT ![d] = [disp[d] EXCEPT !.pc = pc, !.snap = pending]]
    BY <1>1 DEF Scan, TypeOK
  <2> HIDE DEF pending, pc
  <2>3. [disp[d] EXCEPT !.pc = pc, !.snap = pending] \in DispatcherState
    BY <1>0, <2>1 DEF DispatcherState
  <2>4. disp' \in [Dispatchers -> DispatcherState]
    BY <2>2, <2>3 DEF TypeOK
  <2> QED BY <1>1, <2>4 DEF Scan, TypeOK
<1>2. CASE SortBatch(d)
  <2>1. PICK s \in Ranked(disp[d].snap, disp[d].par) :
          disp' = [disp EXCEPT ![d].pc = "mark", ![d].batch = s, ![d].pos = 1, ![d].snap = {}]
    BY <1>2 DEF SortBatch
  <2>2. s \in Seq(Ids)
    BY <1>0, RankedIs DEF DispatcherState, TypeOK
  <2>3. disp' = [disp EXCEPT ![d] =
                    [disp[d] EXCEPT !.pc = "mark", !.batch = s, !.pos = 1, !.snap = {}]]
    BY <2>1 DEF TypeOK
  <2>4. [disp[d] EXCEPT !.pc = "mark", !.batch = s, !.pos = 1, !.snap = {}] \in DispatcherState
    BY <1>0, <2>2 DEF DispatcherState
  <2>5. disp' \in [Dispatchers -> DispatcherState]
    BY <2>3, <2>4 DEF TypeOK
  <2> QED BY <1>2, <2>5 DEF SortBatch, TypeOK
<1>3. CASE Mark(d)
  <2>1. disp' \in [Dispatchers -> DispatcherState]
    BY <1>3, GotoType DEF Mark
  <2>2. CASE Current(d) \in Ids
    <3>1. /\ item' \in [Ids -> Item]
          /\ rows' \in [Ids -> Item \cup {None}]
          /\ exposed' \subseteq Ids
          /\ budget' \in [Bounds -> Nat]
      BY <1>3, <2>2, SetItemType DEF Mark, Statuses
    <3> QED BY <1>3, <2>1, <3>1 DEF Mark, TypeOK
  <2>3. CASE Current(d) \notin Ids
    <3>1. Current(d) \notin queue
      BY <2>3 DEF TypeOK
    <3>2. UNCHANGED <<item, store, budget>>
      BY <1>3, <3>1 DEF Mark, SetItem
    <3> QED BY <1>3, <2>1, <3>2 DEF Mark, TypeOK
  <2> QED BY <2>2, <2>3
<1>4. CASE Launch(d)
  <2> DEFINE pc == IF disp[d].pos < Len(disp[d].batch) THEN "mark" ELSE "join"
  <2>1. active' \in [Ids -> Dispatchers \cup {None}]
    BY <1>4 DEF Launch, TypeOK
  <2>2. worker' \in [Dispatchers -> [Ids -> WorkerState]]
    <3>1. worker[d] \in [Ids -> WorkerState] /\ "run" \in WorkerState
      BY DEF TypeOK, WorkerState
    <3>2. [worker[d] EXCEPT ![Current(d)] = "run"] \in [Ids -> WorkerState]
      BY <3>1
    <3>3. worker' = [worker EXCEPT ![d] = [worker[d] EXCEPT ![Current(d)] = "run"]]
      BY <1>4 DEF Launch
    <3> QED BY <3>2, <3>3 DEF TypeOK
  <2>3. disp' \in [Dispatchers -> DispatcherState]
    <3>1. pc \in {"mark", "join"}
      OBVIOUS
    <3>2. disp' = [disp EXCEPT ![d] = [disp[d] EXCEPT !.pc = pc, !.pos = disp[d].pos + 1]]
      BY <1>4 DEF Launch, TypeOK
    <3> HIDE DEF pc
    <3>3. [disp[d] EXCEPT !.pc = pc, !.pos = disp[d].pos + 1] \in DispatcherState
      <4>1. disp[d].pos + 1 \in Nat
        BY <1>0 DEF DispatcherState
      <4> QED BY <1>0, <3>1, <4>1, AdvanceType
    <3> QED BY <3>2, <3>3 DEF TypeOK
  <2> QED BY <1>4, <2>1, <2>2, <2>3 DEF Launch, TypeOK
<1>5. CASE LaunchFails(d)
  <2>1. disp' \in [Dispatchers -> DispatcherState]
    BY <1>5, GotoType DEF LaunchFails
  <2>2. active' \in [Ids -> Dispatchers \cup {None}]
    BY <1>5 DEF LaunchFails, TypeOK
  <2>3. budget' \in [Bounds -> Nat]
    BY <1>5 DEF LaunchFails, Spend, TypeOK, Bounds
  <2>4. stranded' \subseteq Ids
    <3>1. Current(d) \in Ids
      <4>1. disp[d].batch \in Seq(Ids) /\ disp[d].pos \in 1..Len(disp[d].batch)
        BY <1>0, <1>5 DEF LaunchFails, PosOk, DispatcherState
      <4> QED BY <4>1 DEF Current
    <3> QED BY <1>5, <3>1 DEF LaunchFails, TypeOK
  <2> QED BY <1>5, <2>1, <2>2, <2>3, <2>4 DEF LaunchFails, TypeOK
<1>6. CASE Join(d)
  <2>1. disp' = [disp EXCEPT ![d] = [disp[d] EXCEPT !.pc = "scan", !.batch = <<>>, !.pos = 1]]
    BY <1>6 DEF Join, TypeOK
  <2>2. [disp[d] EXCEPT !.pc = "scan", !.batch = <<>>, !.pos = 1] \in DispatcherState
    <3>1. <<>> \in Seq(Ids)
      OBVIOUS
    <3> QED BY <1>0, <3>1 DEF DispatcherState
  <2>3. disp' \in [Dispatchers -> DispatcherState]
    BY <2>1, <2>2 DEF TypeOK
  <2> QED BY <1>6, <2>3 DEF Join, TypeOK
<1>7. CASE Finish(d)
  <2>1. disp' \in [Dispatchers -> DispatcherState]
    BY <1>7, OffType DEF Finish, TypeOK
  <2> QED BY <1>7, <2>1 DEF Finish, TypeOK
<1> QED BY <1>1, <1>2, <1>3, <1>4, <1>5, <1>6, <1>7 DEF Dispatch

\* Their pipeline threads, and the world around.
LEMMA WorkType ==
    ASSUME TypeOK, NEW d \in Dispatchers, NEW i \in Ids, Work(d, i)
    PROVE  TypeOK'
<1>0. worker[d] \in [Ids -> WorkerState] /\ worker[d][i] \in WorkerState
  BY DEF TypeOK
<1>1. CASE \E r \in {"done", "error"} : Pop(d, i, r)
  <2>1. PICK r \in {"done", "error"} : Pop(d, i, r)
    BY <1>1
  <2>2. [worker[d] EXCEPT ![i] = r] \in [Ids -> WorkerState]
    BY <1>0 DEF WorkerState
  <2>3. worker' \in [Dispatchers -> [Ids -> WorkerState]]
    BY <2>1, <2>2 DEF Pop, TypeOK
  <2>4. active' \in [Ids -> Dispatchers \cup {None}]
    BY <2>1 DEF Pop, TypeOK
  <2> QED BY <2>1, <2>3, <2>4 DEF Pop, TypeOK
<1>2. CASE Settle(d, i)
  <2>1. worker[d][i] \in Statuses
    BY <1>2 DEF Settle, Statuses
  <2>2. /\ item' \in [Ids -> Item]
        /\ rows' \in [Ids -> Item \cup {None}]
        /\ exposed' \subseteq Ids
        /\ budget' \in [Bounds -> Nat]
    BY <1>2, <2>1, SetItemType DEF Settle
  <2>3. [worker[d] EXCEPT ![i] = "none"] \in [Ids -> WorkerState]
    BY <1>0 DEF WorkerState
  <2>4. worker' \in [Dispatchers -> [Ids -> WorkerState]]
    BY <1>2, <2>3 DEF Settle, TypeOK
  <2>5. cancelled' \subseteq Dispatchers \X Ids
    BY <1>2 DEF Settle, TypeOK
  <2> QED BY <1>2, <2>2, <2>4, <2>5 DEF Settle, TypeOK
<1>3. CASE StartInstall(d, i)
  <2>1. [worker[d] EXCEPT ![i] = "install"] \in [Ids -> WorkerState]
    BY <1>0 DEF WorkerState
  <2>2. worker' \in [Dispatchers -> [Ids -> WorkerState]]
    BY <1>3, <2>1 DEF StartInstall, TypeOK
  <2> QED BY <1>3, <2>2 DEF StartInstall, TypeOK
<1> QED BY <1>1, <1>2, <1>3 DEF Work

LEMMA BootTypes ==
    /\ [i \in Ids |-> None] \in [Ids -> Dispatchers \cup {None}]
    /\ [c \in Threads |-> Idle] \in [Threads -> Call]
    /\ [d \in Dispatchers |-> Off] \in [Dispatchers -> DispatcherState]
    /\ [d \in Dispatchers |-> [i \in Ids |-> "none"]]
          \in [Dispatchers -> [Ids -> WorkerState]]
<1>1. Idle \in Call
  BY DEF Idle, Call
<1>2. [i \in Ids |-> "none"] \in [Ids -> WorkerState]
  BY DEF WorkerState
<1> QED BY <1>1, <1>2, OffType

LEMMA EnvironmentType ==
    ASSUME TypeOK, Environment
    PROVE  TypeOK'
<1>1. CASE Restart
  <2>1. {i \in Ids : Restorable(i)} \in SUBSET Ids
    OBVIOUS
  <2>2. seq' \in 0..MaxItems
    BY <1>1, <2>1, MaxOfBounds DEF Restart
  <2>3. \A i \in Ids : Restorable(i) => [rows[i] EXCEPT !.status = "pending"] \in Item
    <3> SUFFICES ASSUME NEW i \in Ids, Restorable(i)
                 PROVE  [rows[i] EXCEPT !.status = "pending"] \in Item
      OBVIOUS
    <3>1. rows[i] \in Item
      BY DEF Restorable, TypeOK
    <3> QED BY <3>1 DEF Item, Statuses
  <2>4. item' \in [Ids -> Item]
    BY <1>1, <2>3, BlankType DEF Restart
  <2>5. budget' \in [Bounds -> Nat]
    BY <1>1 DEF Restart, TypeOK, Bounds
  <2> QED BY <1>1, <2>1, <2>2, <2>4, <2>5, BootTypes DEF Restart, TypeOK
<1>2. CASE \E p \in Paths : Vanish(p)
  <2>1. PICK p \in Paths : Vanish(p)
    BY <1>2
  <2>2. budget' \in [Bounds -> Nat]
    BY <2>1 DEF Vanish, TypeOK, Bounds
  <2> QED BY <2>1, <2>2 DEF Vanish, TypeOK
<1> QED BY <1>1, <1>2 DEF Environment

LEMMA InitType == Init => TypeOK
<1> SUFFICES ASSUME Init PROVE TypeOK
  OBVIOUS
<1>1. item \in [Ids -> Item]
  BY BlankType DEF Init
<1>2. seq \in 0..MaxItems
  BY Numbers DEF Init
<1>3. budget \in [Bounds -> Nat]
  BY BoundsAssumption DEF Init, Bounds
<1>4. rows \in [Ids -> Item \cup {None}]
  BY DEF Init
<1> QED BY <1>1, <1>2, <1>3, <1>4, BootTypes DEF Init, TypeOK

-----------------------------------------------------------------------------
\* What each step of a dispatcher does to its own state.

OthersKeep(d) == \A e \in Dispatchers : e # d => disp'[e] = disp[e]

LEMMA ScanDoes ==
    ASSUME TypeOK, NEW d \in Dispatchers, Scan(d)
    PROVE  /\ OthersKeep(d)
           /\ disp[d].pc = "scan" /\ disp'[d].pc \in {"finish", "sort"}
           /\ disp'[d].pc = "sort" => disp'[d].snap # {}
           /\ disp'[d].snap = {i \in queue : item[i].status = "pending"}
           /\ disp'[d].batch = disp[d].batch /\ disp'[d].pos = disp[d].pos
           /\ disp'[d].par = disp[d].par /\ disp'[d].install = disp[d].install
<1> DEFINE pending == {i \in queue : item[i].status = "pending"}
           pc == IF pending = {} THEN "finish" ELSE "sort"
<1>1. disp' = [disp EXCEPT ![d] = [disp[d] EXCEPT !.pc = pc, !.snap = pending]]
  BY DEF Scan, TypeOK
<1>2. disp[d] \in DispatcherState /\ disp \in [Dispatchers -> DispatcherState]
  BY DEF TypeOK
<1>3. disp[d].pc = "scan"
  BY DEF Scan
<1>4. pc \in {"finish", "sort"} /\ (pc = "sort" => pending # {})
  OBVIOUS
<1> HIDE DEF pending, pc
<1>5. /\ OthersKeep(d)
      /\ disp'[d] = [disp[d] EXCEPT !.pc = pc, !.snap = pending]
  BY <1>1, <1>2 DEF OthersKeep
<1>6. /\ disp'[d].pc = pc /\ disp'[d].snap = pending
      /\ disp'[d].batch = disp[d].batch /\ disp'[d].pos = disp[d].pos
      /\ disp'[d].par = disp[d].par /\ disp'[d].install = disp[d].install
  BY <1>2, <1>5 DEF DispatcherState
<1> QED BY <1>3, <1>4, <1>5, <1>6 DEF pending

LEMMA SortBatchDoes ==
    ASSUME TypeOK, NEW d \in Dispatchers, SortBatch(d)
    PROVE  /\ OthersKeep(d)
           /\ disp[d].pc = "sort" /\ disp'[d].pc = "mark"
           /\ disp'[d].snap = {} /\ disp'[d].pos = 1
           /\ disp'[d].batch \in Ranked(disp[d].snap, disp[d].par)
           /\ disp'[d].par = disp[d].par /\ disp'[d].install = disp[d].install
<1>1. PICK s \in Ranked(disp[d].snap, disp[d].par) :
        disp' = [disp EXCEPT ![d].pc = "mark", ![d].batch = s, ![d].pos = 1, ![d].snap = {}]
  BY DEF SortBatch
<1>2. disp[d] \in DispatcherState /\ disp \in [Dispatchers -> DispatcherState]
  BY DEF TypeOK
<1>3. disp' = [disp EXCEPT ![d] =
                  [disp[d] EXCEPT !.pc = "mark", !.batch = s, !.pos = 1, !.snap = {}]]
  BY <1>1 DEF TypeOK
<1>4. /\ OthersKeep(d)
      /\ disp'[d] = [disp[d] EXCEPT !.pc = "mark", !.batch = s, !.pos = 1, !.snap = {}]
  BY <1>2, <1>3 DEF OthersKeep
<1>5. /\ disp'[d].pc = "mark" /\ disp'[d].batch = s /\ disp'[d].pos = 1
      /\ disp'[d].snap = {} /\ disp'[d].par = disp[d].par
      /\ disp'[d].install = disp[d].install
  BY <1>2, <1>4 DEF DispatcherState
<1> QED BY <1>1, <1>4, <1>5 DEF SortBatch

LEMMA GotoDoes ==
    ASSUME TypeOK, NEW d \in Dispatchers, NEW label, Goto(d, label)
    PROVE  /\ OthersKeep(d)
           /\ disp'[d].pc = label /\ disp'[d].snap = disp[d].snap
           /\ disp'[d].batch = disp[d].batch /\ disp'[d].pos = disp[d].pos
           /\ disp'[d].par = disp[d].par /\ disp'[d].install = disp[d].install
<1>1. disp[d] \in DispatcherState /\ disp \in [Dispatchers -> DispatcherState]
  BY DEF TypeOK
<1>2. disp'[d] = [disp[d] EXCEPT !.pc = label] /\ OthersKeep(d)
  BY <1>1 DEF Goto, OthersKeep
<1> QED BY <1>1, <1>2 DEF DispatcherState

LEMMA LaunchDoes ==
    ASSUME TypeOK, NEW d \in Dispatchers, Launch(d)
    PROVE  /\ OthersKeep(d)
           /\ disp[d].pc = "launch"
           /\ disp'[d].pc = IF disp[d].pos < Len(disp[d].batch) THEN "mark" ELSE "join"
           /\ disp'[d].pos = disp[d].pos + 1
           /\ disp'[d].snap = disp[d].snap /\ disp'[d].batch = disp[d].batch
           /\ disp'[d].par = disp[d].par /\ disp'[d].install = disp[d].install
<1> DEFINE pc == IF disp[d].pos < Len(disp[d].batch) THEN "mark" ELSE "join"
<1>1. disp[d] \in DispatcherState /\ disp \in [Dispatchers -> DispatcherState]
  BY DEF TypeOK
<1>2. disp' = [disp EXCEPT ![d] = [disp[d] EXCEPT !.pc = pc, !.pos = disp[d].pos + 1]]
  BY DEF Launch, TypeOK
<1> DEFINE next == disp[d].pos + 1
<1> HIDE DEF pc, next
<1>3. disp' = [disp EXCEPT ![d] = [disp[d] EXCEPT !.pc = pc, !.pos = next]]
  BY <1>2 DEF next
<1>4. OthersKeep(d) /\ disp'[d] = [disp[d] EXCEPT !.pc = pc, !.pos = next]
  BY <1>1, <1>3 DEF OthersKeep
<1>5. /\ disp'[d].pc = pc /\ disp'[d].pos = next
      /\ disp'[d].snap = disp[d].snap /\ disp'[d].batch = disp[d].batch
      /\ disp'[d].par = disp[d].par /\ disp'[d].install = disp[d].install
  BY <1>1, <1>4 DEF DispatcherState
<1>6. disp[d].pc = "launch"
  BY DEF Launch
<1> QED BY <1>4, <1>5, <1>6 DEF pc, next

LEMMA JoinDoes ==
    ASSUME TypeOK, NEW d \in Dispatchers, Join(d)
    PROVE  /\ OthersKeep(d)
           /\ disp[d].pc = "join" /\ disp'[d].pc = "scan"
           /\ disp'[d].batch = <<>> /\ disp'[d].pos = 1 /\ disp'[d].snap = disp[d].snap
           /\ disp'[d].par = disp[d].par /\ disp'[d].install = disp[d].install
<1>1. disp[d] \in DispatcherState /\ disp \in [Dispatchers -> DispatcherState]
  BY DEF TypeOK
<1>2. /\ OthersKeep(d)
      /\ disp'[d] = [disp[d] EXCEPT !.pc = "scan", !.batch = <<>>, !.pos = 1]
  BY <1>1 DEF Join, OthersKeep
<1>3. disp[d].pc = "join"
  BY DEF Join
<1> QED BY <1>1, <1>2, <1>3 DEF DispatcherState

LEMMA FinishDoes ==
    ASSUME TypeOK, NEW d \in Dispatchers, Finish(d)
    PROVE  OthersKeep(d) /\ disp[d].pc = "finish" /\ disp'[d] = Off
BY DEF Finish, TypeOK, OthersKeep

LEMMA StartSetDoes ==
    ASSUME TypeOK, NEW c \in Starters, NEW d \in Dispatchers, StartSet(c, d)
    PROVE  /\ OthersKeep(d)
           /\ disp[d] = Off /\ disp'[d].pc = "scan"
           /\ disp'[d].batch = <<>> /\ disp'[d].pos = 1 /\ disp'[d].snap = {}
           /\ disp'[d].par = caller[c].par /\ disp'[d].install = caller[c].install
<1> DEFINE n == caller[c].par
           ins == caller[c].install
<1>1. disp = [disp EXCEPT ![d] = Off] /\ disp[d] = Off
  BY DEF StartSet, TypeOK
<1>2. disp' = [disp EXCEPT ![d] = [Off EXCEPT !.pc = "scan", !.par = n, !.install = ins]]
  BY DEF StartSet
<1> HIDE DEF n, ins
<1>3. /\ OthersKeep(d)
      /\ disp'[d] = [disp[d] EXCEPT !.pc = "scan", !.par = n, !.install = ins]
  BY <1>1, <1>2 DEF TypeOK, OthersKeep
<1>4. disp[d] \in DispatcherState
  BY DEF TypeOK
<1>5. /\ disp'[d].pc = "scan" /\ disp'[d].par = n /\ disp'[d].install = ins
      /\ disp'[d].batch = disp[d].batch /\ disp'[d].pos = disp[d].pos
      /\ disp'[d].snap = disp[d].snap
  BY <1>3, <1>4 DEF DispatcherState
<1>6. disp[d].batch = <<>> /\ disp[d].pos = 1 /\ disp[d].snap = {}
  BY <1>1 DEF Off
<1> QED BY <1>1, <1>3, <1>5, <1>6 DEF n, ins

\* The steps that do not touch the dispatchers.
Elsewhere ==
    \/ \E p \in Paths, n \in AddPrios : Add(p, n)
    \/ \E i \in Ids, n \in Prios : Priority(i, n)
    \/ \E c \in Callers : Request(c) \/ Answer(c)
    \/ \E c \in Starters : StartRequest(c) \/ StartCheck(c)
    \/ \E p \in Paths : Vanish(p)

LEMMA ElsewhereKeeps == Elsewhere => UNCHANGED <<disp, worker, active, flag>>
BY DEF Elsewhere, Add, Priority, Request, Answer, RemoveBegin, RemoveEnd, ClearBegin,
       ClearEnd, CancelBegin, CancelEnd, StartRequest, StartBegin, StartCheck, Vanish

LEMMA Steps ==
    Next <=>
        \/ Elsewhere
        \/ \E c \in Starters, d \in Dispatchers : StartSet(c, d)
        \/ \E d \in Dispatchers : Dispatch(d)
        \/ \E d \in Dispatchers, i \in Ids : Work(d, i)
        \/ Restart
BY DEF Next, Elsewhere, StartAnswer, Environment

-----------------------------------------------------------------------------
\* A dispatcher is always at an item of its batch, and the type invariant.

PosInv == \A d \in Dispatchers : PosOk(d)

LEMMA RankedNonempty ==
    ASSUME NEW S \in SUBSET Ids, S # {}, NEW n \in 1..4, NEW s \in Ranked(S, n)
    PROVE  1 <= Len(s)
<1>1. IsFiniteSet(S)
  BY IdsFinite, FS_Subset
<1>2. Cardinality(S) \in Nat /\ Cardinality(S) # 0
  BY <1>1, FS_CardinalityType, FS_EmptySet
<1> DEFINE size == IF Cardinality(S) < n THEN Cardinality(S) ELSE n
<1>3. size \in Nat /\ 1 <= size
  BY <1>2
<1>4. s \in [1..size -> S]
  BY DEF Ranked
<1> HIDE DEF size
<1> QED BY <1>3, <1>4

LEMMA OffPos == ASSUME NEW d \in Dispatchers, disp'[d] = Off PROVE PosOk(d)'
BY DEF PosOk, Off

LEMMA PosNext ==
    ASSUME TypeOK, PosInv, Next
    PROVE  PosInv'
<1>0. ASSUME NEW d \in Dispatchers, OthersKeep(d), PosOk(d)' PROVE PosInv'
  <2>1. \A e \in Dispatchers : e # d => PosOk(e)'
    BY <1>0 DEF OthersKeep, PosInv, PosOk
  <2> QED BY <1>0, <2>1 DEF PosInv
<1>1. CASE Elsewhere
  BY <1>1, ElsewhereKeeps DEF PosInv, PosOk
<1>2. ASSUME NEW c \in Starters, NEW d \in Dispatchers, StartSet(c, d) PROVE PosInv'
  BY <1>0, <1>2, StartSetDoes DEF PosOk
<1>3. ASSUME NEW d \in Dispatchers, Dispatch(d) PROVE PosInv'
  <2>0. disp[d] \in DispatcherState /\ PosOk(d)
    BY DEF TypeOK, PosInv
  <2>1. CASE Scan(d)
    <3>1. PosOk(d)'
      BY <2>0, <2>1, ScanDoes DEF PosOk
    <3> QED BY <1>0, <2>1, <3>1, ScanDoes
  <2>2. CASE SortBatch(d)
    <3>1. disp[d].snap \in SUBSET Ids /\ disp[d].snap # {} /\ disp[d].par \in 1..4
      BY <2>0, <2>2, SortBatchDoes DEF DispatcherState, PosOk
    <3>2. 1 <= Len(disp'[d].batch)
      BY <2>2, <3>1, SortBatchDoes, RankedNonempty
    <3>3. PosOk(d)'
      BY <2>2, <3>2, SortBatchDoes DEF PosOk
    <3> QED BY <1>0, <2>2, <3>3, SortBatchDoes
  <2>3. CASE Mark(d)
    <3>1. disp[d].pc = "mark" /\ Goto(d, "launch")
      BY <2>3 DEF Mark
    <3>2. PosOk(d)'
      BY <2>0, <3>1, GotoDoes DEF PosOk
    <3> QED BY <1>0, <3>1, <3>2, GotoDoes
  <2>4. CASE Launch(d)
    <3>1. disp[d].pos \in Nat /\ Len(disp[d].batch) \in Nat
      BY <2>0 DEF DispatcherState
    <3>2. PosOk(d)'
      BY <2>0, <2>4, <3>1, LaunchDoes DEF PosOk
    <3> QED BY <1>0, <2>4, <3>2, LaunchDoes
  <2>5. CASE LaunchFails(d)
    <3>1. Goto(d, "finish")
      BY <2>5 DEF LaunchFails
    <3>2. PosOk(d)'
      BY <2>0, <3>1, GotoDoes DEF PosOk
    <3> QED BY <1>0, <3>1, <3>2, GotoDoes
  <2>6. CASE Join(d)
    <3>1. PosOk(d)'
      BY <2>6, JoinDoes DEF PosOk
    <3> QED BY <1>0, <2>6, <3>1, JoinDoes
  <2>7. CASE Finish(d)
    BY <1>0, <2>7, FinishDoes, OffPos
  <2> QED BY <1>3, <2>1, <2>2, <2>3, <2>4, <2>5, <2>6, <2>7 DEF Dispatch
<1>4. ASSUME NEW d \in Dispatchers, NEW i \in Ids, Work(d, i) PROVE PosInv'
  <2>1. disp' = disp
    BY <1>4 DEF Work, StartInstall, Pop, Settle
  <2> QED BY <2>1 DEF PosInv, PosOk
<1>5. CASE Restart
  BY <1>5, OffPos DEF Restart, PosInv
<1> QED BY <1>1, <1>2, <1>3, <1>4, <1>5, Steps

LEMMA TypeNext ==
    ASSUME TypeOK, PosInv, Next
    PROVE  TypeOK'
<1>1. ASSUME NEW d \in Dispatchers, Dispatch(d) PROVE TypeOK'
  BY <1>1, DispatchType DEF PosInv
<1> QED BY <1>1, RequestType, WorkType, EnvironmentType DEF Next

LEMMA InitPos == Init => PosInv
BY DEF Init, PosInv, PosOk, Off

LEMMA StutterType == ASSUME TypeOK, PosInv, UNCHANGED vars PROVE (TypeOK /\ PosInv)'
BY DEF vars, TypeOK, PosInv, PosOk

\* Whatever the threads do, the queue, its table and its threads have the types
\* TypeOK gives them, and a dispatcher in mid-batch is at an item of the batch:
\* batch[pos] is defined wherever _queue_dispatch uses it.
THEOREM TypeCorrect == Spec => [](TypeOK /\ PosInv)
<1>1. Init => TypeOK /\ PosInv
  BY InitType, InitPos
<1>2. (TypeOK /\ PosInv) /\ [Next]_vars => (TypeOK /\ PosInv)'
  BY TypeNext, PosNext, StutterType
<1> QED BY <1>1, <1>2, PTL DEF Spec

-----------------------------------------------------------------------------
\* The dispatchers, when at most one queue.start is served at a time: the
\* hypothesis under which _queue_running, read and set without the lock, keeps
\* a second dispatcher out.

OneStarter == \A b, c \in Starters : b = c

On(d) == disp[d].pc # "off"

\* what dispatcher d has taken and not launched yet
Ahead(d) == disp[d].snap \cup
            {disp[d].batch[k] : k \in disp[d].pos .. Len(disp[d].batch)}

\* an id that no scan will pick up as pending
Taken(i) == i <= seq /\ (i \in queue => item[i].status # "pending")

OneOn     == \A d, e \in Dispatchers : On(d) /\ On(e) => d = e
OnIsFlag  == \A d \in Dispatchers : On(d) => flag
StartFree == \A c \in Starters : caller[c].op = "set" => ~flag
StartPar  == \A c \in Starters :
                caller[c].op \in {"check", "set"} /\ caller[c].install => caller[c].par = 1
OffIsOff  == \A d \in Dispatchers : ~On(d) => disp[d] = Off
QueueOld  == \A i \in queue : i <= seq

BatchOk(d) ==
    LET b == disp[d].batch IN
    /\ disp[d].pos <= Len(b) + 1
    /\ Len(b) <= disp[d].par
    /\ disp[d].install => disp[d].par = 1
    /\ \A m, n \in 1..Len(b) : m # n => b[m] # b[n]
    /\ disp[d].pc # "sort" => disp[d].snap = {}
    /\ disp[d].pc \in {"scan", "sort"} => \A i \in Ids : worker[d][i] = "none"

AheadFree(d) ==
    \A i \in Ahead(d) : i <= seq /\ \A e \in Dispatchers : worker[e][i] = "none"

Behind(d) ==
    \A i \in Ids : worker[d][i] # "none" =>
        \E k \in 1..Len(disp[d].batch) : k < disp[d].pos /\ disp[d].batch[k] = i

LaunchTaken(d) == disp[d].pc = "launch" => Taken(Current(d))

WorkedTaken == \A d \in Dispatchers, i \in Ids : worker[d][i] # "none" => Taken(i)

DispInv(d) == BatchOk(d) /\ AheadFree(d) /\ Behind(d) /\ LaunchTaken(d)

DispatchInv ==
    /\ OneOn /\ OnIsFlag /\ StartFree /\ StartPar /\ OffIsOff /\ QueueOld
    /\ \A d \in Dispatchers : On(d) => DispInv(d)
    /\ WorkedTaken /\ OneWorkerPerItem /\ RegistryExact

LEMMA InitDispatch == Init => DispatchInv
<1> SUFFICES ASSUME Init PROVE DispatchInv
  OBVIOUS
<1>1. /\ \A d \in Dispatchers : disp[d] = Off /\ ~On(d)
      /\ \A d \in Dispatchers, i \in Ids : worker[d][i] = "none"
      /\ \A i \in Ids : active[i] = None
      /\ \A c \in Starters : caller[c].op = "idle"
  BY DEF Init, On, Off, Idle, Threads
<1>2. OneOn /\ OnIsFlag /\ OffIsOff /\ WorkedTaken /\ OneWorkerPerItem
  BY <1>1 DEF OneOn, OnIsFlag, OffIsOff, WorkedTaken, OneWorkerPerItem
<1>3. StartFree /\ StartPar
  BY <1>1 DEF StartFree, StartPar
<1>4. QueueOld
  BY DEF Init, QueueOld
<1>5. RegistryExact
  BY <1>1, NamesAssumption DEF RegistryExact, Live
<1> QED BY <1>1, <1>2, <1>3, <1>4, <1>5 DEF DispatchInv

LEMMA CurrentAhead ==
    ASSUME TypeOK, NEW d \in Dispatchers, PosOk(d), disp[d].pc \in {"mark", "launch"}
    PROVE  Current(d) \in Ids /\ Current(d) \in Ahead(d)
<1>1. disp[d].batch \in Seq(Ids) /\ disp[d].pos \in 1..Len(disp[d].batch)
  BY DEF TypeOK, DispatcherState, PosOk
<1>2. Current(d) \in Ids
  BY <1>1 DEF Current
<1>3. disp[d].pos \in disp[d].pos .. Len(disp[d].batch)
  BY <1>1
<1> QED BY <1>2, <1>3 DEF Current, Ahead

LEMMA AheadIds ==
    ASSUME TypeOK, NEW d \in Dispatchers, PosOk(d)
    PROVE  Ahead(d) \subseteq Ids
<1>1. /\ disp[d].batch \in Seq(Ids) /\ disp[d].pos \in Nat /\ disp[d].pos >= 1
      /\ disp[d].snap \subseteq Ids
  BY DEF TypeOK, DispatcherState, PosOk
<1>2. \A k \in disp[d].pos .. Len(disp[d].batch) : disp[d].batch[k] \in Ids
  BY <1>1
<1> QED BY <1>1, <1>2 DEF Ahead

\* An id that has been taken stays taken until a restart.
TakenStays ==
    /\ seq <= seq'
    /\ QueueOld'
    /\ \A i \in Ids : Taken(i) => Taken(i)'

LEMMA SetItemTakes ==
    ASSUME TypeOK, QueueOld, NEW j \in Ids, NEW st \in {"running", "done", "error"},
           SetItem(j, st), UNCHANGED <<queue, seq>>
    PROVE  /\ TakenStays
           /\ j <= seq => Taken(j)'
<1>1. seq \in Nat
  BY DEF TypeOK
<1>2. \A i \in Ids : i # j => item'[i] = item[i]
  BY DEF SetItem, TypeOK
<1>3. j \in queue => item'[j].status = st
  BY DEF SetItem, TypeOK, Item
<1>4. \A i \in Ids : i # j => (Taken(i) => Taken(i)')
  BY <1>2 DEF Taken
<1>5. j <= seq => Taken(j)'
  BY <1>3 DEF Taken
<1>6. Taken(j) => j <= seq
  BY DEF Taken
<1> QED BY <1>1, <1>4, <1>5, <1>6 DEF TakenStays, QueueOld

LEMMA ElsewhereTaken ==
    ASSUME TypeOK, QueueOld, Elsewhere
    PROVE  TakenStays
<1>0. seq \in Nat
  BY DEF TypeOK
<1>1. CASE \E p \in Paths, n \in AddPrios : Add(p, n)
  <2>1. PICK p \in Paths, n \in AddPrios : Add(p, n)
    BY <1>1
  <2>2. /\ seq' = seq + 1 /\ queue' = queue \cup {seq + 1}
        /\ \A i \in Ids : i # seq + 1 => item'[i] = item[i]
    BY <2>1 DEF Add, TypeOK
  <2>3. \A i \in Ids : Taken(i) => Taken(i)'
    <3> SUFFICES ASSUME NEW i \in Ids, Taken(i) PROVE Taken(i)'
      OBVIOUS
    <3>1. i \in Nat /\ i <= seq
      BY IdBounds DEF Taken
    <3>2. i # seq + 1 /\ i <= seq + 1
      BY <1>0, <3>1
    <3> QED BY <2>2, <3>2 DEF Taken
  <2>4. QueueOld'
    <3>1. \A i \in queue : i \in Nat /\ i <= seq
      BY IdBounds DEF QueueOld, TypeOK
    <3> QED BY <1>0, <2>2, <3>1 DEF QueueOld
  <2> QED BY <1>0, <2>2, <2>3, <2>4 DEF TakenStays
<1>2. CASE \E i \in Ids, n \in Prios : Priority(i, n)
  <2>1. PICK j \in Ids, n \in Prios : Priority(j, n)
    BY <1>2
  <2>2. UNCHANGED <<queue, seq>>
    BY <2>1 DEF Priority
  <2>3. \A i \in Ids : item'[i].status = item[i].status
    BY <2>1 DEF Priority, TypeOK, Item
  <2> QED BY <1>0, <2>2, <2>3 DEF TakenStays, QueueOld, Taken, TypeOK
<1>3. CASE UNCHANGED <<item, seq>> /\ queue' \subseteq queue
  BY <1>0, <1>3 DEF TakenStays, QueueOld, Taken
<1>4. CASE \E c \in Callers : Request(c) \/ Answer(c)
  <2>1. UNCHANGED <<item, seq>> /\ queue' \subseteq queue
    BY <1>4 DEF Request, Answer, RemoveBegin, RemoveEnd, ClearBegin, ClearEnd,
                CancelBegin, CancelEnd
  <2> QED BY <2>1, <1>3
<1>5. CASE \E c \in Starters : StartRequest(c) \/ StartCheck(c)
  <2>1. UNCHANGED <<item, seq, queue>>
    BY <1>5 DEF StartRequest, StartBegin, StartCheck
  <2> QED BY <2>1, <1>3
<1>6. CASE \E p \in Paths : Vanish(p)
  BY <1>3, <1>6 DEF Vanish
<1> QED BY <1>1, <1>2, <1>4, <1>5, <1>6 DEF Elsewhere

\* The part of the invariant that a step keeps when it starts no pipeline and
\* leaves the dispatchers alone.
NoNewWorker ==
    \A d \in Dispatchers, i \in Ids : worker'[d][i] # "none" => worker[d][i] # "none"

LEMMA QuietKeeps ==
    ASSUME TypeOK, TypeOK', PosInv, DispatchInv, TakenStays, NoNewWorker,
           UNCHANGED <<disp, flag>>
    PROVE  /\ OneOn' /\ OnIsFlag' /\ OffIsOff' /\ QueueOld'
           /\ \A d \in Dispatchers : On(d)' => DispInv(d)'
           /\ WorkedTaken' /\ OneWorkerPerItem'
<1>1. OneOn' /\ OnIsFlag' /\ OffIsOff'
  BY DEF DispatchInv, OneOn, OnIsFlag, OffIsOff, On
<1>2. QueueOld' /\ \A i \in Ids : Taken(i) => Taken(i)'
  BY DEF TakenStays
<1>3. WorkedTaken'
  BY <1>2 DEF DispatchInv, WorkedTaken, NoNewWorker
<1>4. OneWorkerPerItem'
  BY DEF DispatchInv, OneWorkerPerItem, NoNewWorker
<1>5. ASSUME NEW d \in Dispatchers, On(d)' PROVE DispInv(d)'
  <2>0. On(d) /\ DispInv(d) /\ PosOk(d)
    BY <1>5 DEF On, DispatchInv, PosInv
  <2>1. BatchOk(d)'
    BY <2>0 DEF DispInv, BatchOk, NoNewWorker
  <2>2. AheadFree(d)'
    <3>1. Ahead(d)' = Ahead(d)
      BY DEF Ahead
    <3>2. ASSUME NEW i \in Ahead(d)
          PROVE  i <= seq' /\ \A e \in Dispatchers : worker'[e][i] = "none"
      <4>1. i \in Ids /\ i <= seq /\ \A e \in Dispatchers : worker[e][i] = "none"
        BY <2>0, AheadIds DEF DispInv, AheadFree
      <4>2. i \in Nat /\ seq \in Nat /\ seq' \in Nat /\ seq <= seq'
        BY <4>1, IdBounds DEF TypeOK, TakenStays
      <4> QED BY <4>1, <4>2 DEF NoNewWorker
    <3> QED BY <3>1, <3>2 DEF AheadFree
  <2>3. Behind(d)'
    BY <2>0 DEF DispInv, Behind, NoNewWorker
  <2>4. LaunchTaken(d)'
    <3>1. ASSUME disp[d].pc = "launch" PROVE Taken(Current(d))'
      <4>1. Current(d) \in Ids /\ Taken(Current(d))
        BY <2>0, <3>1, CurrentAhead DEF DispInv, LaunchTaken
      <4>2. Current(d)' = Current(d)
        BY DEF Current
      <4> QED BY <1>2, <4>1, <4>2 DEF Taken
    <3> QED BY <3>1 DEF LaunchTaken
  <2> QED BY <2>1, <2>2, <2>3, <2>4 DEF DispInv
<1> QED BY <1>1, <1>2, <1>3, <1>4, <1>5

LEMMA ElsewhereInv ==
    ASSUME TypeOK, TypeOK', PosInv, DispatchInv, Elsewhere
    PROVE  DispatchInv'
<1>1. TakenStays /\ UNCHANGED <<disp, worker, active, flag>>
  BY ElsewhereTaken, ElsewhereKeeps DEF DispatchInv
<1>2. UNCHANGED stranded
  BY DEF Elsewhere, Add, Priority, Request, Answer, RemoveBegin, RemoveEnd, ClearBegin,
         ClearEnd, CancelBegin, CancelEnd, StartRequest, StartBegin, StartCheck, Vanish
<1>3. /\ OneOn' /\ OnIsFlag' /\ OffIsOff' /\ QueueOld'
      /\ \A d \in Dispatchers : On(d)' => DispInv(d)'
      /\ WorkedTaken' /\ OneWorkerPerItem'
  BY <1>1, QuietKeeps DEF NoNewWorker
<1>4. RegistryExact'
  BY <1>1, <1>2 DEF DispatchInv, RegistryExact
<1>5. StartFree' /\ StartPar'
  <2>0. StartFree /\ StartPar /\ caller \in [Threads -> Call]
    BY DEF DispatchInv, TypeOK
  <2>1. CASE \A c \in Starters : caller'[c] = caller[c]
    BY <1>1, <2>0, <2>1 DEF StartFree, StartPar
  <2>2. CASE \E c \in Callers : Request(c) \/ Answer(c)
    <3>1. PICK c \in Callers : \E r : caller' = [caller EXCEPT ![c] = r]
      BY <2>2 DEF Request, Answer, RemoveBegin, RemoveEnd, ClearBegin, ClearEnd,
                  CancelBegin, CancelEnd, Begin, End
    <3>2. \A b \in Starters : b # c /\ b \in Threads
      BY NamesAssumption DEF Threads
    <3> QED BY <2>0, <2>1, <3>1, <3>2
  <2>3. CASE \E c \in Starters : StartRequest(c)
    <3>1. PICK c \in Starters, n \in Parallels, ins \in Installs : StartBegin(c, n, ins)
      BY <2>3 DEF StartRequest
    <3>2. /\ caller'[c] = [op |-> "check", par |-> IF ins THEN 1 ELSE n, install |-> ins]
          /\ \A b \in Starters : b # c => caller'[b] = caller[b]
      BY <2>0, <3>1 DEF StartBegin, Begin, Threads
    <3>3. caller'[c].op = "check" /\ (caller'[c].install => caller'[c].par = 1)
      BY <3>2
    <3> QED BY <1>1, <2>0, <3>2, <3>3 DEF StartFree, StartPar
  <2>4. CASE \E c \in Starters : StartCheck(c)
    <3>1. PICK c \in Starters : StartCheck(c)
      BY <2>4
    <3>2. \A b \in Starters : b # c => caller'[b] = caller[b]
      BY <2>0, <3>1 DEF StartCheck, End, Threads
    <3>3. c \in Threads /\ caller[c].op = "check"
      BY <3>1 DEF StartCheck, Threads
    <3>4. CASE flag
      <4>1. caller'[c].op = "idle"
        BY <2>0, <3>1, <3>3, <3>4 DEF StartCheck, End, Idle
      <4> QED BY <1>1, <2>0, <3>2, <4>1 DEF StartFree, StartPar
    <3>5. CASE ~flag
      <4>1. caller'[c] = [caller[c] EXCEPT !.op = "set"]
        BY <2>0, <3>1, <3>3, <3>5 DEF StartCheck
      <4>2. caller[c] \in [op : {"check", "set"}, par : 1..4, install : BOOLEAN]
        BY <2>0, <3>3 DEF Call
      <4>3. caller'[c].par = caller[c].par /\ caller'[c].install = caller[c].install
        BY <4>1, <4>2
      <4> QED BY <1>1, <2>0, <3>2, <3>3, <3>5, <4>3 DEF StartFree, StartPar
    <3> QED BY <3>4, <3>5
  <2>5. CASE UNCHANGED caller
    BY <2>1, <2>5
  <2> QED BY <2>2, <2>3, <2>4, <2>5 DEF Elsewhere, Add, Priority, Vanish
<1> QED BY <1>3, <1>4, <1>5 DEF DispatchInv

LEMMA WorkInv ==
    ASSUME TypeOK, TypeOK', PosInv, DispatchInv,
           NEW d \in Dispatchers, NEW i \in Ids, Work(d, i)
    PROVE  DispatchInv'
<1>0. /\ worker \in [Dispatchers -> [Ids -> WorkerState]] /\ active \in [Ids -> Dispatchers \cup {None}]
      /\ worker[d][i] # "none"
  BY DEF TypeOK, Work, StartInstall, Pop, Settle, Live
<1>1. UNCHANGED <<disp, flag, caller, stranded>>
  BY DEF Work, StartInstall, Pop, Settle
<1>2. StartFree' /\ StartPar'
  BY <1>1 DEF DispatchInv, StartFree, StartPar
<1>3. /\ \A e \in Dispatchers, j \in Ids : ~(e = d /\ j = i) => worker'[e][j] = worker[e][j]
      /\ NoNewWorker
  <2>1. \E r \in WorkerState : worker' = [worker EXCEPT ![d][i] = r]
    BY DEF Work, StartInstall, Pop, Settle, WorkerState
  <2>2. \A e \in Dispatchers, j \in Ids : ~(e = d /\ j = i) => worker'[e][j] = worker[e][j]
    BY <1>0, <2>1
  <2> QED BY <1>0, <2>2 DEF NoNewWorker
<1>4. /\ TakenStays
      /\ \/ StartInstall(d, i) /\ worker[d][i] \in Live /\ worker'[d][i] \in Live /\ active' = active
         \/ /\ worker'[d][i] \notin Live
            /\ \A j \in Ids : active'[j] = IF j = i /\ worker[d][i] \in Live THEN None ELSE active[j]
  <2>1. CASE \E r \in {"done", "error"} : Pop(d, i, r)
    <3>1. PICK r \in {"done", "error"} : Pop(d, i, r)
      BY <2>1
    <3>2. UNCHANGED <<item, queue, seq>> /\ worker[d][i] \in Live
      BY <3>1 DEF Pop
    <3>3. TakenStays
      BY <3>2 DEF TakenStays, DispatchInv, QueueOld, Taken, TypeOK
    <3>4. worker'[d][i] = r /\ r \notin Live
      BY <1>0, <3>1 DEF Pop, Live
    <3>5. \A j \in Ids : active'[j] = IF j = i THEN None ELSE active[j]
      BY <1>0, <3>1 DEF Pop
    <3> QED BY <3>2, <3>3, <3>4, <3>5
  <2>2. CASE Settle(d, i)
    <3>1. TakenStays
      BY <2>2, SetItemTakes DEF Settle, DispatchInv
    <3>2. worker'[d][i] = "none" /\ worker[d][i] \notin Live /\ active' = active
      BY <1>0, <2>2 DEF Settle, Live
    <3> QED BY <3>1, <3>2 DEF Live
  <2>3. CASE StartInstall(d, i)
    <3>1. UNCHANGED <<item, queue, seq, active>>
      BY <2>3 DEF StartInstall
    <3>2. TakenStays
      BY <3>1 DEF TakenStays, DispatchInv, QueueOld, Taken, TypeOK
    <3>3. worker[d][i] \in Live /\ worker'[d][i] \in Live
      BY <1>0, <2>3 DEF StartInstall, Live
    <3> QED BY <2>3, <3>1, <3>2, <3>3
  <2> QED BY <2>1, <2>2, <2>3 DEF Work
<1>5. /\ OneOn' /\ OnIsFlag' /\ OffIsOff' /\ QueueOld'
      /\ \A e \in Dispatchers : On(e)' => DispInv(e)'
      /\ WorkedTaken' /\ OneWorkerPerItem'
  BY <1>1, <1>3, <1>4, QuietKeeps
<1>6. RegistryExact'
  <2> SUFFICES ASSUME NEW j \in Ids, NEW e \in Dispatchers
               PROVE  \/ active'[j] = e <=> worker'[e][j] \in Live
                      \/ active'[j] = e /\ j \in stranded'
    BY DEF RegistryExact
  <2>1. \/ active[j] = e <=> worker[e][j] \in Live
        \/ active[j] = e /\ j \in stranded
    BY DEF DispatchInv, RegistryExact
  <2>2. CASE \/ active' = active /\ worker[d][i] \in Live /\ worker'[d][i] \in Live
    <3>1. worker'[e][j] \in Live <=> worker[e][j] \in Live
      BY <1>3, <2>2
    <3> QED BY <1>1, <2>1, <2>2, <3>1
  <2>3. CASE /\ worker'[d][i] \notin Live
             /\ \A k \in Ids : active'[k] = IF k = i /\ worker[d][i] \in Live THEN None ELSE active[k]
    <3>1. CASE j # i
      BY <1>1, <1>3, <2>1, <2>3, <3>1
    <3>2. CASE j = i /\ worker[d][i] \in Live
      <4>1. active'[j] = None /\ None # e
        BY <2>3, <3>2, NamesAssumption
      <4>2. worker'[e][j] \notin Live
        <5>1. CASE e = d
          BY <2>3, <3>2, <5>1
        <5>2. CASE e # d
          <6>1. worker[e][i] = "none"
            BY <1>0, <5>2 DEF DispatchInv, OneWorkerPerItem
          <6> QED BY <1>3, <3>2, <5>2, <6>1 DEF Live
        <5> QED BY <5>1, <5>2
      <4> QED BY <4>1, <4>2
    <3>3. CASE j = i /\ worker[d][i] \notin Live
      <4>1. active'[j] = active[j] /\ stranded' = stranded
        BY <1>1, <2>3, <3>3
      <4>2. worker'[e][j] \in Live <=> worker[e][j] \in Live
        BY <1>3, <2>3, <3>3
      <4> QED BY <2>1, <4>1, <4>2
    <3> QED BY <3>1, <3>2, <3>3
  <2> QED BY <1>4, <2>2, <2>3
<1> QED BY <1>2, <1>5, <1>6 DEF DispatchInv

LEMMA RestartInv ==
    ASSUME TypeOK, Restart
    PROVE  DispatchInv'
<1>1. /\ \A d \in Dispatchers : disp'[d] = Off /\ ~On(d)'
      /\ \A d \in Dispatchers, i \in Ids : worker'[d][i] = "none"
      /\ \A i \in Ids : active'[i] = None
      /\ \A c \in Starters : caller'[c].op = "idle"
  BY DEF Restart, On, Off, Idle, Threads
<1>2. OneOn' /\ OnIsFlag' /\ OffIsOff' /\ WorkedTaken' /\ OneWorkerPerItem'
  BY <1>1 DEF OneOn, OnIsFlag, OffIsOff, WorkedTaken, OneWorkerPerItem
<1>3. StartFree' /\ StartPar'
  BY <1>1 DEF StartFree, StartPar
<1>4. QueueOld'
  <2> DEFINE S == {i \in Ids : Restorable(i)}
  <2>1. S \in SUBSET Ids /\ queue' = S /\ seq' = MaxOf(S)
    BY DEF Restart
  <2> HIDE DEF S
  <2> QED BY <2>1, MaxOfBounds DEF QueueOld
<1>5. RegistryExact'
  BY <1>1, NamesAssumption DEF RegistryExact, Live
<1> QED BY <1>1, <1>2, <1>3, <1>4, <1>5 DEF DispatchInv

\* A step of the only dispatcher that is on is a step of the only one after it.
LEMMA SoloKeeps ==
    ASSUME OneOn, OffIsOff, NEW d \in Dispatchers, OthersKeep(d),
           \A e \in Dispatchers : On(e) => e = d,
           On(d)' \/ disp'[d] = Off
    PROVE  /\ OneOn' /\ OffIsOff'
           /\ \A e \in Dispatchers : On(e)' => e = d
<1>1. \A e \in Dispatchers : e # d => disp'[e] = Off /\ ~On(e)'
  BY DEF OthersKeep, OffIsOff, On, Off
<1>2. ~On(d)' => disp'[d] = Off
  OBVIOUS
<1> QED BY <1>1, <1>2 DEF OneOn, OffIsOff

LEMMA StartSetInv ==
    ASSUME TypeOK, TypeOK', PosInv, DispatchInv, OneStarter,
           NEW c \in Starters, NEW d \in Dispatchers, StartSet(c, d)
    PROVE  DispatchInv'
<1>1. /\ OthersKeep(d) /\ disp[d] = Off /\ disp'[d].pc = "scan"
      /\ disp'[d].batch = <<>> /\ disp'[d].pos = 1 /\ disp'[d].snap = {}
      /\ disp'[d].par = caller[c].par /\ disp'[d].install = caller[c].install
  BY StartSetDoes
<1>2. /\ caller[c].op = "set" /\ flag' = TRUE
      /\ UNCHANGED <<item, queue, seq, active, worker, stranded>>
      /\ \A i \in Ids : worker[d][i] = "none"
  BY DEF StartSet
<1>3. \A b \in Starters : b = c /\ caller'[b].op = "idle"
  BY DEF OneStarter, StartSet, End, Idle, TypeOK, Threads
<1>4. \A e \in Dispatchers : ~On(e)
  BY <1>2 DEF DispatchInv, StartFree, OnIsFlag
<1>5. /\ OneOn' /\ OffIsOff'
      /\ \A e \in Dispatchers : On(e)' => e = d
  <2>1. On(d)'
    BY <1>1 DEF On
  <2> QED BY <1>1, <1>4, <2>1, SoloKeeps DEF DispatchInv
<1>6. OnIsFlag' /\ StartFree' /\ StartPar'
  BY <1>2, <1>3 DEF OnIsFlag, StartFree, StartPar
<1>7. QueueOld' /\ WorkedTaken' /\ OneWorkerPerItem' /\ RegistryExact'
  BY <1>2 DEF DispatchInv, QueueOld, WorkedTaken, OneWorkerPerItem, RegistryExact, Taken
<1>8. DispInv(d)'
  <2>1. disp'[d].par \in 1..4 /\ (disp'[d].install => disp'[d].par = 1)
    <3>1. disp'[d] \in DispatcherState
      BY DEF TypeOK
    <3>2. caller[c].install => caller[c].par = 1
      BY <1>2 DEF DispatchInv, StartPar
    <3> QED BY <1>1, <3>1, <3>2 DEF DispatcherState
  <2>2. Len(disp'[d].batch) = 0
    BY <1>1
  <2>3. BatchOk(d)'
    BY <1>1, <1>2, <2>1, <2>2 DEF BatchOk
  <2>4. Ahead(d)' = {}
    BY <1>1, <2>2 DEF Ahead
  <2> QED BY <1>1, <1>2, <2>3, <2>4 DEF DispInv, AheadFree, Behind, LaunchTaken
<1> QED BY <1>5, <1>6, <1>7, <1>8 DEF DispatchInv

\* What every step of dispatcher d keeps, whatever it does to d itself.
LEMMA DispatchFrame ==
    ASSUME DispatchInv, NEW d \in Dispatchers, On(d), OthersKeep(d), UNCHANGED caller,
           (On(d)' /\ flag' = flag) \/ (disp'[d] = Off /\ flag' = FALSE)
    PROVE  /\ OneOn' /\ OffIsOff' /\ OnIsFlag' /\ StartFree' /\ StartPar'
           /\ \A e \in Dispatchers : On(e)' => e = d
<1>1. \A e \in Dispatchers : On(e) => e = d
  BY DEF DispatchInv, OneOn
<1>2. OneOn' /\ OffIsOff' /\ \A e \in Dispatchers : On(e)' => e = d
  BY <1>1, SoloKeeps DEF DispatchInv
<1>3. OnIsFlag'
  <2>1. flag
    BY DEF DispatchInv, OnIsFlag
  <2>2. disp'[d] = Off => ~On(d)'
    BY DEF On, Off
  <2> QED BY <1>2, <2>1, <2>2 DEF OnIsFlag
<1>4. StartFree' /\ StartPar'
  BY DEF DispatchInv, StartFree, StartPar
<1> QED BY <1>2, <1>3, <1>4

\* A step that leaves items, pipelines and registry alone.
LEMMA Untouched ==
    ASSUME DispatchInv, UNCHANGED <<item, queue, seq, worker, active, stranded>>
    PROVE  QueueOld' /\ WorkedTaken' /\ OneWorkerPerItem' /\ RegistryExact'
BY DEF DispatchInv, QueueOld, WorkedTaken, OneWorkerPerItem, RegistryExact, Taken

LEMMA ScanInv ==
    ASSUME TypeOK, TypeOK', PosInv, DispatchInv, NEW d \in Dispatchers, Scan(d)
    PROVE  DispatchInv'
<1>1. /\ OthersKeep(d) /\ disp[d].pc = "scan" /\ disp'[d].pc \in {"finish", "sort"}
      /\ disp'[d].snap = {i \in queue : item[i].status = "pending"}
      /\ disp'[d].batch = disp[d].batch /\ disp'[d].pos = disp[d].pos
      /\ disp'[d].par = disp[d].par /\ disp'[d].install = disp[d].install
      /\ disp'[d].pc = "sort" => disp'[d].snap # {}
  BY ScanDoes
<1>2. UNCHANGED <<item, queue, seq, worker, active, stranded, caller, flag>>
  BY DEF Scan
<1>3. On(d) /\ On(d)' /\ DispInv(d)
  BY <1>1 DEF On, DispatchInv
<1>4. DispInv(d)'
  <2>1. disp'[d].pc = "finish" => disp'[d].snap = {}
    BY DEF Scan, TypeOK, DispatcherState
  <2>2. BatchOk(d)'
    BY <1>1, <1>2, <1>3, <2>1 DEF DispInv, BatchOk
  <2>3. AheadFree(d)'
    <3> SUFFICES ASSUME NEW i \in Ahead(d)'
                 PROVE  i <= seq /\ \A e \in Dispatchers : worker[e][i] = "none"
      BY <1>2 DEF AheadFree
    <3>1. CASE i \in queue /\ item[i].status = "pending"
      <4>1. i \in Ids /\ i <= seq /\ ~Taken(i)
        BY <3>1 DEF DispatchInv, QueueOld, Taken, TypeOK
      <4> QED BY <4>1 DEF DispatchInv, WorkedTaken
    <3>2. CASE i \in Ahead(d)
      BY <1>3, <3>2 DEF DispInv, AheadFree
    <3> QED BY <1>1, <3>1, <3>2 DEF Ahead
  <2>4. Behind(d)' /\ LaunchTaken(d)'
    BY <1>1, <1>2, <1>3 DEF DispInv, Behind, LaunchTaken
  <2> QED BY <2>2, <2>3, <2>4 DEF DispInv
<1> QED BY <1>1, <1>2, <1>3, <1>4, DispatchFrame, Untouched DEF DispatchInv

LEMMA SortBatchInv ==
    ASSUME TypeOK, TypeOK', PosInv, DispatchInv, NEW d \in Dispatchers, SortBatch(d)
    PROVE  DispatchInv'
<1>1. /\ OthersKeep(d) /\ disp[d].pc = "sort" /\ disp'[d].pc = "mark"
      /\ disp'[d].snap = {} /\ disp'[d].pos = 1
      /\ disp'[d].batch \in Ranked(disp[d].snap, disp[d].par)
      /\ disp'[d].par = disp[d].par /\ disp'[d].install = disp[d].install
  BY SortBatchDoes
<1>2. UNCHANGED <<item, queue, seq, worker, active, stranded, caller, flag>>
  BY DEF SortBatch
<1>3. On(d) /\ On(d)' /\ DispInv(d)
  BY <1>1 DEF On, DispatchInv
<1>4. /\ disp'[d].batch \in Seq(Ids) /\ Len(disp'[d].batch) <= disp[d].par
      /\ \A m \in 1..Len(disp'[d].batch) : disp'[d].batch[m] \in disp[d].snap
      /\ \A m, n \in 1..Len(disp'[d].batch) :
            m # n => disp'[d].batch[m] # disp'[d].batch[n]
  <2>1. disp[d].snap \in SUBSET Ids /\ disp[d].par \in 1..4 /\ item \in [Ids -> Item]
    BY DEF TypeOK, DispatcherState
  <2> QED BY <1>1, <2>1, RankedIs
<1>5. DispInv(d)'
  <2>1. BatchOk(d)'
    <3>1. 1 <= Len(disp'[d].batch) + 1
      BY <1>4
    <3> QED BY <1>1, <1>3, <1>4, <3>1 DEF DispInv, BatchOk
  <2>2. AheadFree(d)'
    <3>1. \A i \in Ahead(d)' : i \in Ahead(d)
      BY <1>1, <1>4 DEF Ahead
    <3> QED BY <1>2, <1>3, <3>1 DEF DispInv, AheadFree
  <2>3. Behind(d)' /\ LaunchTaken(d)'
    <3>1. \A i \in Ids : worker'[d][i] = "none"
      BY <1>1, <1>2, <1>3 DEF DispInv, BatchOk
    <3> QED BY <1>1, <3>1 DEF Behind, LaunchTaken
  <2> QED BY <2>1, <2>2, <2>3 DEF DispInv
<1> QED BY <1>1, <1>2, <1>3, <1>5, DispatchFrame, Untouched DEF DispatchInv

LEMMA MarkInv ==
    ASSUME TypeOK, TypeOK', PosInv, DispatchInv, NEW d \in Dispatchers, Mark(d)
    PROVE  DispatchInv'
<1>0. Goto(d, "launch") /\ SetItem(Current(d), "running") /\ disp[d].pc = "mark"
  BY DEF Mark
<1>1. /\ OthersKeep(d) /\ disp'[d].pc = "launch" /\ disp'[d].snap = disp[d].snap
      /\ disp'[d].batch = disp[d].batch /\ disp'[d].pos = disp[d].pos
      /\ disp'[d].par = disp[d].par /\ disp'[d].install = disp[d].install
  BY <1>0, GotoDoes
<1>2. UNCHANGED <<queue, seq, worker, active, stranded, caller, flag>>
  BY DEF Mark
<1>3. On(d) /\ On(d)' /\ DispInv(d) /\ PosOk(d)
  BY <1>0, <1>1 DEF On, DispatchInv, PosInv
<1>4. Current(d) \in Ids /\ Current(d) <= seq
  BY <1>0, <1>3, CurrentAhead DEF DispInv, AheadFree
<1>5. PICK j \in Ids : j = Current(d)
  BY <1>4
<1>6. TakenStays /\ Taken(j)'
  BY <1>0, <1>2, <1>4, <1>5, SetItemTakes DEF DispatchInv
<1>7. DispInv(d)'
  <2>1. BatchOk(d)'
    BY <1>0, <1>1, <1>2, <1>3 DEF DispInv, BatchOk
  <2>2. AheadFree(d)'
    BY <1>1, <1>2, <1>3 DEF DispInv, AheadFree, Ahead
  <2>3. Behind(d)'
    BY <1>1, <1>2, <1>3 DEF DispInv, Behind
  <2>4. LaunchTaken(d)'
    <3>1. Current(d)' = j
      BY <1>1, <1>5 DEF Current
    <3> QED BY <1>6, <3>1 DEF LaunchTaken, Taken
  <2> QED BY <2>1, <2>2, <2>3, <2>4 DEF DispInv
<1>8. QueueOld' /\ WorkedTaken'
  BY <1>2, <1>6 DEF TakenStays, DispatchInv, WorkedTaken
<1>9. OneWorkerPerItem' /\ RegistryExact'
  BY <1>2 DEF DispatchInv, OneWorkerPerItem, RegistryExact
<1> QED BY <1>1, <1>2, <1>3, <1>7, <1>8, <1>9, DispatchFrame DEF DispatchInv

LEMMA LaunchInv ==
    ASSUME TypeOK, TypeOK', PosInv, DispatchInv, NEW d \in Dispatchers, Launch(d)
    PROVE  DispatchInv'
<1>1. /\ OthersKeep(d) /\ disp[d].pc = "launch" /\ disp'[d].pc \in {"mark", "join"}
      /\ disp'[d].pos = disp[d].pos + 1
      /\ disp'[d].snap = disp[d].snap /\ disp'[d].batch = disp[d].batch
      /\ disp'[d].par = disp[d].par /\ disp'[d].install = disp[d].install
  BY LaunchDoes
<1>2. UNCHANGED <<item, queue, seq, stranded, caller, flag>>
  BY DEF Launch
<1>3. On(d) /\ On(d)' /\ DispInv(d) /\ PosOk(d)
  BY <1>1 DEF On, DispatchInv, PosInv
<1>4. /\ Current(d) \in Ids /\ Taken(Current(d))
      /\ \A e \in Dispatchers : worker[e][Current(d)] = "none"
  BY <1>1, <1>3, CurrentAhead DEF DispInv, AheadFree, LaunchTaken
<1>5. PICK j \in Ids : j = Current(d)
  BY <1>4
<1>6. /\ \A e \in Dispatchers, i \in Ids : ~(e = d /\ i = j) => worker'[e][i] = worker[e][i]
      /\ worker'[d][j] = "run"
  <2>1. worker' = [worker EXCEPT ![d][j] = "run"]
    BY <1>5 DEF Launch
  <2> QED BY <2>1 DEF TypeOK
<1>7. active'[j] = d /\ \A i \in Ids : i # j => active'[i] = active[i]
  BY <1>5 DEF Launch, TypeOK
<1>8. /\ disp[d].batch \in Seq(Ids) /\ disp[d].pos \in 1..Len(disp[d].batch)
      /\ disp[d].batch[disp[d].pos] = j
  BY <1>1, <1>3, <1>5 DEF TypeOK, DispatcherState, PosOk, Current
<1>9. DispInv(d)'
  <2>1. BatchOk(d)'
    <3>1. disp[d].pos + 1 <= Len(disp[d].batch) + 1
      BY <1>8
    <3> QED BY <1>1, <1>3, <3>1 DEF DispInv, BatchOk
  <2>2. AheadFree(d)'
    <3>1. ASSUME NEW i \in Ahead(d)' PROVE i \in Ahead(d) /\ i # j
      <4>1. disp[d].snap = {}
        BY <1>1, <1>3 DEF DispInv, BatchOk
      <4>2. PICK k \in disp[d].pos + 1 .. Len(disp[d].batch) : i = disp[d].batch[k]
        BY <1>1, <3>1, <4>1 DEF Ahead
      <4>3. /\ k \in disp[d].pos .. Len(disp[d].batch) /\ k \in 1..Len(disp[d].batch)
            /\ k # disp[d].pos
        BY <1>8
      <4>4. i # j
        BY <1>3, <1>8, <4>2, <4>3 DEF DispInv, BatchOk
      <4> QED BY <4>2, <4>3, <4>4 DEF Ahead
    <3>2. ASSUME NEW i \in Ahead(d)'
          PROVE  i <= seq' /\ \A e \in Dispatchers : worker'[e][i] = "none"
      <4>1. i \in Ahead(d) /\ i # j /\ i \in Ids
        BY <3>1, <1>3, AheadIds
      <4> QED BY <1>2, <1>3, <1>6, <4>1 DEF DispInv, AheadFree
    <3> QED BY <3>2 DEF AheadFree
  <2>3. Behind(d)'
    <3>1. ASSUME NEW i \in Ids, worker'[d][i] # "none"
          PROVE  \E k \in 1..Len(disp[d].batch) :
                    k < disp[d].pos + 1 /\ disp[d].batch[k] = i
      <4>1. CASE i = j
        BY <1>8, <4>1
      <4>2. CASE i # j
        <5>1. worker[d][i] # "none"
          BY <1>6, <3>1, <4>2
        <5>2. PICK k \in 1..Len(disp[d].batch) : k < disp[d].pos /\ disp[d].batch[k] = i
          BY <1>3, <5>1 DEF DispInv, Behind
        <5>3. k < disp[d].pos + 1
          BY <1>8, <5>2
        <5> QED BY <5>2, <5>3
      <4> QED BY <4>1, <4>2
    <3> QED BY <1>1, <3>1 DEF Behind
  <2>4. LaunchTaken(d)'
    BY <1>1 DEF LaunchTaken
  <2> QED BY <2>1, <2>2, <2>3, <2>4 DEF DispInv
<1>10. QueueOld' /\ WorkedTaken'
  <2>1. \A i \in Ids : Taken(i)' <=> Taken(i)
    BY <1>2 DEF Taken
  <2>2. Taken(j)
    BY <1>4, <1>5
  <2>3. ASSUME NEW e \in Dispatchers, NEW i \in Ids, worker'[e][i] # "none" PROVE Taken(i)'
    <3>1. CASE i = j
      BY <2>1, <2>2, <3>1
    <3>2. CASE i # j
      BY <1>6, <2>1, <2>3, <3>2 DEF DispatchInv, WorkedTaken
    <3> QED BY <3>1, <3>2
  <2> QED BY <1>2, <2>3 DEF DispatchInv, QueueOld, WorkedTaken
<1>11. OneWorkerPerItem'
  <2> SUFFICES ASSUME NEW e \in Dispatchers, NEW f \in Dispatchers, NEW i \in Ids,
                      worker'[e][i] # "none", worker'[f][i] # "none"
               PROVE  e = f
    BY DEF OneWorkerPerItem
  <2>1. CASE i = j
    BY <1>4, <1>5, <1>6, <2>1
  <2>2. CASE i # j
    BY <1>6, <2>2 DEF DispatchInv, OneWorkerPerItem
  <2> QED BY <2>1, <2>2
<1>12. RegistryExact'
  <2> SUFFICES ASSUME NEW i \in Ids, NEW e \in Dispatchers
               PROVE  \/ active'[i] = e <=> worker'[e][i] \in Live
                      \/ active'[i] = e /\ i \in stranded'
    BY DEF RegistryExact
  <2>1. CASE i = j /\ e = d
    BY <1>6, <1>7, <2>1 DEF Live
  <2>2. CASE i = j /\ e # d
    <3>1. worker'[e][i] = "none"
      BY <1>4, <1>5, <1>6, <2>2
    <3> QED BY <1>7, <2>2, <3>1 DEF Live
  <2>3. CASE i # j
    <3>1. worker'[e][i] = worker[e][i] /\ active'[i] = active[i]
      BY <1>6, <1>7, <2>3
    <3> QED BY <1>2, <3>1 DEF DispatchInv, RegistryExact
  <2> QED BY <2>1, <2>2, <2>3
<1> QED BY <1>1, <1>2, <1>3, <1>9, <1>10, <1>11, <1>12, DispatchFrame DEF DispatchInv

LEMMA LaunchFailsInv ==
    ASSUME TypeOK, TypeOK', PosInv, DispatchInv, NEW d \in Dispatchers, LaunchFails(d)
    PROVE  DispatchInv'
<1>0. Goto(d, "finish") /\ disp[d].pc = "launch"
  BY DEF LaunchFails
<1>1. /\ OthersKeep(d) /\ disp'[d].pc = "finish" /\ disp'[d].snap = disp[d].snap
      /\ disp'[d].batch = disp[d].batch /\ disp'[d].pos = disp[d].pos
      /\ disp'[d].par = disp[d].par /\ disp'[d].install = disp[d].install
  BY <1>0, GotoDoes
<1>2. UNCHANGED <<item, queue, seq, worker, caller, flag>>
  BY DEF LaunchFails
<1>3. On(d) /\ On(d)' /\ DispInv(d) /\ PosOk(d)
  BY <1>0, <1>1 DEF On, DispatchInv, PosInv
<1>4. /\ Current(d) \in Ids
      /\ \A e \in Dispatchers : worker[e][Current(d)] = "none"
  BY <1>0, <1>3, CurrentAhead DEF DispInv, AheadFree
<1>5. PICK j \in Ids : j = Current(d)
  BY <1>4
<1>6. /\ stranded' = stranded \cup {j}
      /\ active' \in {active, [active EXCEPT ![j] = d]}
  BY <1>5 DEF LaunchFails
<1>7. DispInv(d)'
  <2>1. BatchOk(d)'
    BY <1>0, <1>1, <1>3 DEF DispInv, BatchOk
  <2>2. AheadFree(d)'
    BY <1>1, <1>2, <1>3 DEF DispInv, AheadFree, Ahead
  <2>3. Behind(d)' /\ LaunchTaken(d)'
    BY <1>1, <1>2, <1>3 DEF DispInv, Behind, LaunchTaken
  <2> QED BY <2>1, <2>2, <2>3 DEF DispInv
<1>8. QueueOld' /\ WorkedTaken' /\ OneWorkerPerItem'
  BY <1>2 DEF DispatchInv, QueueOld, WorkedTaken, Taken, OneWorkerPerItem
<1>9. RegistryExact'
  <2> SUFFICES ASSUME NEW i \in Ids, NEW e \in Dispatchers
               PROVE  \/ active'[i] = e <=> worker'[e][i] \in Live
                      \/ active'[i] = e /\ i \in stranded'
    BY DEF RegistryExact
  <2>1. \/ active[i] = e <=> worker[e][i] \in Live
        \/ active[i] = e /\ i \in stranded
    BY DEF DispatchInv, RegistryExact
  <2>2. CASE active'[i] = active[i]
    BY <1>2, <1>6, <2>1, <2>2
  <2>3. CASE active'[i] # active[i]
    <3>1. i = j /\ active'[i] = d
      BY <1>6, <2>3 DEF TypeOK
    <3>2. worker'[e][i] = "none"
      BY <1>2, <1>4, <1>5, <3>1
    <3> QED BY <1>6, <3>1, <3>2 DEF Live
  <2> QED BY <2>2, <2>3
<1> QED BY <1>1, <1>2, <1>3, <1>7, <1>8, <1>9, DispatchFrame DEF DispatchInv

LEMMA JoinInv ==
    ASSUME TypeOK, TypeOK', PosInv, DispatchInv, NEW d \in Dispatchers, Join(d)
    PROVE  DispatchInv'
<1>1. /\ OthersKeep(d) /\ disp[d].pc = "join" /\ disp'[d].pc = "scan"
      /\ disp'[d].batch = <<>> /\ disp'[d].pos = 1 /\ disp'[d].snap = disp[d].snap
      /\ disp'[d].par = disp[d].par /\ disp'[d].install = disp[d].install
  BY JoinDoes
<1>2. /\ UNCHANGED <<item, queue, seq, worker, active, stranded, caller, flag>>
      /\ \A i \in Ids : worker[d][i] = "none"
  BY DEF Join
<1>3. On(d) /\ On(d)' /\ DispInv(d)
  BY <1>1 DEF On, DispatchInv
<1>4. Len(disp'[d].batch) = 0 /\ disp'[d].snap = {} /\ disp'[d].par \in 1..4
  BY <1>1, <1>3 DEF DispInv, BatchOk, TypeOK, DispatcherState
<1>5. DispInv(d)'
  <2>1. BatchOk(d)'
    BY <1>1, <1>2, <1>3, <1>4 DEF DispInv, BatchOk
  <2>2. Ahead(d)' = {}
    BY <1>1, <1>4 DEF Ahead
  <2> QED BY <1>1, <1>2, <2>1, <2>2 DEF DispInv, AheadFree, Behind, LaunchTaken
<1> QED BY <1>1, <1>2, <1>3, <1>5, DispatchFrame, Untouched DEF DispatchInv

LEMMA FinishInv ==
    ASSUME TypeOK, TypeOK', PosInv, DispatchInv, NEW d \in Dispatchers, Finish(d)
    PROVE  DispatchInv'
<1>1. OthersKeep(d) /\ disp[d].pc = "finish" /\ disp'[d] = Off
  BY FinishDoes
<1>2. /\ UNCHANGED <<item, queue, seq, worker, active, stranded, caller>>
      /\ flag' = FALSE
  BY DEF Finish
<1>3. On(d) /\ ~On(d)'
  BY <1>1 DEF On, Off
<1> QED BY <1>1, <1>2, <1>3, DispatchFrame, Untouched DEF DispatchInv

LEMMA DispatchNext ==
    ASSUME OneStarter, TypeOK, PosInv, DispatchInv, Next
    PROVE  DispatchInv'
<1>1. TypeOK'
  BY TypeNext
<1>2. ASSUME NEW d \in Dispatchers, Dispatch(d) PROVE DispatchInv'
  BY <1>1, <1>2, ScanInv, SortBatchInv, MarkInv, LaunchInv, LaunchFailsInv, JoinInv,
     FinishInv DEF Dispatch
<1> QED BY <1>1, <1>2, Steps, ElsewhereInv, StartSetInv, WorkInv, RestartInv

LEMMA StutterDispatch == ASSUME DispatchInv, UNCHANGED vars PROVE DispatchInv'
BY DEF vars, DispatchInv, OneOn, OnIsFlag, StartFree, StartPar, OffIsOff, QueueOld,
       DispInv, BatchOk, AheadFree, Behind, LaunchTaken, Taken, Current, Ahead, On,
       WorkedTaken, OneWorkerPerItem, RegistryExact

\* With one queue.start at a time, whatever else is served meanwhile: at most one
\* dispatcher runs, what it has taken no pipeline works on, and every pipeline
\* belongs to the batch of its dispatcher.
THEOREM DispatchInvariant == OneStarter => (Spec => [](TypeOK /\ PosInv /\ DispatchInv))
<1> SUFFICES ASSUME OneStarter PROVE Spec => [](TypeOK /\ PosInv /\ DispatchInv)
  OBVIOUS
<1>1. Init => TypeOK /\ PosInv /\ DispatchInv
  BY InitType, InitPos, InitDispatch
<1>2. (TypeOK /\ PosInv /\ DispatchInv) /\ [Next]_vars
         => (TypeOK /\ PosInv /\ DispatchInv)'
  BY TypeNext, PosNext, DispatchNext, StutterType, StutterDispatch
<1> QED BY <1>1, <1>2, PTL DEF Spec

\* No item is ever converted by two pipelines at once.
THEOREM ConvertedOnce == OneStarter => (Spec => []OneWorkerPerItem)
<1> SUFFICES ASSUME OneStarter PROVE Spec => []OneWorkerPerItem
  OBVIOUS
<1>1. TypeOK /\ PosInv /\ DispatchInv => OneWorkerPerItem
  BY DEF DispatchInv
<1> QED BY <1>1, DispatchInvariant, PTL

\* _active_pipelines holds the pipelines that run and, besides them, only those
\* whose construction failed: queue.cancel reaches whatever is running.
THEOREM CancelReachesAll == OneStarter => (Spec => []RegistryExact)
<1> SUFFICES ASSUME OneStarter PROVE Spec => []RegistryExact
  OBVIOUS
<1>1. TypeOK /\ PosInv /\ DispatchInv => RegistryExact
  BY DEF DispatchInv
<1> QED BY <1>1, DispatchInvariant, PTL

\* A dispatcher joins the pipelines it started before it goes on, unless an
\* exception took it out of its loop.
NoLeftovers ==
    stranded # {} \/ \A d \in Dispatchers :
        disp[d].pc \in {"off", "scan", "sort", "finish"} => \A i \in Ids : worker[d][i] = "none"

LEMMA LeftoversNext ==
    ASSUME TypeOK, NoLeftovers, Next
    PROVE  NoLeftovers'
<1> SUFFICES ASSUME stranded' = {}, NEW d \in Dispatchers, NEW i \in Ids,
                    disp'[d].pc \in {"off", "scan", "sort", "finish"}
             PROVE  worker'[d][i] = "none"
  BY DEF NoLeftovers
<1>0. /\ disp \in [Dispatchers -> DispatcherState]
      /\ worker \in [Dispatchers -> [Ids -> WorkerState]]
  BY DEF TypeOK
<1>1. CASE Restart
  BY <1>1 DEF Restart
<1>2. CASE \E e \in Dispatchers : LaunchFails(e)
  BY <1>2 DEF LaunchFails
<1>3. ASSUME NEW e \in Dispatchers, Scan(e) \/ SortBatch(e) \/ Finish(e) PROVE worker'[d][i] = "none"
  <2>1. /\ UNCHANGED <<worker, stranded>> /\ disp[e].pc \in {"scan", "sort", "finish"}
        /\ \E r : disp' = [disp EXCEPT ![e] = r]
    BY <1>3 DEF Scan, SortBatch, Finish, env
  <2>2. e # d => disp'[d] = disp[d]
    BY <1>0, <2>1
  <2> QED BY <2>1, <2>2 DEF NoLeftovers
<1>4. ASSUME NEW e \in Dispatchers, Mark(e) \/ Launch(e) PROVE worker'[d][i] = "none"
  <2>1. e # d /\ disp'[d] = disp[d]
    BY <1>0, <1>4 DEF Mark, Launch, Goto, DispatcherState
  <2>2. UNCHANGED stranded /\ worker'[d][i] = worker[d][i]
    BY <1>0, <1>4, <2>1 DEF Mark, Launch, env
  <2> QED BY <2>1, <2>2 DEF NoLeftovers
<1>5. ASSUME NEW e \in Dispatchers, Join(e) PROVE worker'[d][i] = "none"
  <2>1. UNCHANGED <<worker, stranded>> /\ \A j \in Ids : worker[e][j] = "none"
    BY <1>5 DEF Join, env
  <2>2. e # d => disp'[d] = disp[d]
    BY <1>0, <1>5 DEF Join
  <2> QED BY <2>1, <2>2 DEF NoLeftovers
<1>6. ASSUME NEW c \in Starters, NEW e \in Dispatchers, StartSet(c, e) PROVE worker'[d][i] = "none"
  <2>1. UNCHANGED <<worker, stranded>> /\ \A j \in Ids : worker[e][j] = "none"
    BY <1>6 DEF StartSet, env
  <2>2. e # d => disp'[d] = disp[d]
    BY <1>0, <1>6 DEF StartSet
  <2> QED BY <2>1, <2>2 DEF NoLeftovers
<1>7. ASSUME NEW e \in Dispatchers, NEW j \in Ids, Work(e, j) PROVE worker'[d][i] = "none"
  <2>1. UNCHANGED <<disp, stranded>>
    BY <1>7 DEF Work, StartInstall, Pop, Settle, env
  <2>2. worker[d][i] = "none"
    BY <2>1 DEF NoLeftovers
  <2>3. worker[e][j] # "none"
    BY <1>7 DEF Work, StartInstall, Pop, Settle, Live
  <2>4. worker'[d][i] = worker[d][i]
    BY <1>0, <1>7, <2>2, <2>3 DEF Work, StartInstall, Pop, Settle
  <2> QED BY <2>2, <2>4
<1>8. CASE UNCHANGED <<disp, worker, stranded>>
  BY <1>8 DEF NoLeftovers
<1>9. \/ UNCHANGED <<disp, worker, stranded>>
      \/ \E c \in Starters, e \in Dispatchers : StartSet(c, e)
      \/ \E e \in Dispatchers : Dispatch(e)
      \/ \E e \in Dispatchers, j \in Ids : Work(e, j)
      \/ Restart
  BY DEF Next, Add, Priority, Request, Answer, StartRequest, StartAnswer, Environment, Vanish,
     RemoveBegin, RemoveEnd, ClearBegin, ClearEnd, CancelBegin, CancelEnd, StartBegin, StartCheck,
     threads, env
<1> QED BY <1>1, <1>2, <1>3, <1>4, <1>5, <1>6, <1>7, <1>8, <1>9 DEF Dispatch

\* While at most one queue.start is served at a time, two pipelines are in pacman
\* together only within one batch that was not asked to install (its PASS
\* reports), or after an exception left pipelines behind: whatever the number of
\* items, dispatchers and restarts.  queue.start answers "already running" while
\* a dispatcher lives, and a batch that installs has one item.
THEOREM InstallsAreSerial == OneStarter => (Spec => []InstallsSerial)
<1> SUFFICES ASSUME OneStarter PROVE Spec => []InstallsSerial
  OBVIOUS
<1>1. TypeOK /\ PosInv /\ DispatchInv /\ NoLeftovers => InstallsSerial
  <2> SUFFICES ASSUME TypeOK, PosInv, DispatchInv, NoLeftovers, stranded = {},
                      NEW d \in Dispatchers, NEW e \in Dispatchers,
                      NEW i \in Ids, NEW j \in Ids,
                      worker[d][i] = "install", worker[e][j] = "install"
               PROVE  d = e /\ (i = j \/ ~disp[d].install)
    BY DEF InstallsSerial
  <2>1. On(d) /\ On(e)
    BY DEF NoLeftovers, On
  <2>2. d = e
    BY <2>1 DEF DispatchInv, OneOn
  <2>3. BatchOk(d) /\ Behind(d)
    BY <2>1 DEF DispatchInv, DispInv
  <2>4. PICK k \in 1..Len(disp[d].batch) : disp[d].batch[k] = i
    BY <2>3 DEF Behind
  <2>5. PICK l \in 1..Len(disp[d].batch) : disp[d].batch[l] = j
    BY <2>2, <2>3 DEF Behind
  <2>6. CASE disp[d].install
    <3>1. Len(disp[d].batch) \in Nat /\ Len(disp[d].batch) <= 1
      BY <2>3, <2>6 DEF BatchOk, TypeOK, DispatcherState
    <3>2. k = l
      BY <3>1
    <3> QED BY <2>2, <2>4, <2>5, <3>2
  <2> QED BY <2>2, <2>6
<1>2. Init => NoLeftovers
  BY DEF Init, NoLeftovers
<1>3. TypeOK /\ NoLeftovers /\ [Next]_vars => NoLeftovers'
  <2>1. TypeOK /\ NoLeftovers /\ UNCHANGED vars => NoLeftovers'
    BY DEF NoLeftovers, vars
  <2> QED BY <2>1, LeftoversNext
<1> QED BY <1>1, <1>2, <1>3, DispatchInvariant, PTL DEF Spec

-----------------------------------------------------------------------------
(***************************************************************************)
(* The table, which a restart is to find as the memory was, and what a     *)
(* client sees of the queue: that it is a JobQueue.                        *)
(***************************************************************************)
-----------------------------------------------------------------------------
(* What a step may do to memory and table *)

\* Item i is written: a new one, or one that is in the queue.
Touches(i) ==
    /\ Upsert(i, item'[i])
    /\ \/ i \in queue /\ UNCHANGED <<queue, seq>> /\ item'[i].path = item[i].path
       \/ i = seq + 1 /\ seq' = i /\ queue' = queue \cup {i} /\ item'[i].status = "pending"
    /\ \A j \in Ids : j # i => item'[j] = item[j]
    /\ UNCHANGED <<caller, present>>

\* The callers that are removing or clearing
Deleting(c) == caller[c].op \in {"remove", "clear"}

\* Memory and table stay, and nobody begins or ends a removal.
Idles ==
    /\ UNCHANGED <<item, queue, seq, rows, exposed>>
    /\ present' \subseteq present
    /\ \A c \in Callers : Deleting(c) \/ Deleting(c)' => caller'[c] = caller[c]

LEMMA SetItemTouches ==
    ASSUME TypeOK, NEW i \in Ids, NEW st \in Statuses, SetItem(i, st),
           UNCHANGED <<queue, seq, caller, present>>
    PROVE  (i \in queue /\ item'[i].status = st /\ Touches(i)) \/ (i \notin queue /\ item' = item /\ Idles)
<1>1. CASE i \in queue
  <2>1. item' = [item EXCEPT ![i].status = st] /\ Upsert(i, item'[i])
    BY <1>1 DEF SetItem
  <2>2. item'[i].path = item[i].path /\ item'[i].status = st /\ \A j \in Ids : j # i => item'[j] = item[j]
    BY <2>1 DEF TypeOK, Item
  <2> QED BY <1>1, <2>1, <2>2 DEF Touches
<1>2. CASE i \notin queue
  BY <1>2 DEF SetItem, Idles, Deleting
<1> QED BY <1>1, <1>2

LEMMA MarkIsOf ==
    ASSUME TypeOK, PosInv, NEW d \in Dispatchers, Mark(d)
    PROVE  Current(d) \in Ids
BY CurrentAhead DEF Mark, PosInv

\* The other steps of Callers and Starters begin and end no removal.
LEMMA OtherCalls ==
    ASSUME TypeOK,
           \/ \E c \in Callers, t \in CancelArgs : CancelBegin(c, t)
           \/ \E c \in Callers : CancelEnd(c)
           \/ \E c \in Starters : StartRequest(c) \/ StartAnswer(c)
    PROVE  Idles
<1>0. caller \in [Threads -> Call] /\ Callers \subseteq Threads
  BY DEF TypeOK, Threads
<1>1. UNCHANGED <<item, queue, seq, rows, exposed, present>>
  BY DEF CancelBegin, CancelEnd, StartRequest, StartBegin, StartAnswer, StartCheck, StartSet
<1>2. CASE \E c \in Callers, t \in CancelArgs : CancelBegin(c, t)
  <2>1. PICK c \in Callers, t \in CancelArgs : CancelBegin(c, t)
    BY <1>2
  <2>2. caller[c].op = "idle" /\ caller'[c].op = "cancel"
    BY <1>0, <2>1 DEF CancelBegin, Begin, Idle
  <2>3. \A b \in Callers : b # c => caller'[b] = caller[b]
    BY <1>0, <2>1 DEF CancelBegin, Begin
  <2> QED BY <1>1, <2>2, <2>3 DEF Idles, Deleting
<1>3. CASE \E c \in Callers : CancelEnd(c)
  <2>1. PICK c \in Callers : CancelEnd(c)
    BY <1>3
  <2>2. caller[c].op = "cancel" /\ caller'[c].op = "idle"
    BY <1>0, <2>1 DEF CancelEnd, End, Idle
  <2>3. \A b \in Callers : b # c => caller'[b] = caller[b]
    BY <1>0, <2>1 DEF CancelEnd, End
  <2> QED BY <1>1, <2>2, <2>3 DEF Idles, Deleting
<1>4. CASE \E c \in Starters : StartRequest(c) \/ StartAnswer(c)
  <2>1. PICK c \in Starters : \E r : caller' = [caller EXCEPT ![c] = r]
    BY <1>4 DEF StartRequest, StartBegin, StartAnswer, StartCheck, StartSet, Begin, End
  <2>2. \A b \in Callers : caller'[b] = caller[b]
    BY <1>0, <2>1, NamesAssumption
  <2> QED BY <1>1, <2>2 DEF Idles, Deleting
<1> QED BY <1>2, <1>3, <1>4

LEMMA TableSteps ==
    ASSUME TypeOK, PosInv, Next
    PROVE  \/ \E i \in Ids : Touches(i)
           \/ \E c \in Callers, i \in Ids : RemoveBegin(c, i)
           \/ \E c \in Callers : RemoveEnd(c)
           \/ \E c \in Callers, st \in ClearArgs : ClearBegin(c, st)
           \/ \E c \in Callers : ClearEnd(c)
           \/ Idles
           \/ Restart
<1>1. CASE \E p \in Paths, n \in AddPrios : Add(p, n)
  <2>1. PICK p \in Paths, n \in AddPrios : Add(p, n)
    BY <1>1
  <2>2. seq + 1 \in Ids /\ seq \in Nat
    BY <2>1, Numbers DEF Add, Ids, TypeOK
  <2> DEFINE r == [path |-> p, status |-> "pending", prio |-> n]
  <2>3. item' = [item EXCEPT ![seq + 1] = r] /\ Upsert(seq + 1, r)
    BY <2>1 DEF Add
  <2>4. item'[seq + 1] = r /\ r.status = "pending" /\ \A j \in Ids : j # seq + 1 => item'[j] = item[j]
    BY <2>2, <2>3 DEF TypeOK
  <2>5. Touches(seq + 1)
    BY <2>1, <2>3, <2>4 DEF Add, Touches
  <2> QED BY <2>2, <2>5
<1>2. CASE \E i \in Ids, n \in Prios : Priority(i, n)
  <2>1. PICK i \in Ids, n \in Prios : Priority(i, n)
    BY <1>2
  <2>2. item'[i].path = item[i].path /\ \A j \in Ids : j # i => item'[j] = item[j]
    BY <2>1 DEF Priority, TypeOK, Item
  <2>3. Touches(i)
    BY <2>1, <2>2 DEF Priority, Touches
  <2> QED BY <2>3
<1>3. CASE \E c \in Callers : Request(c) \/ Answer(c)
  BY <1>3, OtherCalls, BoundsAssumption DEF Request, Answer
<1>4. CASE \E c \in Starters : StartRequest(c) \/ StartAnswer(c)
  BY <1>4, OtherCalls
<1>5. ASSUME NEW d \in Dispatchers, Dispatch(d)
      PROVE  Idles \/ \E i \in Ids : Touches(i)
  <2>1. CASE Mark(d)
    <3>1. PICK i \in Ids : i = Current(d)
      BY <2>1, MarkIsOf
    <3>2. SetItem(i, "running") /\ UNCHANGED <<queue, seq, caller, present>> /\ "running" \in Statuses
      BY <2>1, <3>1 DEF Mark, Statuses
    <3> QED BY <3>2, SetItemTouches
  <2>2. CASE ~Mark(d)
    BY <1>5, <2>2 DEF Dispatch, Scan, SortBatch, Launch, LaunchFails, Join, Finish, Idles,
               Deleting
  <2> QED BY <2>1, <2>2
<1>6. ASSUME NEW d \in Dispatchers, NEW i \in Ids, Work(d, i)
      PROVE  Idles \/ \E j \in Ids : Touches(j)
  <2>1. CASE Settle(d, i)
    <3>1. PICK st \in Statuses : st = worker[d][i]
      BY <2>1 DEF Settle, Statuses
    <3>2. SetItem(i, st) /\ UNCHANGED <<queue, seq, caller, present>>
      BY <2>1, <3>1 DEF Settle
    <3> QED BY <3>2, SetItemTouches
  <2>2. CASE \E r \in {"done", "error"} : Pop(d, i, r)
    BY <2>2 DEF Pop, Idles, Deleting
  <2>3. CASE StartInstall(d, i)
    BY <2>3 DEF StartInstall, Idles, Deleting
  <2> QED BY <1>6, <2>1, <2>2, <2>3 DEF Work
<1>7. CASE \E p \in Paths : Vanish(p)
  BY <1>7 DEF Vanish, Idles, Deleting
<1> QED BY <1>1, <1>2, <1>3, <1>4, <1>5, <1>6, <1>7 DEF Next, Environment

-----------------------------------------------------------------------------
(* Ids *)

\* The write of a row, and the deletion of some.
LEMMA UpsertDoes ==
    ASSUME TypeOK, NEW i \in Ids, NEW r, Upsert(i, r)
    PROVE  /\ \A j \in Ids : j # i => rows'[j] = rows[j] /\ (j \in exposed' <=> j \in exposed)
           /\ \/ /\ rows'[i] = r
                 /\ i \in exposed' <=> ClearInFlight(r.status) \/ RemoveInFlight(i)
              \/ rows'[i] = rows[i] /\ i \in exposed' /\ budget["write"] > 0
<1>1. CASE /\ rows' = [rows EXCEPT ![i] = r]
           /\ exposed' = IF ClearInFlight(r.status) \/ RemoveInFlight(i)
                         THEN exposed \cup {i} ELSE exposed \ {i}
  BY <1>1 DEF TypeOK
<1>2. CASE Spend("write") /\ exposed' = exposed \cup {i} /\ UNCHANGED rows
  BY <1>2 DEF TypeOK, Spend
<1> QED BY <1>1, <1>2 DEF Upsert

LEMMA DeleteDoes ==
    ASSUME TypeOK, NEW S \in SUBSET Ids, Delete(S)
    PROVE  \/ exposed' = exposed /\ \A i \in Ids : rows'[i] = IF i \in S THEN None ELSE rows[i]
           \/ exposed' = exposed \cup S /\ rows' = rows
BY DEF Delete, TypeOK

\* A removal that was answered in memory names an id that is not in the queue, or
\* one that was handed out since.
RemoveGone ==
    \A c \in Callers : caller[c].op = "remove" => caller[c].id \notin queue \ exposed

TableInv == QueueOld /\ NoIdCollision /\ RemoveGone

LEMMA RestorableNarrows ==
    ASSUME NEW i \in Ids, rows'[i] \in {rows[i], None}, present' \subseteq present
    PROVE  Restorable(i)' => Restorable(i)
BY DEF Restorable

LEMMA TableTouched ==
    ASSUME TypeOK, TypeOK', TableInv, NEW i \in Ids, Touches(i)
    PROVE  TableInv'
<1>0. seq \in Nat /\ seq' \in Nat /\ \A j \in Ids : j \in Nat
  BY IdBounds DEF TypeOK
<1>1. /\ i <= seq' /\ seq <= seq'
      /\ \A j \in Ids : j # i => rows'[j] = rows[j] /\ (j \in queue' <=> j \in queue)
  BY <1>0, UpsertDoes DEF Touches, TableInv, QueueOld
<1>2. QueueOld'
  BY <1>0, <1>1 DEF TableInv, QueueOld, TypeOK
<1>3. NoIdCollision'
  <2> SUFFICES ASSUME NEW j \in Ids, Restorable(j)' PROVE j <= seq'
    BY DEF NoIdCollision
  <2>1. CASE j # i
    BY <1>0, <1>1, <2>1, RestorableNarrows DEF Touches, TableInv, NoIdCollision
  <2> QED BY <1>1, <2>1
<1>4. RemoveGone'
  <2> SUFFICES ASSUME NEW c \in Callers, caller[c].op = "remove"
               PROVE  caller[c].id \notin queue' \ exposed'
    BY DEF RemoveGone, Touches
  <2>1. caller[c].id \notin queue \ exposed
    BY DEF TableInv, RemoveGone
  <2>2. caller[c].id \in Ids
    BY DEF TypeOK, Call, Threads
  <2>3. CASE caller[c].id = i
    <3>1. RemoveInFlight(i)
      BY <2>3 DEF RemoveInFlight
    <3> QED BY <2>3, <3>1, UpsertDoes DEF Touches
  <2>4. CASE caller[c].id # i
    BY <1>1, <2>1, <2>2, <2>4, UpsertDoes DEF Touches
  <2> QED BY <2>3, <2>4
<1> QED BY <1>2, <1>3, <1>4 DEF TableInv

\* A step that hands out no id, enters nothing and revives no row.
LEMMA TableShrinks ==
    ASSUME TypeOK, TableInv, UNCHANGED seq, queue' \subseteq queue, present' \subseteq present,
           \A i \in Ids : rows'[i] \in {rows[i], None}, RemoveGone'
    PROVE  TableInv'
<1>1. QueueOld'
  BY DEF TableInv, QueueOld
<1>2. NoIdCollision'
  BY RestorableNarrows DEF TableInv, NoIdCollision
<1> QED BY <1>1, <1>2 DEF TableInv

LEMMA TableRestarts ==
    ASSUME TypeOK, Restart
    PROVE  TableInv'
<1> DEFINE S == {i \in Ids : Restorable(i)}
<1>1. S \in SUBSET Ids /\ queue' = S /\ seq' = MaxOf(S)
  BY DEF Restart
<1>2. \A i \in Ids : Restorable(i)' <=> i \in S
  BY DEF Restart, Restorable
<1>3. \A c \in Callers : caller'[c].op = "idle"
  BY DEF Restart, Idle, Threads
<1> HIDE DEF S
<1>4. \A i \in S : i <= seq'
  BY <1>1, MaxOfBounds
<1> QED BY <1>1, <1>2, <1>3, <1>4 DEF TableInv, QueueOld, NoIdCollision, RemoveGone

LEMMA TableNext ==
    ASSUME TypeOK, PosInv, TableInv, Next
    PROVE  TableInv'
<1>0. TypeOK' /\ caller \in [Threads -> Call] /\ Callers \subseteq Threads
  BY TypeNext DEF TypeOK, Threads
<1>1. ASSUME NEW i \in Ids, Touches(i) PROVE TableInv'
  BY <1>0, <1>1, TableTouched
<1>2. ASSUME NEW c \in Callers, NEW i \in Ids, RemoveBegin(c, i) PROVE TableInv'
  <2>1. /\ caller'[c] = [op |-> "remove", id |-> i]
        /\ \A b \in Callers : b # c => caller'[b] = caller[b]
    BY <1>0, <1>2 DEF RemoveBegin, Begin
  <2>2. queue' = queue \ {i} /\ UNCHANGED <<seq, rows, exposed, present>>
    BY <1>2 DEF RemoveBegin
  <2>3. RemoveGone'
    BY <2>1, <2>2 DEF TableInv, RemoveGone
  <2> QED BY <2>2, <2>3, TableShrinks
<1>3. ASSUME NEW c \in Callers, RemoveEnd(c) PROVE TableInv'
  <2>1. /\ caller'[c].op = "idle" /\ \A b \in Callers : b # c => caller'[b] = caller[b]
        /\ UNCHANGED <<queue, seq, present>>
    BY <1>0, <1>3 DEF RemoveEnd, End, Idle
  <2>2. caller[c].id \in Ids /\ Delete({caller[c].id})
    BY <1>0, <1>3 DEF RemoveEnd, Call
  <2>3. (\A i \in Ids : rows'[i] \in {rows[i], None}) /\ exposed \subseteq exposed'
    BY <2>2, DeleteDoes
  <2>4. RemoveGone'
    BY <2>1, <2>3 DEF TableInv, RemoveGone
  <2> QED BY <2>1, <2>3, <2>4, TableShrinks
<1>4. ASSUME NEW c \in Callers, NEW st \in ClearArgs, ClearBegin(c, st) PROVE TableInv'
  <2>1. /\ caller'[c].op = "clear" /\ \A b \in Callers : b # c => caller'[b] = caller[b]
        /\ queue' \subseteq queue /\ UNCHANGED <<seq, rows, exposed, present>>
    BY <1>0, <1>4 DEF ClearBegin, Begin
  <2>2. RemoveGone'
    BY <2>1 DEF TableInv, RemoveGone
  <2> QED BY <2>1, <2>2, TableShrinks
<1>5. ASSUME NEW c \in Callers, ClearEnd(c) PROVE TableInv'
  <2>1. /\ caller'[c].op = "idle" /\ \A b \in Callers : b # c => caller'[b] = caller[b]
        /\ UNCHANGED <<queue, seq, present>>
    BY <1>0, <1>5 DEF ClearEnd, End, Idle
  <2>2. (\A i \in Ids : rows'[i] \in {rows[i], None}) /\ exposed \subseteq exposed'
    BY <1>5, DeleteDoes DEF ClearEnd
  <2>3. RemoveGone'
    BY <2>1, <2>2 DEF TableInv, RemoveGone
  <2> QED BY <2>1, <2>2, <2>3, TableShrinks
<1>6. CASE Idles
  <2>1. RemoveGone'
    BY <1>6 DEF Idles, Deleting, TableInv, RemoveGone
  <2> QED BY <1>6, <2>1, TableShrinks DEF Idles
<1>7. CASE Restart
  BY <1>7, TableRestarts
<1> QED BY <1>1, <1>2, <1>3, <1>4, <1>5, <1>6, <1>7, TableSteps

LEMMA InitTable == Init => TableInv
BY DEF Init, TableInv, QueueOld, NoIdCollision, RemoveGone, Restorable, Idle, Threads

LEMMA StutterTable == ASSUME TableInv, UNCHANGED vars PROVE TableInv'
BY DEF vars, TableInv, QueueOld, NoIdCollision, RemoveGone, Restorable

\* What the ids of memory, of table and of removals under way have to do with
\* _queue_seq, whatever is served and whatever fails.
THEOREM TableInvariant == Spec => [](TypeOK /\ PosInv /\ TableInv)
<1>1. Init => TypeOK /\ PosInv /\ TableInv
  BY InitType, InitPos, InitTable
<1>2. (TypeOK /\ PosInv /\ TableInv) /\ [Next]_vars => (TypeOK /\ PosInv /\ TableInv)'
  BY TypeNext, PosNext, TableNext, StutterType, StutterTable
<1> QED BY <1>1, <1>2, PTL DEF Spec

\* The id queue.add gives next is never that of a row a restart would bring
\* back: work that was saved is not overwritten by work that comes later.
THEOREM IdsDoNotCollide == Spec => []NoIdCollision
<1>1. TypeOK /\ PosInv /\ TableInv => NoIdCollision
  BY DEF TableInv
<1> QED BY <1>1, TableInvariant, PTL

-----------------------------------------------------------------------------
(* Rows *)

\* queue.clear is never asked for the pending or for the running items alone.
\* The Convert page clears the whole queue.  A client that does ask finds the
\* rows of restored items, which may still say "running", out of its reach or
\* in its way: see MemoryIsSaved and NoZombieRows.
WholeClears == ClearArgs \cap {"pending", "running"} = {}

\* A queue.clear that has emptied the memory will delete no row that counts.
ClearHarmless ==
    \A c \in Callers : caller[c].op = "clear" =>
        \A i \in queue \ exposed : ~Matches(caller[c].status, rows[i].status)

SavedInv == ClearHarmless /\ MemoryIsSaved /\ NoZombieRows

LEMMA SavedTouched ==
    ASSUME TypeOK, TypeOK', SavedInv, NEW i \in Ids, Touches(i)
    PROVE  SavedInv'
<1>0. /\ Upsert(i, item'[i]) /\ UNCHANGED <<caller, present>>
      /\ i \in queue' /\ \A j \in Ids : j # i => item'[j] = item[j] /\ (j \in queue' <=> j \in queue)
      /\ item'[i] \in Item /\ queue' \subseteq Ids
  BY DEF Touches, TypeOK
<1>1. \A j \in Ids : j # i => rows'[j] = rows[j] /\ (j \in exposed' <=> j \in exposed)
  BY <1>0, UpsertDoes
<1>2. i \notin exposed' => rows'[i] = item'[i] /\ ~ClearInFlight(item'[i].status)
  BY <1>0, UpsertDoes
<1>3. ClearHarmless'
  <2> SUFFICES ASSUME NEW c \in Callers, caller[c].op = "clear", NEW j \in queue' \ exposed'
               PROVE  ~Matches(caller[c].status, rows'[j].status)
    BY <1>0 DEF ClearHarmless
  <2>1. CASE j # i
    BY <1>0, <1>1, <2>1 DEF SavedInv, ClearHarmless
  <2>2. CASE j = i
    BY <1>2, <2>2 DEF ClearInFlight
  <2> QED BY <2>1, <2>2
<1>4. MemoryIsSaved'
  <2> SUFFICES ASSUME NEW j \in queue' \ exposed'
               PROVE  rows'[j] # None /\ Agrees(rows'[j], item'[j])
    BY DEF MemoryIsSaved
  <2>1. CASE j # i
    BY <1>0, <1>1, <2>1 DEF SavedInv, MemoryIsSaved
  <2>2. CASE j = i
    BY <1>0, <1>2, <2>2, NamesAssumption DEF Agrees
  <2> QED BY <2>1, <2>2
<1>5. NoZombieRows'
  <2> SUFFICES ASSUME NEW j \in Ids, Restorable(j)', j # i, j \notin queue', j \notin exposed'
               PROVE  \/ ClearInFlight(rows[j].status)'
                      \/ \E c \in Callers : caller'[c].op = "remove" /\ caller'[c].id = j
    BY <1>0 DEF NoZombieRows, RemoveInFlight
  <2>1. rows'[j] = rows[j] /\ j \notin queue /\ j \notin exposed
    BY <1>0, <1>1
  <2>2. Restorable(j)
    BY <1>0, <2>1 DEF Restorable
  <2>3. \/ ClearInFlight(rows[j].status)
        \/ \E c \in Callers : caller[c].op = "remove" /\ caller[c].id = j
    BY <2>1, <2>2 DEF SavedInv, NoZombieRows, RemoveInFlight
  <2> QED BY <1>0, <2>1, <2>3 DEF ClearInFlight
<1> QED BY <1>3, <1>4, <1>5 DEF SavedInv

LEMMA SavedIdles ==
    ASSUME TypeOK, SavedInv, Idles
    PROVE  SavedInv'
<1>1. ClearHarmless' /\ MemoryIsSaved'
  BY DEF Idles, Deleting, SavedInv, ClearHarmless, MemoryIsSaved
<1>2. NoZombieRows'
  <2> SUFFICES ASSUME NEW j \in Ids, Restorable(j)', j \notin queue, j \notin exposed
               PROVE  \/ ClearInFlight(rows[j].status)'
                      \/ \E c \in Callers : caller'[c].op = "remove" /\ caller'[c].id = j
    BY DEF NoZombieRows, Idles, ClearInFlight, RemoveInFlight
  <2>1. Restorable(j)
    BY RestorableNarrows DEF Idles
  <2>2. \/ ClearInFlight(rows[j].status)
        \/ \E c \in Callers : caller[c].op = "remove" /\ caller[c].id = j
    BY <2>1 DEF SavedInv, NoZombieRows, RemoveInFlight
  <2> QED BY <2>2 DEF ClearInFlight, Idles, Deleting
<1> QED BY <1>1, <1>2 DEF SavedInv

LEMMA SavedRemoveBegin ==
    ASSUME TypeOK, SavedInv, NEW c \in Callers, NEW i \in Ids, RemoveBegin(c, i)
    PROVE  SavedInv'
<1>1. /\ caller[c].op = "idle" /\ caller'[c].op = "remove" /\ caller'[c].id = i
      /\ \A b \in Callers : b # c => caller'[b] = caller[b]
      /\ queue' = queue \ {i} /\ UNCHANGED <<item, seq, rows, exposed, present>>
  BY DEF RemoveBegin, Begin, Idle, TypeOK, Threads
<1>2. ClearHarmless' /\ MemoryIsSaved'
  BY <1>1 DEF SavedInv, ClearHarmless, MemoryIsSaved
<1>3. NoZombieRows'
  <2> SUFFICES ASSUME NEW j \in Ids, Restorable(j)', j # i, j \notin queue, j \notin exposed
               PROVE  \/ ClearInFlight(rows[j].status)'
                      \/ \E b \in Callers : caller'[b].op = "remove" /\ caller'[b].id = j
    BY <1>1 DEF NoZombieRows, ClearInFlight, RemoveInFlight
  <2>1. Restorable(j)
    BY <1>1 DEF Restorable
  <2>2. \/ ClearInFlight(rows[j].status)
        \/ \E b \in Callers : caller[b].op = "remove" /\ caller[b].id = j
    BY <2>1 DEF SavedInv, NoZombieRows, RemoveInFlight
  <2> QED BY <1>1, <2>2 DEF ClearInFlight
<1> QED BY <1>2, <1>3 DEF SavedInv

LEMMA SavedRemoveEnd ==
    ASSUME TypeOK, SavedInv, RemoveGone, NEW c \in Callers, RemoveEnd(c)
    PROVE  SavedInv'
<1> DEFINE i == caller[c].id
<1>1. /\ caller[c].op = "remove" /\ caller'[c].op = "idle"
      /\ \A b \in Callers : b # c => caller'[b] = caller[b]
      /\ UNCHANGED <<item, queue, seq, present>>
  BY DEF RemoveEnd, End, Idle, TypeOK, Threads
<1>2. i \in Ids /\ i \notin queue \ exposed /\ Delete({i})
  BY <1>1 DEF RemoveEnd, RemoveGone, TypeOK, Call, Threads
<1> HIDE DEF i
<1>3. /\ \A j \in Ids : j # i => rows'[j] = rows[j] /\ (j \in exposed' <=> j \in exposed)
      /\ rows'[i] = None \/ i \in exposed'
  BY <1>2, DeleteDoes
<1>4. ClearHarmless' /\ MemoryIsSaved'
  <2>1. exposed \subseteq exposed'
    BY <1>2, DeleteDoes
  <2>2. \A j \in queue \ exposed' : j \in Ids /\ j \notin exposed /\ j # i
    BY <1>2, <2>1 DEF TypeOK
  <2> QED BY <1>1, <1>3, <2>2 DEF SavedInv, ClearHarmless, MemoryIsSaved
<1>5. NoZombieRows'
  <2> SUFFICES ASSUME NEW j \in Ids, Restorable(j)', j \notin queue, j \notin exposed'
               PROVE  \/ ClearInFlight(rows[j].status)'
                      \/ \E b \in Callers : caller'[b].op = "remove" /\ caller'[b].id = j
    BY <1>1 DEF NoZombieRows, RemoveInFlight
  <2>1. j # i
    BY <1>3 DEF Restorable
  <2>2. rows'[j] = rows[j] /\ Restorable(j) /\ j \notin exposed
    BY <1>1, <1>3, <2>1 DEF Restorable
  <2>3. \/ ClearInFlight(rows[j].status)
        \/ \E b \in Callers : caller[b].op = "remove" /\ caller[b].id = j
    BY <2>2 DEF SavedInv, NoZombieRows, RemoveInFlight
  <2> QED BY <1>1, <2>1, <2>2, <2>3 DEF ClearInFlight, i
<1> QED BY <1>4, <1>5 DEF SavedInv

LEMMA SavedClearBegin ==
    ASSUME TypeOK, SavedInv, WholeClears,
           NEW c \in Callers, NEW st \in ClearArgs, ClearBegin(c, st)
    PROVE  SavedInv'
<1>1. /\ caller[c].op = "idle" /\ caller'[c].op = "clear" /\ caller'[c].status = st
      /\ \A b \in Callers : b # c => caller'[b] = caller[b]
      /\ queue' = {i \in queue : ~Matches(st, item[i].status)}
      /\ UNCHANGED <<item, seq, rows, exposed, present>>
  BY DEF ClearBegin, Begin, Idle, TypeOK, Threads
<1>2. st # "pending" /\ st # "running"
  BY DEF WholeClears
<1>3. \A i \in queue \ exposed : Matches(st, rows[i].status) <=> Matches(st, item[i].status)
  <2> SUFFICES ASSUME NEW i \in queue \ exposed
               PROVE  Matches(st, rows[i].status) <=> Matches(st, item[i].status)
    OBVIOUS
  <2>1. \/ rows[i].status = item[i].status
        \/ rows[i].status = "running" /\ item[i].status = "pending"
    BY DEF SavedInv, MemoryIsSaved, Agrees
  <2> QED BY <1>2, <2>1 DEF Matches
<1>4. ClearHarmless' /\ MemoryIsSaved'
  BY <1>1, <1>3 DEF SavedInv, ClearHarmless, MemoryIsSaved
<1>5. NoZombieRows'
  <2> SUFFICES ASSUME NEW j \in Ids, Restorable(j)', j \notin queue', j \notin exposed
               PROVE  \/ ClearInFlight(rows[j].status)'
                      \/ \E b \in Callers : caller'[b].op = "remove" /\ caller'[b].id = j
    BY <1>1 DEF NoZombieRows, ClearInFlight, RemoveInFlight
  <2>1. Restorable(j)
    BY <1>1 DEF Restorable
  <2>2. CASE j \in queue
    <3>1. Matches(st, rows[j].status)
      BY <1>1, <1>3, <2>2
    <3> QED BY <1>1, <3>1 DEF ClearInFlight
  <2>3. CASE j \notin queue
    <3>1. \/ ClearInFlight(rows[j].status)
          \/ \E b \in Callers : caller[b].op = "remove" /\ caller[b].id = j
      BY <2>1, <2>3 DEF SavedInv, NoZombieRows, RemoveInFlight
    <3> QED BY <1>1, <3>1 DEF ClearInFlight
  <2> QED BY <2>2, <2>3
<1> QED BY <1>4, <1>5 DEF SavedInv

LEMMA SavedClearEnd ==
    ASSUME TypeOK, SavedInv, NEW c \in Callers, ClearEnd(c)
    PROVE  SavedInv'
<1> DEFINE S == {i \in Ids : rows[i] # None /\ Matches(caller[c].status, rows[i].status)}
<1>1. /\ caller[c].op = "clear" /\ caller'[c].op = "idle"
      /\ \A b \in Callers : b # c => caller'[b] = caller[b]
      /\ UNCHANGED <<item, queue, seq, present>>
  BY DEF ClearEnd, End, Idle, TypeOK, Threads
<1>2. Delete(S) /\ S \in SUBSET Ids
  BY DEF ClearEnd
<1>3. \A i \in queue \ exposed : i \notin S
  BY <1>1 DEF SavedInv, ClearHarmless
<1>4. \A i \in Ids : rows[i] # None /\ Matches(caller[c].status, rows[i].status) => i \in S
  OBVIOUS
<1> HIDE DEF S
<1>5. /\ \A i \in Ids : i \notin S => rows'[i] = rows[i] /\ (i \in exposed' <=> i \in exposed)
      /\ \A i \in S : rows'[i] = None \/ i \in exposed'
      /\ \A i \in Ids : i \in exposed => i \in exposed'
  BY <1>2, DeleteDoes
<1>6. ClearHarmless' /\ MemoryIsSaved'
  <2>1. \A i \in queue \ exposed' : i \in queue \ exposed /\ rows'[i] = rows[i]
    BY <1>3, <1>5 DEF TypeOK
  <2> QED BY <1>1, <2>1 DEF SavedInv, ClearHarmless, MemoryIsSaved
<1>7. NoZombieRows'
  <2> SUFFICES ASSUME NEW j \in Ids, Restorable(j)', j \notin queue, j \notin exposed'
               PROVE  \/ ClearInFlight(rows[j].status)'
                      \/ \E b \in Callers : caller'[b].op = "remove" /\ caller'[b].id = j
    BY <1>1 DEF NoZombieRows, RemoveInFlight
  <2>1. j \notin S /\ rows'[j] = rows[j] /\ j \notin exposed
    BY <1>5 DEF Restorable
  <2>2. Restorable(j)
    BY <1>1, <2>1 DEF Restorable
  <2>3. ~Matches(caller[c].status, rows[j].status)
    BY <1>4, <2>1, <2>2 DEF Restorable
  <2>4. \/ ClearInFlight(rows[j].status)
        \/ \E b \in Callers : caller[b].op = "remove" /\ caller[b].id = j
    BY <2>1, <2>2 DEF SavedInv, NoZombieRows, RemoveInFlight
  <2> QED BY <1>1, <2>1, <2>3, <2>4 DEF ClearInFlight
<1> QED BY <1>6, <1>7 DEF SavedInv

LEMMA SavedRestarts ==
    ASSUME TypeOK, Restart
    PROVE  SavedInv'
<1>1. /\ \A i \in Ids : i \in queue' <=> Restorable(i)
      /\ \A i \in Ids : Restorable(i) => item'[i] = [rows[i] EXCEPT !.status = "pending"]
      /\ UNCHANGED <<rows, present>> /\ exposed' = {} /\ queue' \subseteq Ids
      /\ \A c \in Callers : caller'[c].op = "idle"
  BY DEF Restart, Idle, Threads
<1>2. ClearHarmless'
  BY <1>1 DEF ClearHarmless
<1>3. MemoryIsSaved'
  <2> SUFFICES ASSUME NEW i \in queue' PROVE rows[i] # None /\ Agrees(rows[i], item'[i])
    BY <1>1 DEF MemoryIsSaved
  <2>1. i \in Ids /\ Restorable(i) /\ item'[i] = [rows[i] EXCEPT !.status = "pending"]
    BY <1>1
  <2>2. rows[i] # None /\ rows[i].status \in {"pending", "running"} /\ rows[i] \in Item
    BY <2>1 DEF Restorable, TypeOK
  <2>3. item'[i].path = rows[i].path /\ item'[i].prio = rows[i].prio /\ item'[i].status = "pending"
    BY <2>1, <2>2 DEF Item
  <2> QED BY <2>2, <2>3 DEF Agrees
<1>4. NoZombieRows'
  BY <1>1 DEF NoZombieRows, Restorable
<1> QED BY <1>2, <1>3, <1>4 DEF SavedInv

LEMMA SavedNext ==
    ASSUME WholeClears, TypeOK, PosInv, TableInv, SavedInv, Next
    PROVE  SavedInv'
<1>0. TypeOK' /\ RemoveGone
  BY TypeNext DEF TableInv
<1> QED BY <1>0, TableSteps, SavedTouched, SavedIdles, SavedRemoveBegin, SavedRemoveEnd,
           SavedClearBegin, SavedClearEnd, SavedRestarts

LEMMA InitSaved == Init => SavedInv
BY DEF Init, SavedInv, ClearHarmless, MemoryIsSaved, NoZombieRows, Restorable, Idle, Threads

LEMMA StutterSaved == ASSUME SavedInv, UNCHANGED vars PROVE SavedInv'
BY DEF vars, SavedInv, ClearHarmless, MemoryIsSaved, NoZombieRows, Restorable, ClearInFlight,
       RemoveInFlight

\* Memory, table and the deletions under way fit together at every step, with
\* any number of requests in any order, failing writes and restarts included.
THEOREM SavedInvariant == WholeClears => (Spec => [](TypeOK /\ PosInv /\ TableInv /\ SavedInv))
<1> SUFFICES ASSUME WholeClears PROVE Spec => [](TypeOK /\ PosInv /\ TableInv /\ SavedInv)
  OBVIOUS
<1>1. Init => TypeOK /\ PosInv /\ TableInv /\ SavedInv
  BY InitType, InitPos, InitTable, InitSaved
<1>2. (TypeOK /\ PosInv /\ TableInv /\ SavedInv) /\ [Next]_vars
         => (TypeOK /\ PosInv /\ TableInv /\ SavedInv)'
  BY TypeNext, PosNext, TableNext, SavedNext, StutterType, StutterTable, StutterSaved
<1> QED BY <1>1, <1>2, PTL DEF Spec

\* Whenever the process dies, the table holds every item of the memory as it is,
\* but for those whose last write failed or went under a queue.clear.
THEOREM MemoryStaysSaved == WholeClears => (Spec => []MemoryIsSaved)
<1> SUFFICES ASSUME WholeClears PROVE Spec => []MemoryIsSaved
  OBVIOUS
<1>1. TypeOK /\ PosInv /\ TableInv /\ SavedInv => MemoryIsSaved
  BY DEF SavedInv
<1> QED BY <1>1, SavedInvariant, PTL

\* What the client removed or cleared does not come back: a pipeline that ends
\* late never writes the row of a removed item again.
THEOREM RemovedStaysRemoved == WholeClears => (Spec => []NoZombieRows)
<1> SUFFICES ASSUME WholeClears PROVE Spec => []NoZombieRows
  OBVIOUS
<1>1. TypeOK /\ PosInv /\ TableInv /\ SavedInv => NoZombieRows
  BY DEF SavedInv
<1> QED BY <1>1, SavedInvariant, PTL

-----------------------------------------------------------------------------
(* Running items *)

\* Somebody answers for item i: what RunningIsOwned asks for.
Owned(i) ==
    \/ i \in stranded
    \/ \E d \in Dispatchers :
          \/ worker[d][i] # "none"
          \/ disp[d].pc = "launch" /\ Current(d) = i

LEMMA OwnedIs == RunningIsOwned <=> \A i \in queue : item[i].status = "running" => Owned(i)
BY DEF RunningIsOwned, Owned

\* A dispatcher that is at no launch, before and after a step of its own, takes
\* no owner away.
LEMMA OwnedKeeps ==
    ASSUME TypeOK, NEW d \in Dispatchers, OthersKeep(d), disp[d].pc # "launch",
           UNCHANGED <<worker, stranded>>
    PROVE  \A i \in Ids : Owned(i) => Owned(i)'
BY DEF Owned, OthersKeep, Current

\* Running items stay the same or become fewer.
LEMMA FewerRunning ==
    ASSUME TypeOK, RunningIsOwned, queue' \subseteq Ids,
           \A i \in queue' : item'[i].status = "running" => i \in queue /\ item[i].status = "running",
           \A i \in Ids : Owned(i) => Owned(i)'
    PROVE  RunningIsOwned'
<1>1. \A i \in queue' : item'[i].status = "running" => Owned(i)'
  BY OwnedIs DEF TypeOK
<1> QED BY <1>1 DEF RunningIsOwned, Owned

LEMMA OwnedElsewhere ==
    ASSUME TypeOK, TypeOK', PosInv, RunningIsOwned, Elsewhere
    PROVE  RunningIsOwned'
<1>1. UNCHANGED <<disp, worker, stranded>>
  BY ElsewhereKeeps DEF Elsewhere, Add, Priority, Request, Answer, RemoveBegin, RemoveEnd,
     ClearBegin, ClearEnd, CancelBegin, CancelEnd, StartRequest, StartBegin, StartCheck, Vanish
<1>2. \A i \in Ids : Owned(i) => Owned(i)'
  BY <1>1 DEF Owned, Current
<1>3. \A i \in queue' : item'[i].status = "running" => i \in queue /\ item[i].status = "running"
  <2>1. CASE \E p \in Paths, n \in AddPrios : Add(p, n)
    <3>1. PICK p \in Paths, n \in AddPrios : Add(p, n)
      BY <2>1
    <3>2. seq + 1 \in Ids
      BY <3>1, Numbers DEF Add, TypeOK, Ids
    <3>3. /\ queue' = queue \cup {seq + 1} /\ item'[seq + 1].status = "pending"
          /\ \A j \in Ids : j # seq + 1 => item'[j] = item[j]
      BY <3>1, <3>2 DEF Add, TypeOK
    <3> QED BY <3>3 DEF TypeOK
  <2>2. CASE \E i \in Ids, n \in Prios : Priority(i, n)
    <3>1. PICK i \in Ids, n \in Prios : Priority(i, n)
      BY <2>2
    <3>2. queue' = queue /\ \A j \in Ids : item'[j].status = item[j].status
      BY <3>1 DEF Priority, TypeOK, Item
    <3> QED BY <3>2 DEF TypeOK
  <2>3. CASE \E c \in Callers : Request(c) \/ Answer(c)
    BY <2>3 DEF Request, Answer, RemoveBegin, RemoveEnd, ClearBegin, ClearEnd, CancelBegin,
                CancelEnd
  <2>4. CASE \E c \in Starters : StartRequest(c) \/ StartCheck(c)
    BY <2>4 DEF StartRequest, StartBegin, StartCheck
  <2>5. CASE \E p \in Paths : Vanish(p)
    BY <2>5 DEF Vanish
  <2> QED BY <2>1, <2>2, <2>3, <2>4, <2>5 DEF Elsewhere
<1> QED BY <1>2, <1>3, FewerRunning DEF TypeOK

LEMMA OwnedDispatch ==
    ASSUME TypeOK, TypeOK', PosInv, RunningIsOwned, NEW d \in Dispatchers, Dispatch(d)
    PROVE  RunningIsOwned'
<1>0. PosOk(d) /\ queue \subseteq Ids
  BY DEF PosInv, TypeOK
<1>1. CASE Scan(d) \/ SortBatch(d) \/ Join(d) \/ Finish(d)
  <2>1. /\ OthersKeep(d) /\ disp[d].pc # "launch"
        /\ UNCHANGED <<item, queue, worker, stranded>>
    BY <1>1, ScanDoes, SortBatchDoes, JoinDoes, FinishDoes DEF Scan, SortBatch, Join, Finish
  <2> QED BY <1>0, <2>1, OwnedKeeps, FewerRunning
<1>2. CASE Mark(d)
  <2>1. Goto(d, "launch") /\ disp[d].pc = "mark"
    BY <1>2 DEF Mark
  <2>2. /\ OthersKeep(d) /\ disp'[d].pc = "launch"
        /\ disp'[d].batch = disp[d].batch /\ disp'[d].pos = disp[d].pos
    BY <2>1, GotoDoes
  <2>3. PICK j \in Ids : j = Current(d)
    BY <1>2, MarkIsOf
  <2>4. SetItem(j, "running") /\ UNCHANGED <<queue, worker, stranded>>
    BY <1>2, <2>3 DEF Mark
  <2>5. \A i \in Ids : i # j => item'[i] = item[i]
    BY <2>4 DEF SetItem, TypeOK
  <2>6. \A i \in Ids : Owned(i) => Owned(i)'
    BY <2>1, <2>2, <2>4, OwnedKeeps
  <2>7. Current(d)' = j
    BY <2>2, <2>3 DEF Current
  <2>8. Owned(j)'
    BY <2>2, <2>7 DEF Owned
  <2>9. \A i \in queue' : item'[i].status = "running" => Owned(i)'
    BY <1>0, <2>4, <2>5, <2>6, <2>8, OwnedIs
  <2> QED BY <2>9 DEF RunningIsOwned, Owned
<1>3. CASE Launch(d)
  <2>1. PICK j \in Ids : j = Current(d)
    BY <1>0, <1>3, CurrentAhead DEF Launch
  <2>2. /\ OthersKeep(d)
        /\ worker' = [worker EXCEPT ![d][j] = "run"]
        /\ UNCHANGED <<item, queue, stranded>>
    BY <1>3, <2>1, LaunchDoes DEF Launch
  <2>3. \A e \in Dispatchers, i \in Ids : worker'[e][i] = IF e = d /\ i = j THEN "run" ELSE worker[e][i]
    BY <2>2 DEF TypeOK
  <2>4. Owned(j)'
    BY <2>3 DEF Owned
  <2>5. \A i \in Ids : i # j /\ Owned(i) => Owned(i)'
    BY <2>1, <2>2, <2>3 DEF Owned, OthersKeep, Current
  <2>6. \A i \in Ids : Owned(i) => Owned(i)'
    BY <2>4, <2>5
  <2> QED BY <1>0, <2>2, <2>6, FewerRunning
<1>4. CASE LaunchFails(d)
  <2>1. Goto(d, "finish") /\ UNCHANGED <<item, queue, worker>> /\ stranded' = stranded \cup {Current(d)}
    BY <1>4 DEF LaunchFails
  <2>2. OthersKeep(d)
    BY <2>1, GotoDoes
  <2>3. \A i \in Ids : Owned(i) => Owned(i)'
    BY <2>1, <2>2 DEF Owned, OthersKeep, Current
  <2> QED BY <1>0, <2>1, <2>3, FewerRunning
<1> QED BY <1>1, <1>2, <1>3, <1>4 DEF Dispatch

LEMMA OwnedWork ==
    ASSUME TypeOK, TypeOK', RunningIsOwned, NEW d \in Dispatchers, NEW j \in Ids, Work(d, j)
    PROVE  RunningIsOwned'
<1>1. UNCHANGED <<disp, stranded, queue>> /\ queue \subseteq Ids
  BY DEF Work, StartInstall, Pop, Settle, TypeOK
<1>2. CASE StartInstall(d, j) \/ \E r \in {"done", "error"} : Pop(d, j, r)
  <2>1. PICK r \in {"install", "done", "error"} :
            worker' = [worker EXCEPT ![d][j] = r] /\ item' = item
    BY <1>2 DEF StartInstall, Pop
  <2>2. \A e \in Dispatchers, i \in Ids : worker[e][i] # "none" => worker'[e][i] # "none"
    BY <2>1 DEF TypeOK
  <2>3. \A i \in Ids : Owned(i) => Owned(i)'
    BY <1>1, <2>2 DEF Owned, Current
  <2> QED BY <1>1, <2>1, <2>3, FewerRunning
<1>3. CASE Settle(d, j)
  <2>1. /\ SetItem(j, worker[d][j]) /\ worker[d][j] # "running"
        /\ worker' = [worker EXCEPT ![d][j] = "none"]
    BY <1>3 DEF Settle
  <2>2. \A e \in Dispatchers, i \in Ids : i # j => worker'[e][i] = worker[e][i]
    BY <2>1 DEF TypeOK
  <2>3. \A i \in Ids : i # j => item'[i] = item[i] /\ (Owned(i) => Owned(i)')
    BY <1>1, <2>1, <2>2 DEF SetItem, TypeOK, Owned, Current
  <2>4. j \in queue => item'[j].status # "running"
    BY <2>1 DEF SetItem, TypeOK, Item
  <2>5. \A i \in queue' : item'[i].status = "running" => Owned(i)'
    BY <1>1, <2>3, <2>4, OwnedIs
  <2> QED BY <2>5 DEF RunningIsOwned, Owned
<1> QED BY <1>2, <1>3 DEF Work

LEMMA OwnedNext ==
    ASSUME TypeOK, PosInv, RunningIsOwned, Next
    PROVE  RunningIsOwned'
<1>0. TypeOK'
  BY TypeNext
<1>1. ASSUME NEW c \in Starters, NEW d \in Dispatchers, StartSet(c, d) PROVE RunningIsOwned'
  <2>1. OthersKeep(d) /\ disp[d].pc # "launch"
    <3>1. OthersKeep(d) /\ disp[d] = Off
      BY <1>1, StartSetDoes
    <3> QED BY <3>1 DEF Off
  <2>2. queue \subseteq Ids /\ UNCHANGED <<item, queue, worker, stranded>>
    BY <1>1 DEF StartSet, TypeOK
  <2> QED BY <2>1, <2>2, OwnedKeeps, FewerRunning
<1>2. CASE Restart
  <2>1. \A i \in queue' : item'[i].status = "pending"
    <3> SUFFICES ASSUME NEW i \in Ids, Restorable(i) PROVE item'[i].status = "pending"
      BY <1>2 DEF Restart
    <3>1. item'[i] = [rows[i] EXCEPT !.status = "pending"] /\ rows[i] \in Item
      BY <1>2 DEF Restart, Restorable, TypeOK
    <3> QED BY <3>1 DEF Item
  <2> QED BY <2>1 DEF RunningIsOwned
<1> QED BY <1>0, <1>1, <1>2, Steps, OwnedElsewhere, OwnedDispatch, OwnedWork

LEMMA InitOwned == Init => RunningIsOwned
BY DEF Init, RunningIsOwned

LEMMA StutterOwned == ASSUME RunningIsOwned, UNCHANGED vars PROVE RunningIsOwned'
BY DEF vars, RunningIsOwned, Current

\* Nothing is shown as running that nobody runs, except what a dispatcher left
\* behind when the pipeline could not be built.  No hypothesis: it holds with any
\* number of dispatchers, of queue.start and of faults.
THEOREM RunningHasOwner == Spec => []RunningIsOwned
<1>1. Init => TypeOK /\ PosInv /\ RunningIsOwned
  BY InitType, InitPos, InitOwned
<1>2. (TypeOK /\ PosInv /\ RunningIsOwned) /\ [Next]_vars
         => (TypeOK /\ PosInv /\ RunningIsOwned)'
  BY TypeNext, PosNext, OwnedNext, StutterType, StutterOwned
<1> QED BY <1>1, <1>2, PTL DEF Spec

-----------------------------------------------------------------------------
(* What a client sees: the invariant *)

\* The three facts that the mapping to JobQueue rests on, and the absence of
\* failing writes, without which a finished item's row may still say "running".
NoFault   == budget["write"] = 0
RowsAgree == \A i \in queue : rows[i] # None => Agrees(rows[i], item[i])

\* what a dispatcher has taken is pending until it is marked
AheadPending(d) ==
    disp[d].pc \notin {"off", "finish"} =>
        \A i \in Ahead(d) : i \in queue =>
            item[i].status = IF disp[d].pc = "launch" /\ i = Current(d) THEN "running"
                                                                        ELSE "pending"

\* an item somebody works on is shown as running
WorkedRunning ==
    \A d \in Dispatchers, i \in Ids :
        worker[d][i] # "none" /\ i \in queue => item[i].status = "running"

StatusInv ==
    /\ NoFault /\ RowsAgree /\ WorkedRunning
    /\ \A d \in Dispatchers : AheadPending(d)

LEMMA NoFaultNext == ASSUME TypeOK, PosInv, NoFault, Next PROVE NoFault'
<1>0. \A i \in Ids : \A r : Upsert(i, r) => budget' = budget
  BY DEF Upsert, Spend, NoFault
<1>1. \A S : Delete(S) => budget' = budget
  BY DEF Delete, Spend, NoFault
<1>2. CASE Elsewhere
  <2>1. CASE \E p \in Paths, n \in AddPrios : Add(p, n)
    <3>1. PICK p \in Paths, n \in AddPrios : Add(p, n)
      BY <2>1
    <3>2. seq + 1 \in Ids
      BY <3>1, Numbers DEF Add, TypeOK, Ids
    <3> QED BY <1>0, <3>1, <3>2 DEF Add, NoFault
  <2>2. CASE \E i \in Ids, n \in Prios : Priority(i, n)
    BY <1>0, <2>2 DEF Priority, NoFault
  <2>3. CASE \E c \in Callers : Request(c) \/ Answer(c)
    BY <1>1, <2>3 DEF Request, Answer, RemoveBegin, RemoveEnd, ClearBegin, ClearEnd,
                      CancelBegin, CancelEnd, NoFault
  <2>4. CASE \E c \in Starters : StartRequest(c) \/ StartCheck(c)
    BY <2>4 DEF StartRequest, StartBegin, StartCheck, NoFault
  <2>5. CASE \E p \in Paths : Vanish(p)
    BY <2>5 DEF Vanish, NoFault, TypeOK, Bounds
  <2> QED BY <1>2, <2>1, <2>2, <2>3, <2>4, <2>5 DEF Elsewhere
<1>3. ASSUME NEW d \in Dispatchers, Dispatch(d) PROVE NoFault'
  <2>1. CASE Mark(d)
    <3>1. PICK i \in Ids : i = Current(d)
      BY <2>1, MarkIsOf
    <3>2. SetItem(i, "running")
      BY <2>1, <3>1 DEF Mark
    <3> QED BY <1>0, <3>2 DEF SetItem, NoFault
  <2>2. CASE LaunchFails(d)
    BY <2>2 DEF LaunchFails, Spend, NoFault, TypeOK, Bounds
  <2>3. CASE ~Mark(d) /\ ~LaunchFails(d)
    BY <1>3, <2>3 DEF Dispatch, Scan, SortBatch, Launch, Join, Finish, NoFault
  <2> QED BY <2>1, <2>2, <2>3
<1>4. ASSUME NEW d \in Dispatchers, NEW i \in Ids, Work(d, i) PROVE NoFault'
  BY <1>0, <1>4 DEF Work, StartInstall, Pop, Settle, SetItem, NoFault
<1>5. CASE \E c \in Starters, d \in Dispatchers : StartSet(c, d)
  BY <1>5 DEF StartSet, NoFault
<1>6. CASE Restart
  BY <1>6 DEF Restart, NoFault, TypeOK, Bounds
<1> QED BY <1>2, <1>3, <1>4, <1>5, <1>6, Steps

LEMMA RowsAgreeNext == ASSUME TypeOK, PosInv, NoFault, RowsAgree, Next PROVE RowsAgree'
<1>0. TypeOK'
  BY TypeNext
<1>1. ASSUME NEW i \in Ids, Touches(i) PROVE RowsAgree'
  <2>1. Upsert(i, item'[i]) /\ \A j \in Ids : j # i => item'[j] = item[j] /\ (j \in queue' <=> j \in queue)
    BY <1>1 DEF Touches
  <2>2. rows'[i] = item'[i] /\ \A j \in Ids : j # i => rows'[j] = rows[j]
    BY <2>1, UpsertDoes DEF NoFault
  <2>3. Agrees(rows'[i], item'[i])
    BY <2>2 DEF Agrees
  <2>4. \A j \in Ids : j # i => (j \in queue' /\ rows'[j] # None => Agrees(rows'[j], item'[j]))
    BY <2>1, <2>2 DEF RowsAgree
  <2>5. queue' \subseteq Ids
    BY <1>0 DEF TypeOK
  <2> QED BY <2>3, <2>4, <2>5 DEF RowsAgree, Agrees
<1>2. ASSUME item' = item, queue' \subseteq queue, \A i \in Ids : rows'[i] \in {rows[i], None}
      PROVE  RowsAgree'
  BY <1>2 DEF RowsAgree, Agrees, TypeOK
<1>3. ASSUME NEW c \in Callers, NEW i \in Ids, RemoveBegin(c, i) PROVE RowsAgree'
  BY <1>2, <1>3 DEF RemoveBegin
<1>4. ASSUME NEW c \in Callers, RemoveEnd(c) PROVE RowsAgree'
  <2>1. caller[c].id \in Ids /\ Delete({caller[c].id})
    BY <1>4 DEF RemoveEnd, Call, TypeOK, Threads
  <2>2. \A i \in Ids : rows'[i] \in {rows[i], None}
    BY <2>1, DeleteDoes
  <2> QED BY <1>2, <1>4, <2>2 DEF RemoveEnd
<1>5. ASSUME NEW c \in Callers, NEW st \in ClearArgs, ClearBegin(c, st) PROVE RowsAgree'
  BY <1>2, <1>5 DEF ClearBegin
<1>6. ASSUME NEW c \in Callers, ClearEnd(c) PROVE RowsAgree'
  <2>1. \A i \in Ids : rows'[i] \in {rows[i], None}
    BY <1>6, DeleteDoes DEF ClearEnd
  <2> QED BY <1>2, <1>6, <2>1 DEF ClearEnd
<1>7. CASE Idles
  BY <1>2, <1>7 DEF Idles
<1>8. CASE Restart
  <2>1. ASSUME NEW i \in queue' PROVE Agrees(rows'[i], item'[i])
    <3>1. i \in Ids /\ Restorable(i) /\ item'[i] = [rows[i] EXCEPT !.status = "pending"] /\ rows' = rows
      BY <1>8, <2>1 DEF Restart
    <3>2. rows[i].status \in {"pending", "running"} /\ rows[i] \in Item
      BY <3>1 DEF Restorable, TypeOK
    <3>3. item'[i].path = rows[i].path /\ item'[i].prio = rows[i].prio /\ item'[i].status = "pending"
      BY <3>1, <3>2 DEF Item
    <3> QED BY <3>1, <3>2, <3>3 DEF Agrees
  <2> QED BY <2>1 DEF RowsAgree, Agrees
<1> QED BY <1>1, <1>3, <1>4, <1>5, <1>6, <1>7, <1>8, TableSteps

\* Items are entered as new ones only, and only SetItem changes a status.
LEMMA OldStatus ==
    ASSUME TypeOK, Elsewhere
    PROVE  \A i \in Ids : i <= seq /\ i \in queue' => i \in queue /\ item'[i].status = item[i].status
<1>1. CASE \E p \in Paths, n \in AddPrios : Add(p, n)
  <2>1. PICK p \in Paths, n \in AddPrios : Add(p, n)
    BY <1>1
  <2>2. \A i \in Ids : i <= seq => i # seq + 1
    BY IdBounds DEF TypeOK
  <2>3. queue' = queue \cup {seq + 1} /\ \A j \in Ids : j # seq + 1 => item'[j] = item[j]
    BY <2>1 DEF Add, TypeOK
  <2> QED BY <2>2, <2>3
<1>2. CASE \E i \in Ids, n \in Prios : Priority(i, n)
  BY <1>2 DEF Priority, TypeOK, Item
<1>3. CASE \E c \in Callers : Request(c) \/ Answer(c)
  BY <1>3 DEF Request, Answer, RemoveBegin, RemoveEnd, ClearBegin, ClearEnd, CancelBegin,
              CancelEnd
<1>4. CASE \E c \in Starters : StartRequest(c) \/ StartCheck(c)
  BY <1>4 DEF StartRequest, StartBegin, StartCheck
<1>5. CASE \E p \in Paths : Vanish(p)
  BY <1>5 DEF Vanish
<1> QED BY <1>1, <1>2, <1>3, <1>4, <1>5 DEF Elsewhere

\* The two facts about statuses, which the rest of this part is about.
Claims == WorkedRunning /\ \A d \in Dispatchers : AheadPending(d)

LEMMA ClaimsElsewhere ==
    ASSUME TypeOK, PosInv, DispatchInv, Claims, Elsewhere
    PROVE  Claims'
<1>1. /\ UNCHANGED <<disp, worker>>
      /\ \A i \in Ids : i <= seq /\ i \in queue' => i \in queue /\ item'[i].status = item[i].status
  BY ElsewhereKeeps, OldStatus
<1>2. WorkedRunning'
  BY <1>1 DEF Claims, WorkedRunning, DispatchInv, WorkedTaken, Taken
<1>3. ASSUME NEW d \in Dispatchers PROVE AheadPending(d)'
  <2>1. Ahead(d)' = Ahead(d) /\ Current(d)' = Current(d)
    BY <1>1 DEF Ahead, Current
  <2>2. ASSUME disp[d].pc # "off", NEW i \in Ahead(d) PROVE i \in Ids /\ i <= seq
    <3>1. AheadFree(d)
      BY <2>2 DEF DispatchInv, DispInv, On
    <3> QED BY <2>2, <3>1, AheadIds DEF AheadFree, PosInv
  <2> QED BY <1>1, <2>1, <2>2 DEF Claims, AheadPending
<1> QED BY <1>2, <1>3 DEF Claims

\* A step of the dispatcher that is on: the others are off, and stay so.
LEMMA ClaimsOf ==
    ASSUME DispatchInv, NEW d \in Dispatchers, On(d), OthersKeep(d),
           WorkedRunning', AheadPending(d)'
    PROVE  Claims'
<1>1. ASSUME NEW e \in Dispatchers, e # d PROVE AheadPending(e)'
  <2>1. disp'[e].pc = "off"
    BY <1>1 DEF DispatchInv, OneOn, On, OthersKeep
  <2> QED BY <2>1 DEF AheadPending
<1> QED BY <1>1 DEF Claims

LEMMA ClaimsDispatch ==
    ASSUME TypeOK, PosInv, DispatchInv, Claims, NEW d \in Dispatchers, Dispatch(d)
    PROVE  Claims'
<1>0. PosOk(d) /\ queue \subseteq Ids /\ WorkedRunning /\ AheadPending(d) /\ disp[d] \in DispatcherState
  BY DEF PosInv, TypeOK, Claims
<1>1. CASE Scan(d)
  <2>1. /\ OthersKeep(d) /\ disp[d].pc = "scan" /\ disp'[d].pc \in {"finish", "sort"}
        /\ disp'[d].snap = {i \in queue : item[i].status = "pending"}
        /\ disp'[d].batch = disp[d].batch /\ disp'[d].pos = disp[d].pos
        /\ UNCHANGED <<item, queue, worker>>
    BY <1>1, ScanDoes DEF Scan
  <2>2. \A i \in Ahead(d)' : i \in Ahead(d) \/ item[i].status = "pending"
    BY <2>1 DEF Ahead
  <2>3. AheadPending(d)'
    BY <1>0, <2>1, <2>2 DEF AheadPending
  <2> QED BY <1>0, <2>1, <2>3, ClaimsOf DEF On, WorkedRunning
<1>2. CASE SortBatch(d)
  <2>1. /\ OthersKeep(d) /\ disp[d].pc = "sort" /\ disp'[d].pc = "mark"
        /\ disp'[d].snap = {} /\ disp'[d].pos = 1
        /\ disp'[d].batch \in Ranked(disp[d].snap, disp[d].par)
        /\ UNCHANGED <<item, queue, worker>>
    BY <1>2, SortBatchDoes DEF SortBatch
  <2>2. \A k \in 1..Len(disp'[d].batch) : disp'[d].batch[k] \in disp[d].snap
    <3>1. disp[d].snap \in SUBSET Ids /\ disp[d].par \in 1..4 /\ item \in [Ids -> Item]
      BY DEF TypeOK, DispatcherState
    <3> QED BY <2>1, <3>1, RankedIs
  <2>3. \A i \in Ahead(d)' : i \in Ahead(d)
    BY <2>1, <2>2 DEF Ahead
  <2>4. AheadPending(d)'
    BY <1>0, <2>1, <2>3 DEF AheadPending
  <2> QED BY <1>0, <2>1, <2>4, ClaimsOf DEF On, WorkedRunning
<1>3. CASE Mark(d)
  <2>1. Goto(d, "launch") /\ disp[d].pc = "mark"
    BY <1>3 DEF Mark
  <2>2. /\ OthersKeep(d) /\ disp'[d].pc = "launch" /\ disp'[d].snap = disp[d].snap
        /\ disp'[d].batch = disp[d].batch /\ disp'[d].pos = disp[d].pos
    BY <2>1, GotoDoes
  <2>3. PICK j \in Ids : j = Current(d)
    BY <1>3, MarkIsOf
  <2>4. SetItem(j, "running") /\ UNCHANGED <<queue, worker>>
    BY <1>3, <2>3 DEF Mark
  <2>5. /\ \A i \in Ids : i # j => item'[i] = item[i]
        /\ j \in queue => item'[j].status = "running"
    BY <2>4 DEF SetItem, TypeOK, Item
  <2>6. Ahead(d)' = Ahead(d) /\ Current(d)' = j
    BY <2>2, <2>3 DEF Ahead, Current
  <2>7. AheadPending(d)'
    BY <1>0, <2>1, <2>2, <2>4, <2>5, <2>6 DEF AheadPending
  <2>8. WorkedRunning'
    BY <1>0, <2>4, <2>5 DEF WorkedRunning
  <2> QED BY <2>1, <2>2, <2>7, <2>8, ClaimsOf DEF On
<1>4. CASE Launch(d)
  <2>1. /\ OthersKeep(d) /\ disp[d].pc = "launch" /\ disp'[d].pc \in {"mark", "join"}
        /\ disp'[d].pos = disp[d].pos + 1
        /\ disp'[d].snap = disp[d].snap /\ disp'[d].batch = disp[d].batch
    BY <1>4, LaunchDoes
  <2>2. PICK j \in Ids : j = Current(d) /\ j \in Ahead(d)
    BY <1>0, <2>1, CurrentAhead
  <2>3. worker' = [worker EXCEPT ![d][j] = "run"] /\ UNCHANGED <<item, queue>>
    BY <1>4, <2>2 DEF Launch
  <2>4. \A e \in Dispatchers, i \in Ids : ~(e = d /\ i = j) => worker'[e][i] = worker[e][i]
    BY <2>3 DEF TypeOK
  <2>5. j \in queue => item[j].status = "running"
    BY <1>0, <2>1, <2>2 DEF AheadPending
  <2>6. WorkedRunning'
    BY <1>0, <2>3, <2>4, <2>5 DEF WorkedRunning
  <2>7. ASSUME NEW i \in Ahead(d)' PROVE i \in Ahead(d) /\ i # j
    <3>1. BatchOk(d) /\ disp[d].snap = {}
      BY <2>1 DEF DispatchInv, DispInv, BatchOk, On
    <3>2. PICK k \in disp[d].pos + 1 .. Len(disp[d].batch) : i = disp[d].batch[k]
      BY <2>1, <2>7, <3>1 DEF Ahead
    <3>3. /\ disp[d].pos \in 1..Len(disp[d].batch) /\ k \in disp[d].pos .. Len(disp[d].batch)
          /\ k \in 1..Len(disp[d].batch) /\ k # disp[d].pos
      BY <1>0, <2>1, <3>2 DEF PosOk, DispatcherState
    <3>4. i # j
      BY <2>2, <3>1, <3>2, <3>3 DEF BatchOk, Current
    <3> QED BY <3>2, <3>3, <3>4 DEF Ahead
  <2>8. AheadPending(d)'
    BY <1>0, <2>1, <2>2, <2>3, <2>7 DEF AheadPending
  <2> QED BY <2>1, <2>6, <2>8, ClaimsOf DEF On
<1>5. CASE LaunchFails(d)
  <2>1. Goto(d, "finish") /\ disp[d].pc = "launch" /\ UNCHANGED <<item, queue, worker>>
    BY <1>5 DEF LaunchFails
  <2>2. OthersKeep(d) /\ disp'[d].pc = "finish"
    BY <2>1, GotoDoes
  <2> QED BY <1>0, <2>1, <2>2, ClaimsOf DEF On, WorkedRunning, AheadPending
<1>6. CASE Join(d)
  <2>1. /\ OthersKeep(d) /\ disp[d].pc = "join" /\ disp'[d].pc = "scan" /\ disp'[d].batch = <<>>
        /\ disp'[d].pos = 1 /\ disp'[d].snap = disp[d].snap
        /\ UNCHANGED <<item, queue, worker>>
    BY <1>6, JoinDoes DEF Join
  <2>2. \A i \in Ahead(d)' : i \in Ahead(d)
    <3>1. 1..Len(disp'[d].batch) = {}
      BY <2>1
    <3> QED BY <2>1, <3>1 DEF Ahead
  <2>3. AheadPending(d)'
    BY <1>0, <2>1, <2>2 DEF AheadPending
  <2> QED BY <1>0, <2>1, <2>3, ClaimsOf DEF On, WorkedRunning
<1>7. CASE Finish(d)
  <2>1. OthersKeep(d) /\ disp[d].pc = "finish" /\ disp'[d] = Off /\ UNCHANGED <<item, queue, worker>>
    BY <1>7, FinishDoes DEF Finish
  <2>2. disp'[d].pc = "off"
    BY <2>1 DEF Off
  <2> QED BY <1>0, <2>1, <2>2, ClaimsOf DEF On, WorkedRunning, AheadPending
<1> QED BY <1>1, <1>2, <1>3, <1>4, <1>5, <1>6, <1>7 DEF Dispatch

LEMMA ClaimsStartSet ==
    ASSUME TypeOK, DispatchInv, Claims, NEW c \in Starters, NEW d \in Dispatchers, StartSet(c, d)
    PROVE  Claims'
<1>1. /\ OthersKeep(d) /\ disp'[d].batch = <<>> /\ disp'[d].pos = 1 /\ disp'[d].snap = {}
      /\ UNCHANGED <<item, queue, worker>>
  BY StartSetDoes DEF StartSet
<1>2. Ahead(d)' = {}
  <2>1. 1..Len(disp'[d].batch) = {}
    BY <1>1
  <2> QED BY <1>1, <2>1 DEF Ahead
<1>3. \A e \in Dispatchers : AheadPending(e)'
  BY <1>1, <1>2 DEF Claims, AheadPending, OthersKeep, Ahead, Current
<1>4. WorkedRunning'
  BY <1>1 DEF Claims, WorkedRunning
<1> QED BY <1>3, <1>4 DEF Claims

LEMMA ClaimsWork ==
    ASSUME TypeOK, PosInv, DispatchInv, Claims, NEW d \in Dispatchers, NEW j \in Ids, Work(d, j)
    PROVE  Claims'
<1>1. /\ UNCHANGED <<disp, queue>> /\ worker[d][j] # "none"
      /\ worker \in [Dispatchers -> [Ids -> WorkerState]] /\ queue \subseteq Ids
  BY DEF Work, StartInstall, Pop, Settle, Live, TypeOK
<1>2. \A i \in Ids : i # j => item'[i] = item[i]
  BY DEF Work, StartInstall, Pop, Settle, SetItem, TypeOK
<1>3. \A e \in Dispatchers, i \in Ids : ~(e = d /\ i = j) => worker'[e][i] = worker[e][i]
  <2>1. \E r : worker' = [worker EXCEPT ![d][j] = r]
    BY DEF Work, StartInstall, Pop, Settle
  <2> QED BY <1>1, <2>1
<1>4. item'[j] = item[j] \/ worker'[d][j] = "none"
  BY <1>1 DEF Work, StartInstall, Pop, Settle
<1>5. WorkedRunning'
  <2> SUFFICES ASSUME NEW e \in Dispatchers, NEW i \in Ids, worker'[e][i] # "none", i \in queue
               PROVE  item'[i].status = "running"
    BY <1>1 DEF WorkedRunning
  <2>1. worker[e][i] # "none"
    BY <1>1, <1>3
  <2>2. CASE i # j
    BY <1>2, <2>1, <2>2 DEF Claims, WorkedRunning
  <2>3. CASE i = j
    <3>1. e = d
      BY <1>1, <2>1, <2>3 DEF DispatchInv, OneWorkerPerItem
    <3> QED BY <1>4, <2>1, <2>3, <3>1 DEF Claims, WorkedRunning
  <2> QED BY <2>2, <2>3
<1>6. ASSUME NEW e \in Dispatchers PROVE AheadPending(e)'
  <2>1. Ahead(e)' = Ahead(e) /\ Current(e)' = Current(e)
    BY <1>1 DEF Ahead, Current
  <2>2. ASSUME disp[e].pc # "off", NEW i \in Ahead(e) PROVE i \in Ids /\ i # j
    <3>1. AheadFree(e)
      BY <2>2 DEF DispatchInv, DispInv, On
    <3> QED BY <1>1, <2>2, <3>1, AheadIds DEF AheadFree, PosInv
  <2> QED BY <1>1, <1>2, <2>1, <2>2 DEF Claims, AheadPending
<1> QED BY <1>5, <1>6 DEF Claims

LEMMA ClaimsRestart == ASSUME Restart PROVE Claims'
BY DEF Restart, Claims, WorkedRunning, AheadPending, Off

LEMMA StatusNext ==
    ASSUME TypeOK, PosInv, DispatchInv, StatusInv, Next
    PROVE  StatusInv'
<1>1. Claims
  BY DEF StatusInv, Claims
<1>2. Claims'
  BY <1>1, Steps, ClaimsElsewhere, ClaimsStartSet, ClaimsDispatch, ClaimsWork, ClaimsRestart
<1>3. NoFault' /\ RowsAgree'
  BY NoFaultNext, RowsAgreeNext DEF StatusInv
<1> QED BY <1>2, <1>3 DEF StatusInv, Claims

\* The hypotheses: one queue.start at a time, and writes that succeed.
OneClient == OneStarter /\ MaxWriteFaults = 0

LEMMA InitStatus == ASSUME MaxWriteFaults = 0, Init PROVE StatusInv
<1>1. NoFault
  BY DEF Init, NoFault, Bounds
<1>2. RowsAgree /\ WorkedRunning
  BY DEF Init, RowsAgree, WorkedRunning
<1>3. \A d \in Dispatchers : AheadPending(d)
  BY DEF Init, AheadPending, Off
<1> QED BY <1>1, <1>2, <1>3 DEF StatusInv

LEMMA StutterStatus == ASSUME StatusInv, UNCHANGED vars PROVE StatusInv'
BY DEF vars, StatusInv, NoFault, RowsAgree, WorkedRunning, AheadPending, Ahead, Current

\* What memory, table, dispatchers and pipelines agree on, so that a client sees
\* an item go from one status to the next in order.
THEOREM StatusInvariant ==
    OneClient => (Spec => [](TypeOK /\ PosInv /\ DispatchInv /\ StatusInv))
<1> SUFFICES ASSUME OneClient
             PROVE  Spec => [](TypeOK /\ PosInv /\ DispatchInv /\ StatusInv)
  OBVIOUS
<1>0. OneStarter /\ MaxWriteFaults = 0
  BY DEF OneClient
<1>1. Init => TypeOK /\ PosInv /\ DispatchInv /\ StatusInv
  BY <1>0, InitType, InitPos, InitDispatch, InitStatus
<1>2. (TypeOK /\ PosInv /\ DispatchInv /\ StatusInv) /\ [Next]_vars
         => (TypeOK /\ PosInv /\ DispatchInv /\ StatusInv)'
  BY <1>0, TypeNext, PosNext, DispatchNext, StatusNext, StutterType, StutterDispatch,
     StutterStatus
<1> QED BY <1>1, <1>2, PTL DEF Spec

-----------------------------------------------------------------------------
(* What a client sees: every step is one of JobQueue *)

\* The view of one item
View(i) == IF i \in queue THEN item[i].status ELSE "absent"

LEMMA ViewMoves ==
    ASSUME NEW j \in Ids, NEW st, \A i \in Ids : i # j => View(i)' = View(i), View(j)' = st
    PROVE  ClientView' = [ClientView EXCEPT ![j] = st]
BY DEF ClientView, View

LEMMA ViewStays == ASSUME \A i \in Ids : View(i)' = View(i) PROVE ClientView' = ClientView
BY DEF ClientView, View

LEMMA AddSubmits ==
    ASSUME TypeOK, DispatchInv, NEW p \in Paths, NEW n \in AddPrios, Add(p, n)
    PROVE  Jobs!Submit(seq + 1) /\ seq + 1 \in Ids
<1>1. seq + 1 \in Ids /\ seq + 1 \notin queue
  <2>1. seq + 1 \in Ids
    BY Numbers DEF Add, TypeOK, Ids
  <2>2. seq \in Nat /\ \A i \in queue : i \in Nat /\ i <= seq
    BY IdBounds DEF DispatchInv, QueueOld, TypeOK
  <2> QED BY <2>1, <2>2
<1>2. /\ queue' = queue \cup {seq + 1} /\ item'[seq + 1].status = "pending"
      /\ \A j \in Ids : j # seq + 1 => item'[j] = item[j]
  BY <1>1 DEF Add, TypeOK
<1>3. ClientView' = [ClientView EXCEPT ![seq + 1] = "pending"]
  BY <1>1, <1>2, ViewMoves DEF View
<1>4. ClientView[seq + 1] = "absent"
  BY <1>1 DEF ClientView
<1> QED BY <1>1, <1>3, <1>4 DEF Jobs!Submit, Jobs!Move

\* queue.remove and queue.clear take items out and change nothing else.
LEMMA LeavingForgets ==
    ASSUME item' = item, queue' \subseteq queue, queue \subseteq Ids
    PROVE  \E S \in SUBSET Ids : Jobs!Forget(S)
<1> DEFINE S == queue \ queue'
<1>1. S \in SUBSET Ids
  OBVIOUS
<1>2. ClientView' = [j \in Ids |-> IF j \in S THEN "absent" ELSE ClientView[j]]
  BY DEF ClientView
<1> QED BY <1>1, <1>2 DEF Jobs!Forget

LEMMA SetItemMoves ==
    ASSUME TypeOK, NEW j \in Ids, NEW st \in Statuses, SetItem(j, st), queue' = queue
    PROVE  /\ j \notin queue => ClientView' = ClientView
           /\ j \in queue => ClientView' = [ClientView EXCEPT ![j] = st]
<1>1. CASE j \notin queue
  BY <1>1 DEF SetItem, ClientView
<1>2. CASE j \in queue
  <2>1. item'[j].status = st /\ \A i \in Ids : i # j => item'[i] = item[i]
    BY <1>2 DEF SetItem, TypeOK, Item
  <2> QED BY <1>2, <2>1, ViewMoves DEF View
<1> QED BY <1>1, <1>2

LEMMA MarkTakes ==
    ASSUME TypeOK, PosInv, StatusInv, NEW d \in Dispatchers, Mark(d)
    PROVE  (\E j \in Ids : Jobs!Take(j)) \/ ClientView' = ClientView
<1>1. PICK j \in Ids : j = Current(d) /\ j \in Ahead(d)
  BY CurrentAhead DEF Mark, PosInv
<1>2. SetItem(j, "running") /\ queue' = queue /\ disp[d].pc = "mark" /\ "running" \in Statuses
  BY <1>1 DEF Mark, Statuses
<1>3. CASE j \in queue
  <2>1. ClientView[j] = "pending"
    BY <1>1, <1>2, <1>3 DEF StatusInv, AheadPending, ClientView
  <2>2. ClientView' = [ClientView EXCEPT ![j] = "running"]
    BY <1>2, <1>3, SetItemMoves
  <2> QED BY <2>1, <2>2 DEF Jobs!Take, Jobs!Move
<1>4. CASE j \notin queue
  BY <1>2, <1>4, SetItemMoves
<1> QED BY <1>3, <1>4

LEMMA WorkCompletes ==
    ASSUME TypeOK, StatusInv, NEW d \in Dispatchers, NEW j \in Ids, Work(d, j)
    PROVE  (\E r \in {"done", "error"} : Jobs!Complete(j, r)) \/ ClientView' = ClientView
<1>1. CASE StartInstall(d, j) \/ \E r \in {"done", "error"} : Pop(d, j, r)
  BY <1>1 DEF StartInstall, Pop, ClientView
<1>2. CASE Settle(d, j)
  <2>1. PICK r \in {"done", "error"} : worker[d][j] = r
    BY <1>2 DEF Settle
  <2>2. SetItem(j, r) /\ queue' = queue /\ r \in Statuses
    BY <1>2, <2>1 DEF Settle, Statuses
  <2>3. CASE j \in queue
    <3>1. ClientView[j] = "running"
      BY <2>1, <2>3 DEF StatusInv, WorkedRunning, ClientView
    <3>2. ClientView' = [ClientView EXCEPT ![j] = r]
      BY <2>2, <2>3, SetItemMoves
    <3> QED BY <3>1, <3>2 DEF Jobs!Complete, Jobs!Move
  <2>4. CASE j \notin queue
    BY <2>2, <2>4, SetItemMoves
  <2> QED BY <2>3, <2>4
<1> QED BY <1>1, <1>2 DEF Work

\* What a restart restores was not finished, as the rows agree with the memory.
LEMMA RestartRestarts ==
    ASSUME TypeOK, StatusInv, Restart
    PROVE  \E S \in SUBSET Ids : Jobs!Restart(S)
<1> DEFINE S == {i \in Ids : Restorable(i)}
<1>1. \A i \in S : ClientView[i] \in {"pending", "running"} \cup {"absent"}
  <2> SUFFICES ASSUME NEW i \in S, i \in queue PROVE item[i].status \in {"pending", "running"}
    BY DEF ClientView
  <2>1. rows[i] # None /\ rows[i].status \in {"pending", "running"}
    BY DEF Restorable
  <2>2. Agrees(rows[i], item[i])
    BY <2>1 DEF StatusInv, RowsAgree
  <2> QED BY <2>1, <2>2 DEF Agrees
<1>2. \A i \in S : item'[i].status = "pending"
  <2> SUFFICES ASSUME NEW i \in S PROVE item'[i].status = "pending"
    OBVIOUS
  <2>1. item'[i] = [rows[i] EXCEPT !.status = "pending"] /\ rows[i] \in Item
    BY DEF Restart, Restorable, TypeOK
  <2> QED BY <2>1 DEF Item
<1>3. queue' = S /\ S \in SUBSET Ids
  BY DEF Restart
<1> HIDE DEF S
<1>4. ClientView' = [j \in Ids |-> IF j \in S THEN "pending" ELSE "absent"]
  BY <1>2, <1>3 DEF ClientView
<1>5. Jobs!Restart(S)
  BY <1>1, <1>4 DEF Jobs!Restart, Jobs!Unfinished
<1> QED BY <1>3, <1>5

LEMMA NextIsJobs ==
    ASSUME TypeOK, PosInv, DispatchInv, StatusInv, Next
    PROVE  Jobs!Next \/ ClientView' = ClientView
<1>0. queue \subseteq Ids
  BY DEF TypeOK
<1>1. CASE \E p \in Paths, n \in AddPrios : Add(p, n)
  BY <1>1, AddSubmits DEF Jobs!Next
<1>2. CASE \E i \in Ids, n \in Prios : Priority(i, n)
  <2>1. \A i \in Ids : item'[i].status = item[i].status /\ queue' = queue
    BY <1>2 DEF Priority, TypeOK, Item
  <2> QED BY <2>1, ViewStays DEF View
<1>3. CASE \E c \in Callers : Request(c) \/ Answer(c)
  <2>1. item' = item /\ queue' \subseteq queue
    BY <1>3 DEF Request, Answer, RemoveBegin, RemoveEnd, ClearBegin, ClearEnd, CancelBegin,
                CancelEnd
  <2> QED BY <1>0, <2>1, LeavingForgets DEF Jobs!Next
<1>4. CASE UNCHANGED <<item, queue>>
  BY <1>4 DEF ClientView
<1>5. CASE \E c \in Starters : StartRequest(c) \/ StartAnswer(c)
  BY <1>4, <1>5 DEF StartRequest, StartBegin, StartAnswer, StartCheck, StartSet
<1>6. ASSUME NEW d \in Dispatchers, Dispatch(d) PROVE Jobs!Next \/ ClientView' = ClientView
  <2>1. CASE Mark(d)
    BY <2>1, MarkTakes DEF Jobs!Next
  <2>2. CASE ~Mark(d)
    BY <1>4, <1>6, <2>2 DEF Dispatch, Scan, SortBatch, Launch, LaunchFails, Join, Finish
  <2> QED BY <2>1, <2>2
<1>7. ASSUME NEW d \in Dispatchers, NEW i \in Ids, Work(d, i)
      PROVE  Jobs!Next \/ ClientView' = ClientView
  BY <1>7, WorkCompletes DEF Jobs!Next
<1>8. CASE Restart
  BY <1>8, RestartRestarts DEF Jobs!Next
<1>9. CASE \E p \in Paths : Vanish(p)
  BY <1>4, <1>9 DEF Vanish
<1> QED BY <1>1, <1>2, <1>3, <1>5, <1>6, <1>7, <1>8, <1>9 DEF Next, Environment

\* For a client that awaits the answer of one queue.start before the next, and
\* a table that takes what is written, the queue is a JobQueue: a job waits, is
\* taken once, ends once and stays as it ended until the client forgets it or the
\* process restarts, which takes back unfinished work only.
THEOREM QueueIsAJobQueue == OneClient => (Spec => ImplementsJobQueue)
<1> SUFFICES ASSUME OneClient PROVE Spec => ImplementsJobQueue
  OBVIOUS
<1>1. Init => Jobs!Init
  BY DEF Init, Jobs!Init, ClientView
<1>2. (TypeOK /\ PosInv /\ DispatchInv /\ StatusInv) /\ [Next]_vars => [Jobs!Next]_ClientView
  <2> SUFFICES ASSUME TypeOK, PosInv, DispatchInv, StatusInv, [Next]_vars
               PROVE  Jobs!Next \/ ClientView' = ClientView
    OBVIOUS
  <2>1. CASE UNCHANGED vars
    BY <2>1 DEF vars, ClientView
  <2> QED BY <2>1, NextIsJobs
<1> QED BY <1>1, <1>2, StatusInvariant, PTL DEF Spec, ImplementsJobQueue, Jobs!Spec
=============================================================================
