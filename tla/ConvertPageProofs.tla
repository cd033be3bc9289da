------------------------- MODULE ConvertPageProofs -------------------------
(***************************************************************************)
(* Theorems about ConvertPage, for any files and any of them that the      *)
(* sidecar refuses: while no batch runs, no pipeline.start times out in    *)
(* the client, and the page is rendered before drops, clicks and timers    *)
(* find it, it converts one file at a time, attributes each outcome to the *)
(* right one, and the conversion that waits is the one that can be told.   *)
(***************************************************************************)
EXTENDS ConvertPage, FiniteSetTheorems, SequenceTheorems, WellFoundedInduction, TLAPS

\* The sidecar's batch queue is idle, and the start of a pipeline answered in
\* time; React renders between events.
Alone == ConvertPageAssumption /\ Batch = {} /\ Late = {} /\ RenderFirst

-----------------------------------------------------------------------------
(* The inductive invariant: the page and the sidecar are in one of four    *)
(* phases, and the queue agrees with the outcomes.                         *)

PageType == TypeOK /\ seen \in [queue : Seq(Entry), running : BOOLEAN]

\* A file is in the queue once, and a mark on it is its outcome.
EachOnce == \A i, j \in DOMAIN queue : queue[i].id = queue[j].id => i = j

\* Files the page takes for running
Marks(p) == \A i \in DOMAIN queue :
    /\ queue[i].status = "running" => queue[i].id = p
    /\ queue[i].id = p => queue[i].status \in {"pending", "running"}

IsStart(i) == main[i].do \in {"start", "late"}
NoStart    == \A i \in DOMAIN main : ~IsStart(i)
NoneActive == \A x \in Paths : ~Active(x)
Busy(p)    == running /\ output = None /\ Marks(p)

ReadyOf(p)        == [ev |-> "ready", of |-> p, ok |-> TRUE]
RefusedOf(p)      == [ev |-> "refused", of |-> p, ok |-> FALSE]
FinishedOf(p, ok) == [ev |-> "finished", of |-> p, ok |-> ok]

\* What is on its way to the page, and to the sidecar's main thread
OnTheWay(b, s) == bus = b /\ posted = s
Quiet          == OnTheWay(<<>>, <<>>)

\* Nothing is converted.
Idle ==
    /\ ~running /\ NoStart /\ NoneActive /\ Quiet /\ report = None
    /\ \A i \in DOMAIN queue : queue[i].status # "running"

\* startNext has asked for p.
Asked(p) ==
    /\ Busy(p) /\ NoneActive /\ Quiet /\ report = None
    /\ \E k \in DOMAIN main : /\ main[k] = [do |-> "start", path |-> p]
                              /\ \A i \in DOMAIN main : IsStart(i) => i = k

\* The sidecar converts p; its report is on its way or may be on the screen.
Works(p) ==
    /\ Busy(p) /\ NoStart /\ current = p
    /\ \A x \in Paths : Active(x) <=> x = p
    /\ report \in {None, p}
    /\ \/ Quiet
       \/ /\ conv[p] \in {"awaiting", "ending"}
          /\ OnTheWay(<<>>, <<ReadyOf(p)>>) \/ OnTheWay(<<ReadyOf(p)>>, <<>>)

\* It has ended, or was refused; the page does not know.
Refused(p) ==
    /\ OnTheWay(<<RefusedOf(p)>>, <<>>) /\ report = None /\ outcome[p] = "failed"
Ended(p, ok) ==
    /\ current = p /\ report \in {None, p}
    /\ \/ OnTheWay(<<>>, <<FinishedOf(p, ok)>>) \/ OnTheWay(<<FinishedOf(p, ok)>>, <<>>)
       \/ OnTheWay(<<>>, <<ReadyOf(p), FinishedOf(p, ok)>>)
       \/ OnTheWay(<<ReadyOf(p)>>, <<FinishedOf(p, ok)>>)
       \/ OnTheWay(<<ReadyOf(p), FinishedOf(p, ok)>>, <<>>)
    /\ outcome[p] = IF ok THEN "success" ELSE "failed"
Ends(p) ==
    /\ Busy(p) /\ NoStart /\ NoneActive
    /\ Refused(p) \/ \E ok \in BOOLEAN : Ended(p, ok)

Phase == Idle \/ \E p \in Paths : Asked(p) \/ Works(p) \/ Ends(p)

PageInv == PageType /\ EachOnce /\ OwnOutcome /\ Phase
core == <<queue, running, report, output, main, posted, bus, current, conv, outcome>>

-----------------------------------------------------------------------------
(* The helpers of the page *)

Statuses == {"pending", "running", "success", "failed"}

\* A sequence can be given as a function of its positions.
LEMMA MakeSeq ==
    ASSUME NEW S, NEW n \in Nat, NEW f \in [1..n -> S]
    PROVE  f \in Seq(S) /\ Len(f) = n /\ DOMAIN f = 1..n
<1>1. f \in Seq(S)
  BY SeqDef
<1> QED BY <1>1, LenProperties

LEMMA EntriesOf ==
    ASSUME NEW t \in Seq(Entry)
    PROVE  /\ DOMAIN t = 1..Len(t) /\ Len(t) \in Nat
           /\ \A i \in DOMAIN t : /\ t[i] \in Entry /\ t[i].id \in Paths /\ t[i].status \in Statuses
                                  /\ t[i] = [id |-> t[i].id, status |-> t[i].status]
<1>1. DOMAIN t = 1..Len(t) /\ Len(t) \in Nat /\ \A i \in DOMAIN t : t[i] \in Entry
  BY LenProperties, ElementOfSeq
<1> QED BY <1>1 DEF Entry, Statuses

\* Marked changes the status of the entries of one file and nothing else,
LEMMA MarkedEntries ==
    ASSUME NEW t \in Seq(Entry), NEW p \in Paths, NEW s \in Statuses
    PROVE  /\ Marked(t, p, s) \in Seq(Entry) /\ DOMAIN Marked(t, p, s) = DOMAIN t
           /\ \A i \in DOMAIN t : /\ Marked(t, p, s)[i].id = t[i].id
                                  /\ Marked(t, p, s)[i].status =
                                         IF t[i].id = p THEN s ELSE t[i].status
<1> DEFINE m == Marked(t, p, s)
<1>1. /\ DOMAIN m = DOMAIN t
      /\ \A i \in DOMAIN t : m[i] = IF t[i].id = p THEN [t[i] EXCEPT !.status = s] ELSE t[i]
  BY DEF Marked
<1>2. \A i \in DOMAIN t : /\ m[i] \in Entry /\ m[i].id = t[i].id
                          /\ m[i].status = IF t[i].id = p THEN s ELSE t[i].status
  <2> HIDE DEF m
  <2> TAKE i \in DOMAIN t
  <2>1. t[i] \in Entry
    BY EntriesOf
  <2>2. CASE t[i].id = p
    BY <1>1, <2>1, <2>2 DEF Entry, Statuses
  <2>3. CASE t[i].id # p
    BY <1>1, <2>1, <2>3
  <2> QED BY <2>2, <2>3
<1>3. m \in [1..Len(t) -> Entry]
  <2>1. m = [i \in 1..Len(t) |-> m[i]]
    BY <1>1, EntriesOf DEF Marked
  <2> QED BY <1>2, <2>1, EntriesOf
<1> HIDE DEF m
<1>4. m \in Seq(Entry)
  BY <1>3, EntriesOf, MakeSeq
<1> QED BY <1>1, <1>2, <1>4 DEF m

\* and so does the update of one entry.
LEMMA OneMarked ==
    ASSUME NEW t \in Seq(Entry), NEW k \in DOMAIN t, NEW s \in Statuses
    PROVE  LET m == [t EXCEPT ![k].status = s] IN
           /\ m \in Seq(Entry) /\ DOMAIN m = DOMAIN t
           /\ \A i \in DOMAIN t : /\ m[i].id = t[i].id
                                  /\ m[i].status = IF i = k THEN s ELSE t[i].status
<1> DEFINE m == [t EXCEPT ![k].status = s]
<1>1. /\ DOMAIN m = DOMAIN t
      /\ \A i \in DOMAIN t : m[i] = IF i = k THEN [t[i] EXCEPT !.status = s] ELSE t[i]
  OBVIOUS
<1>2. \A i \in DOMAIN t : /\ m[i] \in Entry /\ m[i].id = t[i].id
                          /\ m[i].status = IF i = k THEN s ELSE t[i].status
  <2> HIDE DEF m
  <2> TAKE i \in DOMAIN t
  <2>1. t[i] \in Entry
    BY EntriesOf
  <2>2. CASE i = k
    BY <1>1, <2>1, <2>2 DEF Entry, Statuses
  <2>3. CASE i # k
    BY <1>1, <2>1, <2>3
  <2> QED BY <2>2, <2>3
<1>3. m \in [1..Len(t) -> Entry]
  <2>1. m = [i \in DOMAIN t |-> m[i]]
    BY EntriesOf
  <2> QED BY <1>2, <2>1, EntriesOf
<1>4. m \in Seq(Entry)
  <2> HIDE DEF m
  <2> QED BY <1>3, EntriesOf, MakeSeq
<1> QED BY <1>1, <1>2, <1>4

\* FirstOf finds an entry of the status, if there is one.
LEMMA FirstOfFinds ==
    ASSUME NEW t \in Seq(Entry), NEW s
    PROVE  \/ FirstOf(t, s) = 0 /\ \A i \in DOMAIN t : t[i].status # s
           \/ FirstOf(t, s) \in DOMAIN t /\ t[FirstOf(t, s)].status = s
<1> DEFINE I == {i \in DOMAIN t : t[i].status = s}
           R == {ss \in Nat \X Nat : ss[1] < ss[2]}
<1>1. CASE I = {}
  BY <1>1 DEF FirstOf
<1>2. CASE I # {}
  <2>1. I \subseteq Nat /\ IsWellFoundedOn(R, Nat)
    BY EntriesOf, NatLessThanWellFounded DEF OpToRel
  <2>2. \A x, y \in Nat : x < y => <<x, y>> \in R
    OBVIOUS
  <2> HIDE DEF I, R
  <2>3. PICK m \in I : \A y \in I : ~ (<<y, m>> \in R)
    BY <1>2, <2>1, WFMin
  <2>4. \A y \in I : m <= y
    <3> TAKE y \in I
    <3>1. m \in Nat /\ y \in Nat /\ ~(y < m)
      BY <2>1, <2>2, <2>3
    <3> QED BY <3>1
  <2>5. FirstOf(t, s) \in I
    BY <1>2, <2>4 DEF FirstOf, I
  <2> QED BY <2>5 DEF I
<1> QED BY <1>1, <1>2

-----------------------------------------------------------------------------
(* The steps, by what they change of the variables that the phases are about *)

LEMMA CoreStands ==
    ASSUME EachOnce, OwnOutcome, Phase, UNCHANGED core
    PROVE  EachOnce' /\ OwnOutcome' /\ Phase'
<1> USE DEF core
<1>1. EachOnce' /\ OwnOutcome'
  BY DEF EachOnce, OwnOutcome
<1>2. Idle' = Idle
  BY DEF Idle, Quiet, OnTheWay, NoStart, IsStart, NoneActive, Active
<1>3. ASSUME NEW p \in Paths
      PROVE  /\ Asked(p)' = Asked(p) /\ Works(p)' = Works(p) /\ Ends(p)' = Ends(p)
  <2>1. Busy(p)' = Busy(p) /\ NoStart' = NoStart /\ NoneActive' = NoneActive
    BY DEF Busy, Marks, NoStart, IsStart, NoneActive, Active
  <2>2. Asked(p)' = Asked(p)
    BY <2>1 DEF Asked, Quiet, OnTheWay, IsStart
  <2>3. Works(p)' = Works(p)
    BY <2>1 DEF Works, Quiet, OnTheWay, Active
  <2>4. Ends(p)' = Ends(p)
    BY <2>1 DEF Ends, Refused, Ended, OnTheWay
  <2> QED BY <2>2, <2>3, <2>4
<1> QED BY <1>1, <1>2, <1>3 DEF Phase

\* The queue gains entries that wait, or loses some.
LEMMA QueueChanges ==
    ASSUME PageInv, queue' \in Seq(Entry), EachOnce',
           \A i \in DOMAIN queue' : \/ queue'[i].status = "pending"
                                    \/ \E j \in DOMAIN queue : queue'[i] = queue[j],
           UNCHANGED <<running, report, output, main, posted, bus, current, conv, outcome>>
    PROVE  OwnOutcome' /\ Phase'
<1>1. OwnOutcome'
  BY DEF PageInv, OwnOutcome
<1>2. Idle => Idle'
  BY DEF Idle, Quiet, OnTheWay, NoStart, IsStart, NoneActive, Active
<1>3. ASSUME NEW p \in Paths
      PROVE  /\ Asked(p) => Asked(p)'
             /\ Works(p) => Works(p)'
             /\ Ends(p) => Ends(p)'
  <2>1. /\ NoStart' = NoStart /\ NoneActive' = NoneActive
        /\ Busy(p) => Busy(p)'
    BY DEF Busy, Marks, NoStart, IsStart, NoneActive, Active
  <2>2. Asked(p) => Asked(p)'
    BY <2>1 DEF Asked, Quiet, OnTheWay, IsStart
  <2>3. Works(p) => Works(p)'
    BY <2>1 DEF Works, Quiet, OnTheWay, Active
  <2>4. Ends(p) => Ends(p)'
    BY <2>1 DEF Ends, Refused, Ended, OnTheWay
  <2> QED BY <2>2, <2>3, <2>4
<1> QED BY <1>1, <1>2, <1>3 DEF PageInv, Phase

\* A word for the pipeline is sent, and the dialog may close.
LEMMA WordIsSent ==
    ASSUME PageInv, SendWord, report' = report \/ report' = None,
           UNCHANGED <<queue, running, output, posted, bus, current, conv, outcome>>
    PROVE  EachOnce' /\ OwnOutcome' /\ Phase'
<1>1. EachOnce' /\ OwnOutcome'
  BY DEF PageInv, EachOnce, OwnOutcome
<1>2. /\ main \in Seq(Requests) /\ DOMAIN main = 1..Len(main) /\ Len(main) \in Nat
      /\ DOMAIN main' = 1..(Len(main) + 1)
      /\ \A i \in DOMAIN main : main'[i] = main[i]
      /\ main'[Len(main) + 1] = [do |-> "word", path |-> None]
  <2>1. main \in Seq(Requests) /\ main' = Append(main, [do |-> "word", path |-> None])
    BY DEF PageInv, PageType, TypeOK, SendWord
  <2> QED BY <2>1, LenProperties
<1>3. \A i \in DOMAIN main' : IsStart(i)' => (i \in DOMAIN main /\ IsStart(i))
  BY <1>2 DEF IsStart
<1>4. NoStart => NoStart'
  BY <1>3 DEF NoStart
<1>5. NoneActive' = NoneActive /\ \A x : Active(x)' = Active(x)
  BY DEF NoneActive, Active
<1>6. Idle => Idle'
  BY <1>4, <1>5 DEF Idle, Quiet, OnTheWay
<1>7. ASSUME NEW p \in Paths
      PROVE  /\ Asked(p) => Asked(p)'
             /\ Works(p) => Works(p)'
             /\ Ends(p) => Ends(p)'
  <2>1. Busy(p)' = Busy(p)
    BY DEF Busy, Marks
  <2>2. Asked(p) => Asked(p)'
    <3> SUFFICES ASSUME Asked(p) PROVE Asked(p)'
      OBVIOUS
    <3>1. PICK k \in DOMAIN main : /\ main[k] = [do |-> "start", path |-> p]
                                   /\ \A i \in DOMAIN main : IsStart(i) => i = k
      BY DEF Asked
    <3>2. k \in DOMAIN main' /\ main'[k] = [do |-> "start", path |-> p]
      BY <1>2, <3>1
    <3>3. \A i \in DOMAIN main' : IsStart(i)' => i = k
      BY <1>3, <3>1
    <3> QED BY <1>5, <2>1, <3>2, <3>3 DEF Asked, Quiet, OnTheWay
  <2>3. Works(p) => Works(p)'
    BY <1>4, <1>5, <2>1 DEF Works, Quiet, OnTheWay
  <2>4. Ends(p) => Ends(p)'
    BY <1>4, <1>5, <2>1 DEF Ends, Refused, Ended, OnTheWay
  <2> QED BY <2>2, <2>3, <2>4
<1> QED BY <1>1, <1>6, <1>7 DEF PageInv, Phase

\* startNext, when it decides by the page as it is.
LEMMA NextIsAsked ==
    ASSUME PageInv, Rendered, StartNext, UNCHANGED <<report, bus, pipelines>>
    PROVE  /\ EachOnce' /\ OwnOutcome' /\ Phase'
           /\ queue' \in Seq(Entry) /\ running' \in BOOLEAN
           /\ output' \in Conversions \cup {None} /\ main' \in Seq(Requests)
<1> USE DEF pipelines
<1> DEFINE k == FirstOf(queue, "pending")
<1>1. seen.queue = queue /\ seen.running = running
  BY DEF Rendered
<1>2. /\ queue \in Seq(Entry) /\ running \in BOOLEAN /\ main \in Seq(Requests)
      /\ output \in Conversions \cup {None}
  BY DEF PageInv, PageType, TypeOK
<1>3. CASE running \/ k = 0
  <2>1. UNCHANGED <<queue, running, output, main>>
    BY <1>1, <1>3 DEF StartNext
  <2> QED BY <1>2, <2>1, CoreStands DEF core, PageInv
<1>4. CASE ~(running \/ k = 0)
  <2>1. k \in DOMAIN queue /\ queue[k].status = "pending"
    BY <1>2, <1>4, FirstOfFinds
  <2>2. PICK p \in Paths : p = queue[k].id
    BY <1>2, <2>1, EntriesOf
  <2> DEFINE r == [do |-> "start", path |-> p]
  <2>3. /\ running' = TRUE /\ output' = None
        /\ queue' = Marked(queue, p, "running")
        /\ main' = Append(main, r)
    BY <1>1, <1>4, <2>2 DEF StartNext
  <2>4. /\ Idle /\ ~running
    BY <1>4 DEF PageInv, Phase, Asked, Works, Ends, Busy
  <2> HIDE DEF k
  <2>5. /\ queue' \in Seq(Entry) /\ DOMAIN queue' = DOMAIN queue
        /\ \A i \in DOMAIN queue : /\ queue'[i].id = queue[i].id
                                   /\ queue'[i].status = IF queue[i].id = p THEN "running"
                                                         ELSE queue[i].status
    <3>1. queue' = Marked(queue, p, "running") /\ "running" \in Statuses
      BY <2>3 DEF Statuses
    <3> QED BY <1>2, <3>1, MarkedEntries
  <2>6. EachOnce'
    BY <2>5 DEF PageInv, EachOnce
  <2>7. OwnOutcome'
    BY <2>3, <2>5 DEF PageInv, OwnOutcome
  <2>8. r \in Requests /\ r.do = "start"
    BY <2>1 DEF Requests
  <2>9. /\ main' \in Seq(Requests) /\ DOMAIN main = 1..Len(main) /\ Len(main) \in Nat
        /\ DOMAIN main' = 1..(Len(main) + 1)
        /\ \A i \in DOMAIN main : main'[i] = main[i]
        /\ main'[Len(main) + 1] = r
    <3> HIDE DEF r
    <3> QED BY <1>2, <2>3, <2>8, AppendProperties, LenProperties
  <2>10. Marks(p)'
    BY <2>4, <2>5 DEF Idle, Marks
  <2>11. Asked(p)'
    <3>1. \A i \in DOMAIN main' : IsStart(i)' => i = Len(main) + 1
      BY <2>4, <2>9 DEF Idle, NoStart, IsStart
    <3>2. NoneActive' /\ Quiet' /\ report' = None /\ Busy(p)'
      BY <2>3, <2>4, <2>10 DEF Idle, Quiet, OnTheWay, NoneActive, Active, Busy
    <3>3. Len(main) + 1 \in DOMAIN main' /\ main'[Len(main) + 1] = r
      BY <2>9
    <3> QED BY <3>1, <3>2, <3>3 DEF Asked
  <2> QED BY <2>3, <2>1, <2>5, <2>6, <2>7, <2>9, <2>11 DEF Phase
<1> QED BY <1>3, <1>4

-----------------------------------------------------------------------------
(* Messages to the page *)

\* The type of what a delivery may change
PageTypes ==
    /\ queue \in Seq(Entry) /\ running \in BOOLEAN
    /\ report \in Conversions \cup {None} /\ output \in Conversions \cup {None}
    /\ bus \in Seq(Events) /\ ticks \in Nat

LEMMA ReadyArrives ==
    ASSUME Alone, PageInv, NEW p \in Paths, report' = p,
           \/ Works(p) /\ Quiet'
           \/ /\ Busy(p) /\ NoStart /\ NoneActive
              /\ \E ok \in BOOLEAN :
                    /\ Ended(p, ok)
                    /\ \/ OnTheWay(<<>>, <<FinishedOf(p, ok)>>)'
                       \/ OnTheWay(<<FinishedOf(p, ok)>>, <<>>)',
           UNCHANGED <<queue, running, output, main, current, conv, outcome>>
    PROVE  EachOnce' /\ OwnOutcome' /\ Phase'
<1>1. EachOnce' /\ OwnOutcome'
  BY DEF PageInv, EachOnce, OwnOutcome
<1>2. /\ NoStart' = NoStart /\ NoneActive' = NoneActive /\ Busy(p)' = Busy(p)
      /\ \A x : Active(x)' = Active(x)
  BY DEF NoStart, IsStart, NoneActive, Active, Busy, Marks
<1>3. CASE Works(p) /\ Quiet'
  BY <1>1, <1>2, <1>3 DEF Works, Phase
<1>4. CASE /\ Busy(p) /\ NoStart /\ NoneActive
           /\ \E ok \in BOOLEAN :
                 /\ Ended(p, ok)
                 /\ \/ OnTheWay(<<>>, <<FinishedOf(p, ok)>>)'
                    \/ OnTheWay(<<FinishedOf(p, ok)>>, <<>>)'
  <2>1. \E ok \in BOOLEAN : Ended(p, ok)'
    BY <1>4 DEF Ended, FinishedOf, OnTheWay
  <2>2. Ends(p)'
    BY <1>2, <1>4, <2>1 DEF Ends
  <2> QED BY <1>1, <2>2 DEF Phase
<1> QED BY <1>3, <1>4

\* The refusal of p: its entry is marked, and the page is idle.
LEMMA RefusalArrives ==
    ASSUME Alone, PageInv, NEW p \in Paths, Ends(p), Refused(p), OnRefused(p), bus' = <<>>,
           UNCHANGED sidecar
    PROVE  EachOnce' /\ OwnOutcome' /\ Phase' /\ PageTypes'
<1>1. /\ queue \in Seq(Entry) /\ output = None /\ report = None /\ ticks \in Nat
      /\ outcome[p] = "failed" /\ Marks(p) /\ NoStart /\ NoneActive
  BY DEF PageInv, PageType, TypeOK, Ends, Busy, Refused
<1>2. /\ running' = FALSE /\ queue' = Marked(queue, p, "failed")
      /\ UNCHANGED <<report, output, ticks, main, posted, current, conv, outcome>>
      /\ Quiet'
  BY DEF OnRefused, sidecar, Ends, Refused, OnTheWay, Quiet
<1>3. /\ queue' \in Seq(Entry) /\ DOMAIN queue' = DOMAIN queue
      /\ \A i \in DOMAIN queue : /\ queue'[i].id = queue[i].id
                                 /\ queue'[i].status = IF queue[i].id = p THEN "failed"
                                                       ELSE queue[i].status
  <2>1. "failed" \in Statuses /\ queue' = Marked(queue, p, "failed")
    BY <1>2 DEF Statuses
  <2> QED BY <1>1, <2>1, MarkedEntries
<1>4. EachOnce'
  BY <1>3 DEF PageInv, EachOnce
<1>5. OwnOutcome'
  BY <1>1, <1>2, <1>3 DEF PageInv, OwnOutcome
<1>6. Idle'
  BY <1>1, <1>2, <1>3 DEF Idle, Marks, NoStart, IsStart, NoneActive, Active
<1>7. PageTypes'
  BY <1>1, <1>2, <1>3, EmptySeq DEF PageTypes
<1> QED BY <1>4, <1>5, <1>6, <1>7 DEF Phase

\* The end of p's conversion: the entry that runs, if it is still in the queue,
\* is p's, and gets p's outcome.
LEMMA EndArrives ==
    ASSUME Alone, PageInv, NEW p \in Paths, NEW ok \in BOOLEAN, Ends(p), Ended(p, ok),
           OnFinished(p, ok), bus' = <<>>, posted = <<>>, UNCHANGED sidecar
    PROVE  EachOnce' /\ OwnOutcome' /\ Phase' /\ PageTypes'
<1> DEFINE k == FirstOf(queue, "running")
           mark == IF ok THEN "success" ELSE "failed"
<1>1. /\ queue \in Seq(Entry) /\ output = None /\ ticks \in Nat
      /\ outcome[p] = mark /\ Marks(p) /\ NoStart /\ NoneActive
      /\ p \in Conversions
  BY DEF PageInv, PageType, TypeOK, Ends, Busy, Ended, Conversions
<1>2. /\ running' = FALSE /\ report' = None
      /\ output' = IF ok THEN p ELSE output
      /\ queue' = IF k = 0 THEN queue ELSE [queue EXCEPT ![k].status = mark]
      /\ ticks' = ticks + 1 /\ Quiet'
      /\ UNCHANGED <<main, current, conv, outcome>>
  BY DEF OnFinished, sidecar, Quiet, OnTheWay
<1>3. \/ k = 0 /\ \A i \in DOMAIN queue : queue[i].status # "running"
      \/ k \in DOMAIN queue /\ queue[k].status = "running" /\ k # 0
  <2>1. \/ k = 0 /\ \A i \in DOMAIN queue : queue[i].status # "running"
        \/ k \in DOMAIN queue /\ queue[k].status = "running"
    BY <1>1, FirstOfFinds
  <2>2. 0 \notin DOMAIN queue
    BY <1>1, EntriesOf
  <2> QED BY <2>1, <2>2
<1> HIDE DEF k
<1>4. /\ queue' \in Seq(Entry) /\ DOMAIN queue' = DOMAIN queue
      /\ \A i \in DOMAIN queue : /\ queue'[i].id = queue[i].id
                                 /\ queue'[i].status = IF i = k THEN mark ELSE queue[i].status
  <2>1. mark \in Statuses
    BY DEF Statuses
  <2> HIDE DEF mark
  <2>2. CASE k = 0
    <3>1. 0 \notin DOMAIN queue
      BY <1>1, EntriesOf
    <3> QED BY <1>1, <1>2, <2>2, <3>1
  <2>3. CASE k # 0
    <3>1. queue' = [queue EXCEPT ![k].status = mark] /\ k \in DOMAIN queue
      BY <1>2, <1>3, <2>3
    <3> QED BY <1>1, <2>1, <3>1, OneMarked
  <2> QED BY <2>2, <2>3
<1>5. k \in DOMAIN queue => queue[k].id = p
  <2>1. 0 \notin DOMAIN queue
    BY <1>1, EntriesOf
  <2> QED BY <1>1, <1>3, <2>1 DEF Marks
<1>6. EachOnce'
  BY <1>4 DEF PageInv, EachOnce
<1>7. OwnOutcome'
  <2>1. \A i \in DOMAIN queue' : queue'[i].status \in {"success", "failed"} =>
                                     queue'[i].status = outcome'[queue'[i].id]
    BY <1>1, <1>2, <1>4, <1>5 DEF PageInv, OwnOutcome
  <2>2. output' # None => output' \in Paths /\ outcome'[output'] = "success"
    BY <1>1, <1>2
  <2> QED BY <2>1, <2>2 DEF OwnOutcome
<1>8. \A i \in DOMAIN queue' : queue'[i].status # "running"
  <2> SUFFICES ASSUME NEW i \in DOMAIN queue', queue'[i].status = "running" PROVE FALSE
    OBVIOUS
  <2>1. i \in DOMAIN queue /\ i # k /\ queue[i].status = "running"
    BY <1>4
  <2>2. k \in DOMAIN queue /\ queue[k].id = p /\ queue[i].id = p
    BY <1>1, <1>3, <1>5, <2>1 DEF Marks
  <2> QED BY <2>1, <2>2 DEF PageInv, EachOnce
<1>9. Idle'
  BY <1>1, <1>2, <1>8 DEF Idle, NoStart, IsStart, NoneActive, Active
<1>10. PageTypes'
  <2>1. output' \in Conversions \cup {None}
    BY <1>1, <1>2
  <2>2. bus' \in Seq(Events) /\ ticks' \in Nat
    BY <1>1, <1>2, EmptySeq
  <2> QED BY <1>2, <1>4, <2>1, <2>2 DEF PageTypes
<1> QED BY <1>6, <1>7, <1>9, <1>10 DEF Phase

LEMMA MessageArrives ==
    ASSUME Alone, PageInv, Deliver
    PROVE  EachOnce' /\ OwnOutcome' /\ Phase' /\ PageTypes'
<1> DEFINE e == Head(bus)
<1>1. /\ bus # <<>> /\ bus' = Tail(bus)
      /\ \/ e.ev = "refused"  /\ OnRefused(e.of)
         \/ e.ev = "ready"    /\ OnReady(e.of)
         \/ e.ev = "finished" /\ OnFinished(e.of, e.ok)
      /\ UNCHANGED <<asking, seen, drops, sidecar>>
  BY DEF Deliver
<1>2. PICK p \in Paths : Works(p) \/ Ends(p)
  BY <1>1 DEF PageInv, Phase, Idle, Asked, Quiet, OnTheWay
<1>3. PageTypes /\ p \in Conversions
  BY DEF PageInv, PageType, TypeOK, PageTypes, Conversions
<1>4. CASE Works(p)
  <2>1. OnTheWay(<<ReadyOf(p)>>, <<>>)
    BY <1>1, <1>4 DEF Works, Quiet, OnTheWay
  <2>2. e = ReadyOf(p) /\ bus' = <<>> /\ posted' = <<>>
    BY <1>1, <2>1 DEF OnTheWay, sidecar
  <2>3. OnReady(p)
    BY <1>1, <2>2 DEF ReadyOf
  <2>4. report' = p /\ UNCHANGED <<queue, running, output, ticks>>
    BY <2>3 DEF OnReady
  <2>5. PageTypes'
    BY <1>3, <2>2, <2>4, EmptySeq DEF PageTypes
  <2>6. Quiet'
    BY <2>2 DEF Quiet, OnTheWay
  <2> QED BY <1>1, <1>4, <2>4, <2>5, <2>6, ReadyArrives DEF sidecar
<1>5. CASE Ends(p) /\ Refused(p)
  <2>1. e = RefusedOf(p) /\ bus' = <<>>
    BY <1>1, <1>5 DEF Refused, OnTheWay
  <2>2. OnRefused(p)
    BY <1>1, <2>1 DEF RefusedOf
  <2> QED BY <1>1, <1>5, <2>1, <2>2, RefusalArrives
<1>6. ASSUME NEW ok \in BOOLEAN, Ends(p), Ended(p, ok)
      PROVE  EachOnce' /\ OwnOutcome' /\ Phase' /\ PageTypes'
  <2>1. CASE OnTheWay(<<FinishedOf(p, ok)>>, <<>>)
    <3>1. e = FinishedOf(p, ok) /\ bus' = <<>> /\ posted = <<>>
      BY <1>1, <2>1 DEF OnTheWay
    <3>2. OnFinished(p, ok)
      BY <1>1, <3>1 DEF FinishedOf
    <3> QED BY <1>1, <1>6, <3>1, <3>2, EndArrives
  <2>2. CASE \/ OnTheWay(<<ReadyOf(p), FinishedOf(p, ok)>>, <<>>)
             \/ OnTheWay(<<ReadyOf(p)>>, <<FinishedOf(p, ok)>>)
    <3>1. /\ e = ReadyOf(p)
          /\ \/ bus' = <<FinishedOf(p, ok)>> /\ posted' = <<>>
             \/ bus' = <<>> /\ posted' = <<FinishedOf(p, ok)>>
      <4>1. UNCHANGED posted /\ bus' = Tail(bus) /\ e = bus[1]
        BY <1>1 DEF sidecar
      <4>2. CASE OnTheWay(<<ReadyOf(p), FinishedOf(p, ok)>>, <<>>)
        BY <4>1, <4>2 DEF OnTheWay
      <4>3. CASE OnTheWay(<<ReadyOf(p)>>, <<FinishedOf(p, ok)>>)
        BY <4>1, <4>3 DEF OnTheWay
      <4> QED BY <2>2, <4>2, <4>3
    <3>2. OnReady(p)
      BY <1>1, <3>1 DEF ReadyOf
    <3>3. report' = p /\ UNCHANGED <<queue, running, output, ticks>>
      BY <3>2 DEF OnReady
    <3>4. FinishedOf(p, ok) \in Events
      BY <1>3 DEF FinishedOf, Events
    <3>5. PageTypes'
      <4>1. bus' \in Seq(Events)
        <5>1. \A a \in Events : <<a>> \in Seq(Events)
          OBVIOUS
        <5> QED BY <3>1, <3>4, <5>1, EmptySeq
      <4> QED BY <1>3, <3>3, <4>1 DEF PageTypes
    <3>6. Busy(p) /\ NoStart /\ NoneActive
      BY <1>6 DEF Ends
    <3>7. OnTheWay(<<>>, <<FinishedOf(p, ok)>>)' \/ OnTheWay(<<FinishedOf(p, ok)>>, <<>>)'
      BY <3>1 DEF OnTheWay
    <3> QED BY <1>1, <1>6, <3>3, <3>5, <3>6, <3>7, ReadyArrives DEF sidecar
  <2> QED BY <1>1, <1>6, <2>1, <2>2 DEF Ended, OnTheWay
<1> QED BY <1>2, <1>4, <1>5, <1>6 DEF Ends

-----------------------------------------------------------------------------
(* The sidecar *)

\* What is left in the sidecar's main thread when its first request is taken
LEMMA RestOfMain ==
    ASSUME PageInv, main # <<>>, main' = Tail(main)
    PROVE  /\ main' \in Seq(Requests) /\ Head(main) = main[1] /\ 1 \in DOMAIN main
           /\ \A i \in DOMAIN main' : i + 1 \in DOMAIN main /\ main'[i] = main[i + 1]
           /\ \A i \in DOMAIN main : i = 1 \/ (i - 1 \in DOMAIN main' /\ main'[i - 1] = main[i])
           /\ DOMAIN main \subseteq Nat
<1>1. main \in Seq(Requests)
  BY DEF PageInv, PageType, TypeOK
<1>2. /\ main' \in Seq(Requests) /\ Len(main') = Len(main) - 1 /\ Len(main) \in Nat \ {0}
      /\ \A i \in 1..Len(main') : main'[i] = main[i + 1]
      /\ DOMAIN main = 1..Len(main) /\ DOMAIN main' = 1..(Len(main) - 1)
  BY <1>1, HeadTailProperties, EmptySeq, LenProperties
<1>3. Head(main) = main[1] /\ 1 \in DOMAIN main
  BY <1>1, <1>2
<1>4. \A i \in DOMAIN main' : i + 1 \in DOMAIN main /\ main'[i] = main[i + 1]
  BY <1>2
<1>5. \A i \in DOMAIN main : i = 1 \/ (i - 1 \in DOMAIN main' /\ main'[i - 1] = main[i])
  <2> TAKE i \in DOMAIN main
  <2> SUFFICES ASSUME i # 1 PROVE i - 1 \in DOMAIN main' /\ main'[i - 1] = main[i]
    OBVIOUS
  <2>1. i - 1 \in 1..Len(main') /\ (i - 1) + 1 = i
    BY <1>2
  <2> QED BY <1>2, <2>1
<1> QED BY <1>2, <1>3, <1>4, <1>5

\* The outcome of the file that is converted is not yet marked in the queue.
LEMMA OutcomeComes ==
    ASSUME PageInv, NEW p \in Paths, NEW v, Busy(p), outcome' = [outcome EXCEPT ![p] = v],
           UNCHANGED <<queue, running, output>>
    PROVE  EachOnce' /\ OwnOutcome' /\ Busy(p)' /\ (Alone => outcome'[p] = v)
<1>1. EachOnce' /\ Busy(p)'
  BY DEF PageInv, EachOnce, Busy, Marks
<1>2. OwnOutcome'
  <2>1. \A i \in DOMAIN queue : queue[i].status \in {"success", "failed"} => queue[i].id # p
    BY DEF Busy, Marks
  <2>2. \A x : x # p => outcome'[x] = outcome[x]
    BY DEF PageInv, PageType, TypeOK
  <2> QED BY <2>1, <2>2 DEF PageInv, OwnOutcome, Busy
<1>3. Alone => outcome'[p] = v
  BY DEF Alone, PageInv, PageType, TypeOK, Conversions
<1> QED BY <1>1, <1>2, <1>3

LEMMA StartIsHandled ==
    ASSUME Alone, PageInv, main # <<>>, main' = Tail(main), Head(main).do \in {"start", "late"},
           HandleStart(Head(main).path, Head(main).do = "start"), UNCHANGED page
    PROVE  /\ EachOnce' /\ OwnOutcome' /\ Phase'
           /\ bus' \in Seq(Events) /\ posted' = posted /\ current' \in Paths \cup {None}
           /\ conv' \in [Conversions -> States]
           /\ outcome' \in [Conversions -> {"none", "success", "failed"}]
<1>1. PICK p \in Paths : Asked(p)
  BY RestOfMain DEF PageInv, Phase, Idle, Works, Ends, NoStart, IsStart
<1>2. PICK k \in DOMAIN main : /\ main[k] = [do |-> "start", path |-> p]
                               /\ \A i \in DOMAIN main : IsStart(i) => i = k
  BY <1>1 DEF Asked
<1>3. Head(main).path = p /\ Head(main).do = "start" /\ k = 1
  BY <1>2, RestOfMain DEF IsStart
<1>4. NoStart'
  <2>1. \A i \in DOMAIN main' : i + 1 \in DOMAIN main /\ i + 1 # 1 /\ main'[i] = main[i + 1]
    <3>1. \A i \in DOMAIN main' : i + 1 \in DOMAIN main /\ main'[i] = main[i + 1] /\ i \in DOMAIN main'
      BY RestOfMain
    <3>2. DOMAIN main' = 1..Len(main')
      BY RestOfMain, LenProperties
    <3>3. \A i \in 1..Len(main') : i + 1 # 1
      OBVIOUS
    <3> QED BY <3>1, <3>2, <3>3
  <2> QED BY <1>2, <1>3, <2>1 DEF NoStart, IsStart
<1>5. /\ p \in Conversions /\ conv \in [Conversions -> States]
      /\ outcome \in [Conversions -> {"none", "success", "failed"}]
      /\ bus = <<>> /\ posted = <<>> /\ report = None /\ current \in Paths \cup {None} /\ Busy(p) /\ NoneActive
  BY <1>1 DEF Asked, Quiet, OnTheWay, PageInv, PageType, TypeOK, Conversions
<1>6. UNCHANGED <<queue, running, report, output>>
  BY DEF page
<1>7. CASE /\ bus' = Append(bus, Event("refused", p, FALSE))
           /\ outcome' = [outcome EXCEPT ![p] = "failed"]
           /\ UNCHANGED <<posted, current, conv>>
  <2>1. bus' = <<RefusedOf(p)>> /\ RefusedOf(p) \in Events
    BY <1>5, <1>7 DEF Event, RefusedOf, Events
  <2>2. EachOnce' /\ OwnOutcome' /\ Busy(p)' /\ outcome'[p] = "failed"
    BY <1>5, <1>6, <1>7, OutcomeComes
  <2>3. Ends(p)'
    BY <1>4, <1>5, <1>6, <1>7, <2>1, <2>2
    DEF Ends, Refused, OnTheWay, NoneActive, Active
  <2>4. bus' \in Seq(Events)
    BY <2>1
  <2>5. outcome' \in [Conversions -> {"none", "success", "failed"}]
    BY <1>5, <1>7
  <2> QED BY <1>5, <1>7, <2>2, <2>3, <2>4, <2>5 DEF Phase
<1>8. CASE /\ current' = p /\ conv' = [conv EXCEPT ![p] = "converting"]
           /\ UNCHANGED <<posted, bus, outcome>>
  <2>1. EachOnce' /\ OwnOutcome' /\ Busy(p)'
    BY <1>5, <1>6, <1>8 DEF PageInv, EachOnce, OwnOutcome, Busy, Marks
  <2>2. \A x \in Paths : Active(x)' <=> x = p
    BY <1>5, <1>8 DEF NoneActive, Active, Conversions
  <2>3. Works(p)'
    BY <1>4, <1>5, <1>6, <1>8, <2>1, <2>2 DEF Works, Quiet, OnTheWay
  <2>4. bus' \in Seq(Events)
    BY <1>5, <1>8, EmptySeq
  <2>5. conv' \in [Conversions -> States]
    BY <1>5, <1>8 DEF States
  <2> QED BY <1>5, <1>8, <2>1, <2>3, <2>4, <2>5 DEF Phase
<1> QED BY <1>3, <1>7, <1>8 DEF HandleStart

\* What is said to the last pipeline changes no phase.
LEMMA Telling ==
    ASSUME PageInv, conv' = Told \/ conv' = conv
    PROVE  /\ conv' \in [Conversions -> States]
           /\ \A x \in Paths : Active(x)' <=> Active(x)
           /\ NoneActive' <=> NoneActive
           /\ \A x \in Paths : conv[x] \in {"awaiting", "ending"} => conv'[x] \in {"awaiting", "ending"}
<1>1. /\ conv \in [Conversions -> States]
      /\ Paths \subseteq Conversions /\ current \in Paths \cup {None}
  BY DEF PageInv, PageType, TypeOK, Conversions
<1>2. \/ conv' = conv
      \/ /\ current \in Paths /\ conv[current] = "converting"
         /\ conv' = [conv EXCEPT ![current] = "told"]
      \/ /\ current \in Paths /\ conv[current] = "awaiting"
         /\ conv' = [conv EXCEPT ![current] = "ending"]
  BY <1>1 DEF Told
<1>3. conv' \in [Conversions -> States]
  BY <1>1, <1>2 DEF States
<1>4. \A x \in Paths : Active(x)' <=> Active(x)
  BY <1>1, <1>2 DEF Active
<1> QED BY <1>1, <1>2, <1>3, <1>4 DEF NoneActive

\* A word finds the pipeline it is for, or none that listens.
LEMMA WordIsHandled ==
    ASSUME Alone, PageInv, main # <<>>, main' = Tail(main), Head(main).do \notin {"start", "late"},
           HandleWord, UNCHANGED page
    PROVE  /\ EachOnce' /\ OwnOutcome' /\ Phase'
           /\ conv' \in [Conversions -> States]
<1>1. UNCHANGED <<queue, running, report, output, posted, bus, current, outcome>>
  BY DEF page, HandleWord
<1>3. EachOnce' /\ OwnOutcome'
  BY <1>1 DEF PageInv, EachOnce, OwnOutcome
<1>4. /\ \A x \in Paths : Active(x)' <=> Active(x)
      /\ NoneActive' <=> NoneActive
      /\ \A x \in Paths : conv[x] \in {"awaiting", "ending"} => conv'[x] \in {"awaiting", "ending"}
      /\ conv' \in [Conversions -> States]
  BY Telling DEF HandleWord
<1>5. NoStart => NoStart'
  BY RestOfMain DEF NoStart, IsStart
<1>6. Idle => Idle'
  BY <1>1, <1>4, <1>5 DEF Idle, Quiet, OnTheWay
<1>7. ASSUME NEW p \in Paths
      PROVE  /\ Asked(p) => Asked(p)'
             /\ Works(p) => Works(p)'
             /\ Ends(p) => Ends(p)'
  <2>1. Busy(p)' = Busy(p)
    BY <1>1 DEF Busy, Marks
  <2>2. Asked(p) => Asked(p)'
    <3> SUFFICES ASSUME Asked(p) PROVE Asked(p)'
      OBVIOUS
    <3>1. PICK k \in DOMAIN main : /\ main[k] = [do |-> "start", path |-> p]
                                   /\ \A i \in DOMAIN main : IsStart(i) => i = k
      BY DEF Asked
    <3>2. k # 1
      BY <3>1, RestOfMain
    <3>3. k - 1 \in DOMAIN main' /\ main'[k - 1] = [do |-> "start", path |-> p]
      BY <3>1, <3>2, RestOfMain
    <3>4. \A i \in DOMAIN main' : IsStart(i)' => i = k - 1
      <4> TAKE i \in DOMAIN main'
      <4>1. i + 1 \in DOMAIN main /\ main'[i] = main[i + 1]
        BY RestOfMain
      <4>2. DOMAIN main' = 1..Len(main') /\ k \in Nat
        BY RestOfMain, LenProperties
      <4> QED BY <3>1, <4>1, <4>2 DEF IsStart
    <3> QED BY <1>1, <1>4, <2>1, <3>3, <3>4 DEF Asked, Quiet, OnTheWay
  <2>3. Works(p) => Works(p)'
    BY <1>1, <1>4, <1>5, <2>1 DEF Works, Quiet, OnTheWay
  <2>4. Ends(p) => Ends(p)'
    BY <1>1, <1>4, <1>5, <2>1 DEF Ends, Refused, Ended, OnTheWay
  <2> QED BY <2>2, <2>3, <2>4
<1> QED BY <1>3, <1>4, <1>6, <1>7 DEF PageInv, Phase

LEMMA TwoEvents ==
    ASSUME NEW a \in Events, NEW b \in Events
    PROVE  Append(<<a>>, b) = <<a, b>>
<1>1. <<a>> \in Seq(Events) /\ Len(<<a>>) = 1
  OBVIOUS
<1>2. /\ Append(<<a>>, b) \in Seq(Events) /\ Len(Append(<<a>>, b)) = 2
      /\ Append(<<a>>, b)[1] = a /\ Append(<<a>>, b)[2] = b
  BY <1>1, AppendProperties
<1>3. <<a, b>> \in Seq(Events) /\ Len(<<a, b>>) = 2 /\ <<a, b>>[1] = a /\ <<a, b>>[2] = b
  OBVIOUS
<1>4. \A i \in 1..2 : Append(<<a>>, b)[i] = <<a, b>>[i]
  BY <1>2, <1>3
<1> QED BY <1>2, <1>3, <1>4, SeqEqual

\* A signal gets to the page by way of the main thread, and in its order.
LEMMA SignalArrives ==
    ASSUME Alone, PageInv, Signal
    PROVE  /\ EachOnce' /\ OwnOutcome' /\ Phase'
           /\ bus' \in Seq(Events) /\ posted' \in Seq(Events)
           /\ conv' \in [Conversions -> States]
<1>1. /\ posted # <<>> /\ posted' = Tail(posted) /\ bus' = Append(bus, Head(posted))
      /\ UNCHANGED <<queue, running, report, output, main, current, outcome>>
      /\ conv' = Told \/ conv' = conv
  BY DEF Signal, page
<1>2. PICK p \in Paths : Works(p) \/ Ends(p)
  BY <1>1 DEF PageInv, Phase, Idle, Asked, Quiet, OnTheWay
<1>3. /\ \A x \in Paths : Active(x)' <=> Active(x)
      /\ NoneActive' <=> NoneActive
      /\ \A x \in Paths : conv[x] \in {"awaiting", "ending"} => conv'[x] \in {"awaiting", "ending"}
      /\ conv' \in [Conversions -> States]
  BY <1>1, Telling
<1>4. EachOnce' /\ OwnOutcome' /\ Busy(p)' = Busy(p) /\ NoStart' = NoStart
  BY <1>1 DEF PageInv, EachOnce, OwnOutcome, Busy, Marks, NoStart, IsStart
<1>5. /\ ReadyOf(p) \in Events /\ \A ok \in BOOLEAN : FinishedOf(p, ok) \in Events
      /\ \A a, b \in Events : <<a>> \in Seq(Events) /\ <<a, b>> \in Seq(Events)
  BY DEF ReadyOf, FinishedOf, Events, Conversions
<1>6. CASE Works(p)
  <2>1. OnTheWay(<<>>, <<ReadyOf(p)>>) /\ conv[p] \in {"awaiting", "ending"}
    BY <1>1, <1>6 DEF Works, Quiet, OnTheWay
  <2>2. OnTheWay(<<ReadyOf(p)>>, <<>>)'
    BY <1>1, <2>1 DEF OnTheWay
  <2>3. Works(p)'
    BY <1>1, <1>3, <1>4, <1>6, <2>1, <2>2 DEF Works
  <2>4. bus' \in Seq(Events) /\ posted' \in Seq(Events)
    BY <1>5, <2>2, EmptySeq DEF OnTheWay
  <2> QED BY <1>3, <1>4, <2>3, <2>4 DEF Phase
<1>7. ASSUME NEW ok \in BOOLEAN, Ends(p), Ended(p, ok)
      PROVE  Ends(p)' /\ bus' \in Seq(Events) /\ posted' \in Seq(Events)
  <2>1. \/ OnTheWay(<<>>, <<FinishedOf(p, ok)>>)
        \/ OnTheWay(<<>>, <<ReadyOf(p), FinishedOf(p, ok)>>)
        \/ OnTheWay(<<ReadyOf(p)>>, <<FinishedOf(p, ok)>>)
    BY <1>1, <1>7 DEF Ended, OnTheWay
  <2>2. \/ OnTheWay(<<FinishedOf(p, ok)>>, <<>>)'
        \/ OnTheWay(<<ReadyOf(p)>>, <<FinishedOf(p, ok)>>)'
        \/ OnTheWay(<<ReadyOf(p), FinishedOf(p, ok)>>, <<>>)'
    <3>1. CASE OnTheWay(<<>>, <<FinishedOf(p, ok)>>)
      BY <1>1, <3>1 DEF OnTheWay
    <3>2. CASE OnTheWay(<<>>, <<ReadyOf(p), FinishedOf(p, ok)>>)
      BY <1>1, <3>2 DEF OnTheWay
    <3>3. CASE OnTheWay(<<ReadyOf(p)>>, <<FinishedOf(p, ok)>>)
      <4>1. posted' = <<>> /\ bus' = Append(<<ReadyOf(p)>>, FinishedOf(p, ok))
        BY <1>1, <3>3 DEF OnTheWay
      <4> QED BY <1>5, <4>1, TwoEvents DEF OnTheWay
    <3> QED BY <2>1, <3>1, <3>2, <3>3
  <2>3. Ended(p, ok)'
    BY <1>1, <1>7, <2>2 DEF Ended
  <2>4. bus' \in Seq(Events) /\ posted' \in Seq(Events)
    BY <1>5, <2>2, EmptySeq DEF OnTheWay
  <2> QED BY <1>3, <1>4, <1>7, <2>3, <2>4 DEF Ends
<1>8. CASE Ends(p)
  <2>1. \E ok \in BOOLEAN : Ended(p, ok)
    BY <1>1, <1>8 DEF Ends, Refused, OnTheWay
  <2> QED BY <1>3, <1>4, <1>7, <1>8, <2>1 DEF Phase
<1> QED BY <1>2, <1>6, <1>8

LEMMA ReportIsReady ==
    ASSUME Alone, PageInv, NEW x \in Conversions, Ready(x)
    PROVE  /\ EachOnce' /\ OwnOutcome' /\ Phase' /\ bus' = bus /\ posted' \in Seq(Events)
           /\ conv' \in [Conversions -> States]
<1>1. x \in Paths /\ x \notin Batch
  BY DEF Alone, Conversions
<1>2. /\ conv[x] \in {"converting", "told"}
      /\ conv' = [conv EXCEPT ![x] = IF conv[x] = "told" THEN "ending" ELSE "awaiting"]
      /\ posted' = Append(posted, ReadyOf(x)) /\ bus' = bus
      /\ UNCHANGED <<queue, running, report, output, main, current, outcome>>
  BY <1>1 DEF Ready, Emit, Event, ReadyOf, page
<1>3. Works(x) /\ Quiet
  BY <1>1, <1>2 DEF PageInv, Phase, Idle, Asked, Works, Ends, NoneActive, Active
<1>4. conv \in [Conversions -> States] /\ ReadyOf(x) \in Events
  BY DEF PageInv, PageType, TypeOK, ReadyOf, Events
<1>5. EachOnce' /\ OwnOutcome' /\ Busy(x)' /\ NoStart'
  BY <1>2, <1>3 DEF PageInv, EachOnce, OwnOutcome, Works, Busy, Marks, NoStart, IsStart
<1>6. OnTheWay(<<>>, <<ReadyOf(x)>>)' /\ conv'[x] \in {"awaiting", "ending"}
  BY <1>2, <1>3, <1>4 DEF Quiet, OnTheWay
<1>7. \A y \in Paths : Active(y)' <=> y = x
  <2>1. \A y \in Paths : Active(y) <=> y = x
    BY <1>3 DEF Works
  <2> QED BY <1>2, <1>4, <2>1 DEF Active
<1>8. Works(x)'
  BY <1>2, <1>3, <1>5, <1>6, <1>7 DEF Works
<1>9. posted' \in Seq(Events)
  BY <1>4, <1>6 DEF OnTheWay
<1>10. conv' \in [Conversions -> States]
  BY <1>2, <1>4 DEF States
<1> QED BY <1>1, <1>2, <1>5, <1>8, <1>9, <1>10 DEF Phase

LEMMA PipelineEnds ==
    ASSUME Alone, PageInv, NEW x \in Conversions, NEW ok \in BOOLEAN, Finish(x, ok)
    PROVE  /\ EachOnce' /\ OwnOutcome' /\ Phase' /\ bus' = bus /\ posted' \in Seq(Events)
           /\ conv' \in [Conversions -> States]
           /\ outcome' \in [Conversions -> {"none", "success", "failed"}]
<1> DEFINE mark == IF ok THEN "success" ELSE "failed"
<1>1. x \in Paths /\ x \notin Batch
  BY DEF Alone, Conversions
<1>2. /\ conv[x] \in {"converting", "told", "ending"} /\ conv' = [conv EXCEPT ![x] = "over"]
      /\ outcome' = [outcome EXCEPT ![x] = mark]
      /\ posted' = Append(posted, FinishedOf(x, ok)) /\ bus' = bus
      /\ UNCHANGED <<queue, running, report, output, main, current>>
  BY <1>1 DEF Finish, Emit, Event, FinishedOf, page
<1>3. Works(x)
  BY <1>1, <1>2 DEF PageInv, Phase, Idle, Asked, Works, Ends, NoneActive, Active
<1>4. /\ conv \in [Conversions -> States]
      /\ outcome \in [Conversions -> {"none", "success", "failed"}]
      /\ ReadyOf(x) \in Events /\ FinishedOf(x, ok) \in Events
  BY DEF PageInv, PageType, TypeOK, ReadyOf, FinishedOf, Events
<1>5. EachOnce' /\ OwnOutcome' /\ Busy(x)' /\ outcome'[x] = mark
  BY <1>1, <1>2, <1>3, OutcomeComes DEF Works
<1>6. NoStart' /\ NoneActive'
  <2>1. \A y \in Paths : Active(y) <=> y = x
    BY <1>3 DEF Works
  <2>2. NoneActive'
    BY <1>2, <1>4, <2>1 DEF NoneActive, Active, Conversions
  <2> QED BY <1>2, <1>3, <2>2 DEF Works, NoStart, IsStart
<1>7. \/ OnTheWay(<<>>, <<FinishedOf(x, ok)>>)'
      \/ OnTheWay(<<>>, <<ReadyOf(x), FinishedOf(x, ok)>>)'
      \/ OnTheWay(<<ReadyOf(x)>>, <<FinishedOf(x, ok)>>)'
  <2>1. Quiet \/ OnTheWay(<<>>, <<ReadyOf(x)>>) \/ OnTheWay(<<ReadyOf(x)>>, <<>>)
    BY <1>3 DEF Works
  <2>2. CASE Quiet \/ OnTheWay(<<ReadyOf(x)>>, <<>>)
    <3>1. posted' = Append(<<>>, FinishedOf(x, ok)) /\ bus' = bus
      BY <1>2, <2>2 DEF Quiet, OnTheWay
    <3> QED BY <2>2, <3>1 DEF Quiet, OnTheWay
  <2>3. CASE OnTheWay(<<>>, <<ReadyOf(x)>>)
    <3>1. posted' = Append(<<ReadyOf(x)>>, FinishedOf(x, ok)) /\ bus' = <<>>
      BY <1>2, <2>3 DEF OnTheWay
    <3> QED BY <1>4, <3>1, TwoEvents DEF OnTheWay
  <2> QED BY <2>1, <2>2, <2>3
<1>8. Ended(x, ok)'
  BY <1>2, <1>3, <1>5, <1>7 DEF Ended, Works
<1>9. posted' \in Seq(Events)
  <2>1. \A a, b \in Events : <<a>> \in Seq(Events) /\ <<a, b>> \in Seq(Events)
    OBVIOUS
  <2> QED BY <1>4, <1>7, <2>1 DEF OnTheWay
<1>10. /\ conv' \in [Conversions -> States]
       /\ outcome' \in [Conversions -> {"none", "success", "failed"}]
  BY <1>2, <1>4 DEF States
<1> QED BY <1>1, <1>2, <1>5, <1>6, <1>8, <1>9, <1>10 DEF Phase, Ends

-----------------------------------------------------------------------------
(* The user *)

LEMMA PathIsAdded ==
    ASSUME Alone, PageInv, NEW p \in Paths, AddPath(p)
    PROVE  EachOnce' /\ OwnOutcome' /\ Phase' /\ queue' \in Seq(Entry)
<1> DEFINE e == [id |-> p, status |-> "pending"]
<1>1. /\ queue \in Seq(Entry) /\ e \in Entry
      /\ \A i \in DOMAIN queue : queue[i].id # p
      /\ queue' = Append(queue, e)
      /\ UNCHANGED <<running, report, output, main, posted, bus, current, conv, outcome>>
  BY DEF Alone, AddPath, Settled, Rendered, sidecar, PageInv, PageType, TypeOK, Entry
<1>2. e.id = p /\ e.status = "pending"
  OBVIOUS
<1> HIDE DEF e
<1>3. /\ queue' \in Seq(Entry) /\ DOMAIN queue = 1..Len(queue) /\ Len(queue) \in Nat
      /\ DOMAIN queue' = 1..(Len(queue) + 1)
      /\ \A i \in DOMAIN queue : queue'[i] = queue[i]
      /\ queue'[Len(queue) + 1] = e
  BY <1>1, AppendProperties, LenProperties
<1>4. \A i \in DOMAIN queue' : i \in DOMAIN queue \/ i = Len(queue) + 1
  BY <1>3
<1>5. EachOnce'
  BY <1>1, <1>2, <1>3, <1>4 DEF PageInv, EachOnce
<1>6. \A i \in DOMAIN queue' : \/ queue'[i].status = "pending"
                               \/ \E j \in DOMAIN queue : queue'[i] = queue[j]
  BY <1>2, <1>3, <1>4
<1> QED BY <1>1, <1>3, <1>5, <1>6, QueueChanges

LEMMA ItemIsRemoved ==
    ASSUME PageInv, NEW p \in Paths, RemoveItem(p)
    PROVE  EachOnce' /\ OwnOutcome' /\ Phase' /\ queue' \in Seq(Entry)
<1> DEFINE kept == {i \in DOMAIN queue : queue[i].id # p}
           n == Cardinality(kept)
<1>1. PICK at \in [1..n -> kept] :
          /\ \A i, j \in DOMAIN at : i < j => at[i] < at[j]
          /\ queue' = [i \in DOMAIN at |-> queue[at[i]]]
  BY DEF RemoveItem
<1>2. /\ queue \in Seq(Entry) /\ DOMAIN queue = 1..Len(queue) /\ Len(queue) \in Nat
      /\ \A i \in DOMAIN queue : queue[i] \in Entry
      /\ UNCHANGED <<running, report, output, main, posted, bus, current, conv, outcome>>
  BY EntriesOf DEF RemoveItem, sidecar, PageInv, PageType, TypeOK
<1>3. n \in Nat /\ kept \subseteq DOMAIN queue
  <2>1. IsFiniteSet(1..Len(queue))
    BY <1>2, FS_Interval
  <2>2. kept \subseteq 1..Len(queue)
    BY <1>2
  <2> QED BY <1>2, <2>1, <2>2, FS_Subset, FS_CardinalityType
<1> HIDE DEF kept, n
<1>4. DOMAIN queue' = 1..n /\ \A i \in 1..n : at[i] \in DOMAIN queue /\ queue'[i] = queue[at[i]]
  BY <1>1, <1>3
<1>5. queue' \in [1..n -> Entry]
  BY <1>1, <1>2, <1>4
<1>6. queue' \in Seq(Entry)
  BY <1>3, <1>5, MakeSeq
<1>7. EachOnce'
  <2> SUFFICES ASSUME NEW i \in 1..n, NEW j \in 1..n, queue'[i].id = queue'[j].id
               PROVE  i = j
    BY <1>4 DEF EachOnce
  <2>1. at[i] = at[j]
    BY <1>4 DEF PageInv, EachOnce
  <2>2. /\ i < j => at[i] < at[j]
        /\ j < i => at[j] < at[i]
        /\ at[i] \in Nat
    BY <1>1, <1>2, <1>4
  <2> QED BY <1>3, <2>1, <2>2
<1>8. \A i \in DOMAIN queue' : \E j \in DOMAIN queue : queue'[i] = queue[j]
  BY <1>4
<1> QED BY <1>2, <1>6, <1>7, <1>8, QueueChanges

-----------------------------------------------------------------------------
(* The invariant *)

LEMMA PageInit == Alone /\ Init => PageInv
<1> SUFFICES ASSUME Alone, Init PROVE PageInv
  OBVIOUS
<1>1. /\ <<>> \in Seq(Entry) /\ <<>> \in Seq(Requests) /\ <<>> \in Seq(Events)
      /\ \A t : t = <<>> => DOMAIN t = {}
  BY EmptySeq
<1>2. PageType
  <2>1. seen \in [queue : Seq(Entry), running : BOOLEAN] /\ drops \in 0..MaxDrops
    BY <1>1 DEF Alone, ConvertPageAssumption, Init
  <2>2. /\ conv \in [Conversions -> States]
        /\ outcome \in [Conversions -> {"none", "success", "failed"}]
    BY DEF Init, States
  <2> QED BY <1>1, <2>1, <2>2 DEF Init, PageType, TypeOK
<1>3. EachOnce /\ OwnOutcome /\ Idle
  BY <1>1 DEF Init, EachOnce, OwnOutcome, Idle, Quiet, OnTheWay, NoStart, NoneActive, Active, Conversions
<1> QED BY <1>2, <1>3 DEF PageInv, Phase

LEMMA PageNext ==
    ASSUME Alone, PageInv, [Next]_vars
    PROVE  PageInv'
<1> USE DEF page, sidecar, pipelines
<1>1. PageType /\ TypeOK /\ EachOnce /\ OwnOutcome /\ Phase
  BY DEF PageInv, PageType
<1>2. ASSUME NEW p \in Paths, AddPath(p)
      PROVE  PageInv'
  <2>1. EachOnce' /\ OwnOutcome' /\ Phase' /\ queue' \in Seq(Entry)
    BY <1>2, PathIsAdded
  <2>2. drops' \in 0..MaxDrops
    BY <1>1, <1>2 DEF AddPath, TypeOK, Alone, ConvertPageAssumption
  <2>3. PageType'
    BY <1>1, <1>2, <2>1, <2>2 DEF AddPath, PageType, TypeOK
  <2> QED BY <2>1, <2>3 DEF PageInv
<1>3. ASSUME NEW p \in Paths, RemoveItem(p)
      PROVE  PageInv'
  <2>1. EachOnce' /\ OwnOutcome' /\ Phase' /\ queue' \in Seq(Entry)
    BY <1>3, ItemIsRemoved
  <2>2. seen' = [queue |-> queue', running |-> running]
    BY <1>3 DEF RemoveItem
  <2>3. PageType'
    BY <1>1, <1>3, <2>1, <2>2 DEF RemoveItem, PageType, TypeOK
  <2> QED BY <2>1, <2>3 DEF PageInv
<1>4. CASE Render \/ AskCancel \/ AnswerCancel(FALSE)
  <2>1. EachOnce' /\ OwnOutcome' /\ Phase'
    BY <1>1, <1>4, CoreStands DEF core, Render, AskCancel, AnswerCancel
  <2>2. PageType'
    <3>1. CASE Render
      <4>1. seen' = [queue |-> queue, running |-> running]
        BY <3>1 DEF Render
      <4> QED BY <1>1, <3>1, <4>1 DEF Render, PageType, TypeOK
    <3>2. CASE AskCancel
      BY <1>1, <3>2 DEF AskCancel, PageType, TypeOK
    <3>3. CASE AnswerCancel(FALSE)
      BY <1>1, <3>3 DEF AnswerCancel, PageType, TypeOK
    <3> QED BY <1>4, <3>1, <3>2, <3>3
  <2> QED BY <2>1, <2>2 DEF PageInv
<1>5. CASE AnswerCancel(TRUE) \/ Decide
  <2>1. /\ SendWord /\ asking' \in BOOLEAN /\ (report' = report \/ report' = None)
        /\ UNCHANGED <<queue, running, output, seen, drops, ticks, posted, bus, current, conv, outcome>>
    BY <1>1, <1>5 DEF AnswerCancel, Decide, TypeOK
  <2>2. EachOnce' /\ OwnOutcome' /\ Phase'
    BY <2>1, WordIsSent
  <2>3. main' \in Seq(Requests)
    <3>1. [do |-> "word", path |-> None] \in Requests
      BY DEF Requests
    <3> QED BY <1>1, <2>1, <3>1, AppendProperties DEF TypeOK, SendWord
  <2>4. PageType'
    BY <1>1, <2>1, <2>3 DEF PageType, TypeOK
  <2> QED BY <2>2, <2>4 DEF PageInv
<1>6. ~ \E p \in Paths : StartTimesOut(p)
  BY DEF Alone, StartTimesOut
<1>7. CASE Tick \/ ClickStart
  <2>1. /\ Rendered /\ StartNext /\ UNCHANGED <<report, bus, pipelines>>
        /\ UNCHANGED <<asking, drops>>
        /\ ticks' \in Nat
    BY <1>1, <1>7 DEF Alone, Settled, Tick, ClickStart, TypeOK
  <2>2. /\ EachOnce' /\ OwnOutcome' /\ Phase'
        /\ queue' \in Seq(Entry) /\ running' \in BOOLEAN
        /\ output' \in Conversions \cup {None} /\ main' \in Seq(Requests)
    BY <2>1, NextIsAsked
  <2>3. seen' \in [queue : Seq(Entry), running : BOOLEAN]
    BY <1>1, <1>7, <2>2 DEF Tick, ClickStart, PageType
  <2>4. PageType'
    BY <1>1, <2>1, <2>2, <2>3 DEF PageType, TypeOK
  <2> QED BY <2>2, <2>4 DEF PageInv
<1>8. CASE Deliver
  <2>1. EachOnce' /\ OwnOutcome' /\ Phase' /\ PageTypes'
    BY <1>8, MessageArrives
  <2>2. PageType'
    BY <1>1, <1>8, <2>1 DEF Deliver, PageType, PageTypes, TypeOK
  <2> QED BY <2>1, <2>2 DEF PageInv
<1>9. CASE Handle
  <2>1. main # <<>> /\ main' = Tail(main) /\ UNCHANGED page
    BY <1>9 DEF Handle
  <2>2. main' \in Seq(Requests)
    BY <2>1, RestOfMain
  <2>3. CASE Head(main).do \in {"start", "late"}
    <3>1. HandleStart(Head(main).path, Head(main).do = "start")
      BY <1>9, <2>3 DEF Handle
    <3>2. /\ EachOnce' /\ OwnOutcome' /\ Phase'
          /\ bus' \in Seq(Events) /\ posted' = posted /\ current' \in Paths \cup {None}
          /\ conv' \in [Conversions -> States]
          /\ outcome' \in [Conversions -> {"none", "success", "failed"}]
      BY <2>1, <2>3, <3>1, StartIsHandled
    <3>3. PageType'
      BY <1>1, <2>1, <2>2, <3>2 DEF PageType, TypeOK
    <3> QED BY <3>2, <3>3 DEF PageInv
  <2>4. CASE Head(main).do \notin {"start", "late"}
    <3>1. HandleWord
      BY <1>9, <2>4 DEF Handle
    <3>2. /\ EachOnce' /\ OwnOutcome' /\ Phase'
          /\ conv' \in [Conversions -> States]
      BY <2>1, <2>4, <3>1, WordIsHandled
    <3>3. PageType'
      BY <1>1, <2>1, <2>2, <3>1, <3>2 DEF HandleWord, PageType, TypeOK
    <3> QED BY <3>2, <3>3 DEF PageInv
  <2> QED BY <2>3, <2>4
<1>10. ASSUME NEW x \in Conversions, Ready(x)
       PROVE  PageInv'
  <2>1. /\ EachOnce' /\ OwnOutcome' /\ Phase' /\ bus' = bus /\ posted' \in Seq(Events)
        /\ conv' \in [Conversions -> States]
    BY <1>10, ReportIsReady
  <2>2. PageType'
    BY <1>1, <1>10, <2>1 DEF Ready, PageType, TypeOK
  <2> QED BY <2>1, <2>2 DEF PageInv
<1>11. ASSUME NEW x \in Conversions, NEW ok \in BOOLEAN, Finish(x, ok)
       PROVE  PageInv'
  <2>1. /\ EachOnce' /\ OwnOutcome' /\ Phase' /\ bus' = bus /\ posted' \in Seq(Events)
        /\ conv' \in [Conversions -> States]
        /\ outcome' \in [Conversions -> {"none", "success", "failed"}]
    BY <1>11, PipelineEnds
  <2>2. PageType'
    BY <1>1, <1>11, <2>1 DEF Finish, PageType, TypeOK
  <2> QED BY <2>1, <2>2 DEF PageInv
<1>14. CASE Signal
  <2>1. /\ EachOnce' /\ OwnOutcome' /\ Phase'
        /\ bus' \in Seq(Events) /\ posted' \in Seq(Events)
        /\ conv' \in [Conversions -> States]
    BY <1>14, SignalArrives
  <2>2. PageType'
    BY <1>1, <1>14, <2>1 DEF Signal, PageType, TypeOK
  <2> QED BY <2>1, <2>2 DEF PageInv
<1>12. CASE UNCHANGED vars
  <2>1. EachOnce' /\ OwnOutcome' /\ Phase'
    BY <1>1, <1>12, CoreStands DEF core, vars
  <2>2. PageType'
    BY <1>1, <1>12 DEF vars, PageType, TypeOK
  <2> QED BY <2>1, <2>2 DEF PageInv
<1>13. ~ \E b \in Batch : BatchStart(b)
  BY DEF Alone
<1> QED
  BY <1>2, <1>3, <1>4, <1>5, <1>6, <1>7, <1>8, <1>9, <1>10, <1>11, <1>12, <1>13, <1>14
  DEF Next, Work

\* The page and the sidecar are in one of four phases, and every mark in the
\* queue is the outcome of its file: the inductive invariant.
THEOREM PageInvariant == Alone => (Spec => []PageInv)
<1> SUFFICES ASSUME Alone PROVE Spec => []PageInv
  OBVIOUS
<1> QED BY PageInit, PageNext, PTL DEF Spec

\* Every variable of the page has its type.
THEOREM TypeCorrect == Alone => (Spec => []TypeOK)
<1>1. PageInv => TypeOK
  BY DEF PageInv, PageType
<1> QED BY <1>1, PageInvariant, PTL

\* The mark on a file, and the package on offer, are the outcome of that file's
\* conversion, though onFinished goes by the position in the queue.
THEOREM OutcomeIsOwn == Alone => (Spec => []OwnOutcome)
<1>1. PageInv => OwnOutcome
  BY DEF PageInv
<1> QED BY <1>1, PageInvariant, PTL

\* At most one conversion is in the sidecar or on its way to it, whatever is
\* dropped, removed, pressed or refused: pipeline.start replaces no other.
THEOREM OneAtATime == Alone => (Spec => []OneConversion)
<1>1. ASSUME PageInv PROVE OneConversion
  <2> DEFINE A == {p \in Paths : Active(p)}
             S == {i \in DOMAIN main : main[i].do \in {"start", "late"}}
  <2>1. \/ A = {} /\ S = {}
        \/ A = {} /\ \E k : S = {k}
        \/ S = {} /\ \E p : A = {p}
    <3>1. CASE Idle
      BY <3>1 DEF Idle, NoneActive, NoStart, IsStart
    <3>2. ASSUME NEW p \in Paths, Asked(p)
          PROVE  A = {} /\ \E k : S = {k}
      <4>1. PICK k \in DOMAIN main : /\ main[k] = [do |-> "start", path |-> p]
                                     /\ \A i \in DOMAIN main : IsStart(i) => i = k
        BY <3>2 DEF Asked
      <4>2. S = {k}
        BY <4>1 DEF IsStart
      <4> QED BY <3>2, <4>2 DEF Asked, NoneActive
    <3>3. ASSUME NEW p \in Paths, Works(p)
          PROVE  S = {} /\ A = {p}
      BY <3>3 DEF Works, NoStart, IsStart
    <3>4. ASSUME NEW p \in Paths, Ends(p)
          PROVE  S = {} /\ A = {}
      BY <3>4 DEF Ends, NoStart, IsStart, NoneActive
    <3> QED BY <1>1, <3>1, <3>2, <3>3, <3>4 DEF PageInv, Phase
  <2> HIDE DEF A, S
  <2>2. Cardinality(A) + Cardinality(S) <= 1
    <3>1. CASE A = {} /\ S = {}
      BY <3>1, FS_EmptySet
    <3>2. ASSUME NEW k, A = {}, S = {k} PROVE Cardinality(A) + Cardinality(S) <= 1
      BY <3>2, FS_EmptySet, FS_Singleton
    <3>3. ASSUME NEW p, S = {}, A = {p} PROVE Cardinality(A) + Cardinality(S) <= 1
      <4>1. Cardinality(A) = 1
        BY <3>3, FS_Singleton
      <4>2. Cardinality(S) = 0
        BY <3>3, FS_EmptySet
      <4> QED BY <4>1, <4>2
    <3> QED BY <2>1, <3>1, <3>2, <3>3
  <2> QED BY <2>2 DEF OneConversion, A, S
<1> QED BY <1>1, PageInvariant, PTL

\* A conversion that waits at its gate, one that is about to be dismissed and
\* one whose report is shown are transport._pipeline, whom all words are said to.
THEOREM AnswersReach == Alone => (Spec => []AnswerReaches)
<1>1. ASSUME PageInv PROVE AnswerReaches
  <2>1. ASSUME NEW p \in Paths, conv[p] = "awaiting" PROVE p = current
    BY <1>1, <2>1 DEF PageInv, Phase, Idle, Asked, Works, Ends, NoneActive, Active
  <2>2. ASSUME NEW i \in DOMAIN posted, posted[i].ev = "ready" PROVE posted[i].of = current
    <3>1. CASE posted = <<>>
      BY <3>1, EmptySeq
    <3>2. ASSUME NEW p \in Paths, Works(p), posted = <<ReadyOf(p)>>
          PROVE  posted[i].of = current
      BY <3>2 DEF Works, ReadyOf
    <3>3. ASSUME NEW p \in Paths, NEW ok \in BOOLEAN, Ended(p, ok),
                 posted \in {<<FinishedOf(p, ok)>>, <<ReadyOf(p), FinishedOf(p, ok)>>}
          PROVE  posted[i].of = current
      BY <3>3 DEF Ended, ReadyOf, FinishedOf
    <3>4. \/ posted = <<>>
          \/ \E p \in Paths : Works(p) /\ posted = <<ReadyOf(p)>>
          \/ \E p \in Paths, ok \in BOOLEAN :
                /\ Ended(p, ok)
                /\ posted \in {<<FinishedOf(p, ok)>>, <<ReadyOf(p), FinishedOf(p, ok)>>}
      BY <1>1 DEF PageInv, Phase, Idle, Asked, Works, Ends, Refused, Ended, Quiet, OnTheWay
    <3> QED BY <3>1, <3>2, <3>3, <3>4
  <2>3. report # None => report = current
    BY <1>1 DEF PageInv, Phase, Idle, Asked, Works, Ends, Refused, Ended
  <2> QED BY <2>1, <2>2, <2>3 DEF AnswerReaches
<1> QED BY <1>1, PageInvariant, PTL
=============================================================================
