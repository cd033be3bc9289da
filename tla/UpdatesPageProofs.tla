-------------------------- MODULE UpdatesPageProofs --------------------------
(***************************************************************************)
(* Theorems about UpdatesPage, for any intervals, times, calls and visits. *)
(*                                                                         *)
(* Without any hypothesis but that on the constants, the types and that    *)
(* the page waits only for what is under way.  If calls are answered in    *)
(* time, that a report on the first visit is that of the last check.  If   *)
(* besides nobody else writes the settings file, and its writers come one  *)
(* after the other, that the schedule card agrees with the file when all   *)
(* calls are answered.                                                     *)
(***************************************************************************)
EXTENDS UpdatesPage, FiniteSetTheorems, TLAPS

\* The hypothesis of the second kind
AloneAndSerial == UpdatesAssumption /\ Serial /\ ~Others

-----------------------------------------------------------------------------
(* The calls, as a set of their own *)

\* A change is followed by a look, for which the bound keeps a call.
Changes == Writes \cup {"delta.enable", "delta.disable"}
Changing(J) == {j \in J : j.op \in Changes}

JobsInv(J, i, v) ==
    /\ J \subseteq Job /\ IsFiniteSet(J)
    /\ i \in Nat /\ v \in Nat /\ i + Cardinality(Changing(J)) <= MaxJobs
    /\ \A j \in J : j.id <= i /\ j.visit <= v
    /\ \A j, k \in J : j.id = k.id => j = k
    /\ \A j \in J : (j.op \in Writes \cup {"get"} /\ j.phase # "sent") => j.saw \in Schedule
    /\ \A j \in J : j.phase = "loaded" => j.op \in Writes
    /\ \A j \in J : j.op = "interval" => j.arg \in Intervals
    /\ Serial => \A j \in J : j.visit # 0

\* Calls are worked on in their order, and one that has loaded comes first.
InOrder(J) ==
    /\ \A j, k \in J : (j.phase = "done" /\ k.phase # "done") => j.id < k.id
    /\ \A j, k \in J : (j.phase = "loaded" /\ k.phase # "done") => j.id <= k.id

\* A change asked for on an earlier visit was asked for earlier.
ByVisit(J) == \A j, k \in J : (j.op \in Writes /\ j.visit < k.visit) => j.id < k.id

-----------------------------------------------------------------------------
(* What holds in general *)

PageType ==
    /\ open \in BOOLEAN /\ visit \in 0..MaxVisits
    /\ schedule \in Schedule \cup {None} /\ loading \in BOOLEAN /\ delta \in BOOLEAN
    /\ confirmDisable \in BOOLEAN /\ checking \in BOOLEAN
    /\ cross \in 0..MaxJobs /\ asked \in 0..MaxJobs /\ listeners \subseteq 1..visit
    /\ open => visit # 0
SideType ==
    /\ file \in Schedule /\ stale \in Schedule /\ tick \in Schedule \cup {None}
    /\ now \in 0..MaxTime

WaitInv ==
    open => /\ loading => \E j \in jobs : j.visit = visit /\ j.op = "delta.status"
            /\ checking <=> visit \in listeners
            /\ checking => \E j \in jobs : j.visit = visit /\ j.op = "check"

ReportInv ==
    (Serial /\ open /\ visit = 1) =>
        /\ cross \in {0, asked}
        /\ \A j \in jobs : j.op = "check" => j.id = asked /\ checking

Inv == PageType /\ SideType /\ JobsInv(jobs, issued, visit) /\ WaitInv /\ ReportInv

-----------------------------------------------------------------------------
(* What holds if the writers of the file come one after the other *)

FileInv ==
    /\ InOrder(jobs)
    /\ \A j \in jobs : j.phase = "loaded" => j.saw = file
    /\ tick # None => tick = file /\ \A j \in jobs : j.phase # "loaded"
    /\ file.last_run # Never => file.last_run <= now

\* The calls whose answers bring the card of this visit up to date
Looks == {j \in jobs : j.visit = visit /\ j.op \in Writes \cup {"get"}}
Agree(s, f) == s \in Schedule /\ s.enabled = f.enabled /\ s.interval = f.interval
NoWrite == \A j \in jobs : j.op \in Writes => j.phase = "done"
CardInv ==
    /\ ByVisit(jobs)
    /\ open =>
         /\ Looks = {} => Agree(schedule, file) /\ NoWrite
         /\ \A m \in Looks : (m.op = "get" /\ m.phase = "done" /\ \A k \in Looks : k.id <= m.id)
              => Agree(m.saw, file) /\ NoWrite

-----------------------------------------------------------------------------
(* Sets of calls *)

\* A new call has the fields it was made with.
LEMMA RequestTyped ==
    ASSUME NEW n \in 1..MaxJobs, NEW op \in Writes \cup Asks, NEW arg \in Intervals \cup {None},
           NEW w \in 1..MaxVisits
    PROVE  Request(n, op, arg, w) \in Job
  BY DEF Request, Job

\* A look or a check is added.
LEMMA AskAdded ==
    ASSUME UpdatesAssumption, NEW J, NEW i, NEW v, JobsInv(J, i, v),
           NEW op \in {"get", "delta.status", "check"}, NEW w \in 1..MaxVisits, w <= v,
           i + 1 + Cardinality(Changing(J)) <= MaxJobs
    PROVE  JobsInv(J \cup {Request(i + 1, op, None, w)}, i + 1, v)
<1> DEFINE n == Request(i + 1, op, None, w)
           K == J \cup {n}
<1>1. n.id = i + 1 /\ n.op = op /\ n.visit = w /\ n.phase = "sent"
  BY DEF Request
<1>2. IsFiniteSet(Changing(J)) /\ Cardinality(Changing(J)) \in Nat
  BY FS_Subset, FS_CardinalityType DEF JobsInv, Changing
<1>3. n \in Job
  <2>1. i + 1 \in 1..MaxJobs
    BY <1>2 DEF JobsInv, UpdatesAssumption
  <2> QED
    BY <2>1, RequestTyped DEF Asks
<1>4. \A j \in J : j.id \in Nat /\ j.visit \in Nat
  BY DEF JobsInv, Job, UpdatesAssumption
<1> HIDE DEF n
<1>5. Changing(K) = Changing(J)
  BY <1>1 DEF Changing, Changes, Writes
<1>6. K \subseteq Job /\ IsFiniteSet(K)
  BY <1>3, FS_AddElement DEF JobsInv
<1>7. i + 1 \in Nat /\ v \in Nat /\ (i + 1) + Cardinality(Changing(K)) <= MaxJobs
  BY <1>2, <1>5 DEF JobsInv, UpdatesAssumption
<1>8. \A j \in K : j.id <= i + 1 /\ j.visit <= v
  BY <1>1, <1>4 DEF JobsInv
<1>9. \A j, k \in K : j.id = k.id => j = k
  BY <1>1, <1>4 DEF JobsInv
<1>10. /\ \A j \in K : (j.op \in Writes \cup {"get"} /\ j.phase # "sent") => j.saw \in Schedule
       /\ \A j \in K : j.phase = "loaded" => j.op \in Writes
       /\ \A j \in K : j.op = "interval" => j.arg \in Intervals
  BY <1>1 DEF JobsInv
<1>12. Serial => \A j \in K : j.visit # 0
  BY <1>1 DEF JobsInv
<1> HIDE DEF K
<1>11. JobsInv(K, i + 1, v)
  BY <1>6, <1>7, <1>8, <1>9, <1>10, <1>12 DEF JobsInv
<1> QED
  BY <1>11 DEF K, n

\* A change is added, with room for the look that follows it.
LEMMA ChangeAdded ==
    ASSUME UpdatesAssumption, NEW J, NEW i, NEW v, JobsInv(J, i, v),
           NEW op \in Changes, NEW arg \in Intervals \cup {None},
           op = "interval" => arg \in Intervals, NEW w \in 1..MaxVisits, w <= v,
           i + 2 + Cardinality(Changing(J)) <= MaxJobs
    PROVE  JobsInv(J \cup {Request(i + 1, op, arg, w)}, i + 1, v)
<1> DEFINE n == Request(i + 1, op, arg, w)
           K == J \cup {n}
<1>1. n.id = i + 1 /\ n.op = op /\ n.visit = w /\ n.phase = "sent" /\ n.arg = arg
  BY DEF Request
<1>2. IsFiniteSet(Changing(J)) /\ Cardinality(Changing(J)) \in Nat
  BY FS_Subset, FS_CardinalityType DEF JobsInv, Changing
<1>3. n \in Job
  <2>1. i + 1 \in 1..MaxJobs
    BY <1>2 DEF JobsInv, UpdatesAssumption
  <2> QED
    BY <2>1, RequestTyped DEF Changes, Asks
<1>4. \A j \in J : j.id \in Nat /\ j.visit \in Nat
  BY DEF JobsInv, Job, UpdatesAssumption
<1> HIDE DEF n
<1>5. n \notin J
  BY <1>1, <1>4 DEF JobsInv
<1>6. Cardinality(Changing(K)) = Cardinality(Changing(J)) + 1
  <2>1. Changing(K) = Changing(J) \cup {n} /\ n \notin Changing(J)
    BY <1>1, <1>5 DEF Changing
  <2> QED
    BY <2>1, <1>2, FS_AddElement
<1>7. K \subseteq Job /\ IsFiniteSet(K)
  BY <1>3, FS_AddElement DEF JobsInv
<1>8. i + 1 \in Nat /\ v \in Nat /\ (i + 1) + Cardinality(Changing(K)) <= MaxJobs
  BY <1>2, <1>6 DEF JobsInv, UpdatesAssumption
<1>9. \A j \in K : j.id <= i + 1 /\ j.visit <= v
  BY <1>1, <1>4 DEF JobsInv
<1>10. \A j, k \in K : j.id = k.id => j = k
  BY <1>1, <1>4 DEF JobsInv
<1>11. /\ \A j \in K : (j.op \in Writes \cup {"get"} /\ j.phase # "sent") => j.saw \in Schedule
       /\ \A j \in K : j.phase = "loaded" => j.op \in Writes
       /\ \A j \in K : j.op = "interval" => j.arg \in Intervals
  BY <1>1 DEF JobsInv
<1>13. Serial => \A j \in K : j.visit # 0
  BY <1>1 DEF JobsInv
<1> HIDE DEF K
<1>12. JobsInv(K, i + 1, v)
  BY <1>7, <1>8, <1>9, <1>10, <1>11, <1>13 DEF JobsInv
<1> QED
  BY <1>12 DEF K, n

\* A call goes; if it was a change, there is room for a look.
LEMMA CallGone ==
    ASSUME UpdatesAssumption, NEW J, NEW i, NEW v, JobsInv(J, i, v), NEW j \in J
    PROVE  /\ JobsInv(J \ {j}, i, v)
           /\ j.op \in Changes => i + 1 + Cardinality(Changing(J \ {j})) <= MaxJobs
<1> DEFINE K == J \ {j}
<1>1. IsFiniteSet(Changing(J)) /\ Cardinality(Changing(J)) \in Nat
  BY FS_Subset, FS_CardinalityType DEF JobsInv, Changing
<1>2. K \subseteq Job /\ IsFiniteSet(K)
  BY FS_RemoveElement DEF JobsInv
<1>3. IF j.op \in Changes THEN Cardinality(Changing(K)) = Cardinality(Changing(J)) - 1
                          ELSE Cardinality(Changing(K)) = Cardinality(Changing(J))
  <2>1. CASE j.op \in Changes
    <3>1. Changing(K) = Changing(J) \ {j} /\ j \in Changing(J)
      BY <2>1 DEF Changing
    <3> QED
      BY <2>1, <3>1, <1>1, FS_RemoveElement
  <2>2. CASE j.op \notin Changes
    <3>1. Changing(K) = Changing(J)
      BY <2>2 DEF Changing
    <3> QED
      BY <2>2, <3>1
  <2> QED
    BY <2>1, <2>2
<1>4. i + Cardinality(Changing(K)) <= MaxJobs
  BY <1>1, <1>3 DEF JobsInv, UpdatesAssumption
<1>5. j.op \in Changes => i + 1 + Cardinality(Changing(K)) <= MaxJobs
  BY <1>1, <1>3 DEF JobsInv, UpdatesAssumption
<1> HIDE DEF Changing
<1>6. JobsInv(K, i, v)
  BY <1>2, <1>4 DEF JobsInv
<1> QED
  BY <1>5, <1>6

\* A call gives way to the look that follows it.
LEMMA CallFollowed ==
    ASSUME UpdatesAssumption, NEW J, NEW i, NEW v, JobsInv(J, i, v), NEW j \in J,
           j.op \in Changes, j.visit # 0, NEW op \in {"get", "delta.status"}
    PROVE  JobsInv((J \ {j}) \cup {Request(i + 1, op, None, j.visit)}, i + 1, v)
<1>1. JobsInv(J \ {j}, i, v) /\ i + 1 + Cardinality(Changing(J \ {j})) <= MaxJobs
  BY CallGone
<1>2. j.visit \in 1..MaxVisits /\ j.visit <= v
  BY DEF JobsInv, Job
<1> QED
  BY <1>1, <1>2, AskAdded

\* A call goes on to its next phase, or nobody awaits its response any more.
LEMMA CallWorked ==
    ASSUME UpdatesAssumption, NEW J, NEW i, NEW v, JobsInv(J, i, v), NEW j \in J,
           NEW k \in Job, k.id = j.id, k.op = j.op, k.arg = j.arg,
           k.visit = j.visit \/ (~Serial /\ k.visit = 0),
           (k.op \in Writes \cup {"get"} /\ k.phase # "sent") => k.saw \in Schedule,
           k.phase = "loaded" => k.op \in Writes
    PROVE  JobsInv((J \ {j}) \cup {k}, i, v)
<1> DEFINE I == J \ {j}
           K == I \cup {k}
<1>1. JobsInv(I, i, v) /\ (j.op \in Changes => i + 1 + Cardinality(Changing(I)) <= MaxJobs)
  BY CallGone
<1>2. IsFiniteSet(Changing(I)) /\ Cardinality(Changing(I)) \in Nat
  BY <1>1, FS_Subset, FS_CardinalityType DEF JobsInv, Changing
<1>3. \A l \in I : l.id # k.id
  BY DEF JobsInv
<1>4. j.id <= i /\ j.visit <= v
  BY DEF JobsInv
<1> HIDE DEF I
<1>5. i + Cardinality(Changing(K)) <= MaxJobs
  <2>1. CASE j.op \in Changes
    <3>1. Changing(K) = Changing(I) \cup {k} /\ k \notin Changing(I)
      BY <2>1, <1>3 DEF Changing
    <3>2. Cardinality(Changing(K)) = Cardinality(Changing(I)) + 1
      BY <3>1, <1>2, FS_AddElement
    <3> QED
      BY <3>2, <2>1, <1>1, <1>2 DEF JobsInv, UpdatesAssumption
  <2>2. CASE j.op \notin Changes
    <3>1. Changing(K) = Changing(I)
      BY <2>2 DEF Changing
    <3> QED
      BY <3>1, <1>1 DEF JobsInv
  <2> QED
    BY <2>1, <2>2
<1>6. K \subseteq Job /\ IsFiniteSet(K)
  BY <1>1, FS_AddElement DEF JobsInv
<1>7. /\ \A l \in K : l.id <= i /\ l.visit <= v
      /\ \A l, m \in K : l.id = m.id => l = m
      /\ Serial => \A l \in K : l.visit # 0
  BY <1>1, <1>3, <1>4 DEF JobsInv
<1>8. /\ \A l \in K : (l.op \in Writes \cup {"get"} /\ l.phase # "sent") => l.saw \in Schedule
      /\ \A l \in K : l.phase = "loaded" => l.op \in Writes
      /\ \A l \in K : l.op = "interval" => l.arg \in Intervals
  BY <1>1 DEF JobsInv
<1> HIDE DEF K
<1>9. JobsInv(K, i, v)
  BY <1>1, <1>5, <1>6, <1>7, <1>8 DEF JobsInv
<1> QED
  BY <1>9 DEF K, I

\* A later visit keeps the calls.
LEMMA VisitLater ==
    ASSUME UpdatesAssumption, NEW J, NEW i, NEW v, JobsInv(J, i, v)
    PROVE  JobsInv(J, i, v + 1)
<1>1. \A j \in J : j.visit \in Nat
  BY DEF JobsInv, Job
<1> QED
  BY <1>1 DEF JobsInv

-----------------------------------------------------------------------------
(* The steps of the page *)

LEMMA RoomLeft ==
    ASSUME NEW n \in Nat, Room(n)
    PROVE  issued + n + Cardinality(Changing(jobs)) <= MaxJobs
  BY DEF Room, Changing, Changes

LEMMA JobsTyped ==
    ASSUME UpdatesAssumption, JobsInv(jobs, issued, visit)
    PROVE  /\ jobs \subseteq Job /\ issued \in 0..MaxJobs
           /\ \A j \in jobs : j.id \in 1..MaxJobs /\ j.visit \in 0..MaxVisits /\ j.visit <= visit
           /\ Cardinality(Changing(jobs)) \in Nat
<1>1. Cardinality(Changing(jobs)) \in Nat
  BY FS_Subset, FS_CardinalityType DEF JobsInv, Changing
<1> QED
  BY <1>1 DEF JobsInv, Job, UpdatesAssumption

LEMMA OpenStep ==
    ASSUME UpdatesAssumption, Inv, Open
    PROVE  Inv'
<1> DEFINE d == Request(issued + 1, "delta.status", None, visit + 1)
           g == Request(issued + 2, "get", None, visit + 1)
<1>a. PageType /\ SideType /\ JobsInv(jobs, issued, visit) /\ WaitInv /\ ReportInv
  BY DEF Inv
<1>b. /\ ~open /\ visit < MaxVisits /\ Room(2) /\ open' = TRUE /\ visit' = visit + 1
      /\ schedule' = None /\ loading' = TRUE /\ delta' = FALSE /\ confirmDisable' = FALSE
      /\ checking' = FALSE /\ cross' = 0 /\ asked' = 0
      /\ issued' = issued + 2 /\ jobs' = jobs \cup {d, g}
      /\ UNCHANGED <<file, stale, now, tick, listeners>>
  BY DEF Open, side
<1>c. issued + 2 + Cardinality(Changing(jobs)) <= MaxJobs
  BY <1>b, RoomLeft
<1>d. d.op = "delta.status" /\ d.visit = visit + 1 /\ g.op = "get" /\ g.visit = visit + 1
  BY DEF Request
<1>e. /\ issued \in 0..MaxJobs /\ Cardinality(Changing(jobs)) \in Nat
      /\ \A j \in jobs : j.visit \in 0..MaxVisits /\ j.visit <= visit
  BY <1>a, JobsTyped
<1>1. JobsInv(jobs', issued', visit')
  <2> DEFINE J == jobs \cup {d}
  <2>1. JobsInv(jobs, issued, visit + 1)
    BY <1>a, VisitLater
  <2>2. visit + 1 \in 1..MaxVisits /\ visit + 1 <= visit + 1
    BY <1>a, <1>b DEF PageType, UpdatesAssumption
  <2>3. issued + 1 + Cardinality(Changing(jobs)) <= MaxJobs
    BY <1>c, <1>e DEF UpdatesAssumption
  <2>4. JobsInv(J, issued + 1, visit + 1)
    BY <2>1, <2>2, <2>3, AskAdded
  <2>5. Changing(J) = Changing(jobs)
    BY <1>d DEF Changing, Changes, Writes
  <2>6. (issued + 1) + 1 = issued + 2
    BY <1>e
  <2>7. (issued + 1) + 1 + Cardinality(Changing(J)) <= MaxJobs
    BY <1>c, <2>5, <2>6
  <2> HIDE DEF J
  <2>8. JobsInv(J \cup {Request((issued + 1) + 1, "get", None, visit + 1)}, (issued + 1) + 1, visit + 1)
    BY <2>2, <2>4, <2>7, AskAdded
  <2>9. JobsInv(J \cup {g}, issued + 2, visit + 1)
    BY <2>6, <2>8
  <2>10. jobs' = J \cup {g}
    BY <1>b DEF J
  <2> QED
    BY <2>9, <2>10, <1>b
<1> HIDE DEF d, g
<1>2. PageType'
  <2>1. visit' \in 1..MaxVisits /\ listeners' \subseteq 1..visit'
    BY <1>a, <1>b DEF PageType, UpdatesAssumption
  <2>2. visit' \in 0..MaxVisits /\ visit' # 0 /\ 0 \in 0..MaxJobs
    BY <2>1 DEF UpdatesAssumption
  <2> QED
    BY <1>b, <2>1, <2>2 DEF PageType
<1>3. SideType'
  BY <1>a, <1>b DEF SideType
<1>4. WaitInv'
  <2>1. visit' \notin listeners'
    BY <1>a, <1>b DEF PageType
  <2> QED
    BY <1>b, <1>d, <2>1 DEF WaitInv
<1>5. ReportInv'
  <2>1. (Serial /\ visit' = 1) => jobs = {}
    BY <1>a, <1>b, <1>e DEF PageType, JobsInv, UpdatesAssumption
  <2> QED
    BY <1>a, <1>b, <1>d, <2>1 DEF ReportInv, PageType
<1> QED
  BY <1>1, <1>2, <1>3, <1>4, <1>5 DEF Inv

\* A change that is asked for by a button
LEMMA ChangeStep ==
    ASSUME UpdatesAssumption, Inv, open, NEW op \in Changes, NEW arg \in Intervals \cup {None},
           op = "interval" => arg \in Intervals, Room(2), Call(op, arg),
           UNCHANGED <<open, visit, schedule, loading, delta, checking, cross, listeners, asked, side>>,
           confirmDisable' \in BOOLEAN
    PROVE  Inv'
<1> DEFINE n == Request(issued + 1, op, arg, visit)
<1>a. PageType /\ SideType /\ JobsInv(jobs, issued, visit) /\ WaitInv /\ ReportInv
  BY DEF Inv
<1>b. issued' = issued + 1 /\ jobs' = jobs \cup {n}
  BY DEF Call
<1>c. issued + 2 + Cardinality(Changing(jobs)) <= MaxJobs
  BY RoomLeft
<1>d. n.op = op
  BY DEF Request
<1>e. visit \in 1..MaxVisits /\ visit <= visit
  BY <1>a DEF PageType, UpdatesAssumption
<1>1. JobsInv(jobs', issued', visit')
  BY <1>a, <1>b, <1>c, <1>e, ChangeAdded
<1> HIDE DEF n
<1>2. PageType' /\ SideType'
  BY <1>a DEF PageType, SideType, side
<1>3. WaitInv'
  BY <1>a, <1>b DEF WaitInv
<1>4. ReportInv'
  BY <1>a, <1>b, <1>d DEF ReportInv, Changes, Writes
<1> QED
  BY <1>1, <1>2, <1>3, <1>4 DEF Inv

LEMMA RefreshStep ==
    ASSUME UpdatesAssumption, Inv, RefreshDelta
    PROVE  Inv'
<1> DEFINE n == Request(issued + 1, "delta.status", None, visit)
<1>a. PageType /\ SideType /\ JobsInv(jobs, issued, visit) /\ WaitInv /\ ReportInv
  BY DEF Inv
<1>b. /\ issued' = issued + 1 /\ jobs' = jobs \cup {n} /\ open /\ Room(1) /\ loading' = TRUE
      /\ UNCHANGED <<open, visit, schedule, delta, confirmDisable, checking, cross, listeners,
                    asked, file, stale, now, tick>>
  BY DEF RefreshDelta, Call, side
<1>c. issued + 1 + Cardinality(Changing(jobs)) <= MaxJobs
  BY <1>b, RoomLeft
<1>d. n.op = "delta.status" /\ n.visit = visit
  BY DEF Request
<1>e. visit \in 1..MaxVisits /\ visit <= visit
  BY <1>a, <1>b DEF PageType, UpdatesAssumption
<1>1. JobsInv(jobs', issued', visit')
  BY <1>a, <1>b, <1>c, <1>e, AskAdded
<1> HIDE DEF n
<1>2. PageType' /\ SideType'
  BY <1>a, <1>b DEF PageType, SideType
<1>3. WaitInv'
  BY <1>a, <1>b, <1>d DEF WaitInv
<1>4. ReportInv'
  BY <1>a, <1>b, <1>d DEF ReportInv
<1> QED
  BY <1>1, <1>2, <1>3, <1>4 DEF Inv

LEMMA CheckStep ==
    ASSUME UpdatesAssumption, Inv, handleCrossCheck
    PROVE  Inv'
<1> DEFINE n == Request(issued + 1, "check", None, visit)
<1>a. PageType /\ SideType /\ JobsInv(jobs, issued, visit) /\ WaitInv /\ ReportInv
  BY DEF Inv
<1>b. /\ issued' = issued + 1 /\ jobs' = jobs \cup {n} /\ open /\ ~checking /\ Room(1)
      /\ checking' = TRUE /\ cross' = 0 /\ asked' = issued + 1
      /\ listeners' = listeners \cup {visit}
      /\ UNCHANGED <<open, visit, schedule, loading, delta, confirmDisable, file, stale, now, tick>>
  BY DEF handleCrossCheck, Call, side
<1>c. issued + 1 + Cardinality(Changing(jobs)) <= MaxJobs
  BY <1>b, RoomLeft
<1>d. n.op = "check" /\ n.visit = visit /\ n.id = issued + 1
  BY DEF Request
<1>e. visit \in 1..MaxVisits /\ visit <= visit
  BY <1>a, <1>b DEF PageType, UpdatesAssumption
<1>f. issued + 1 \in 0..MaxJobs
  BY <1>a, <1>c, JobsTyped DEF UpdatesAssumption
<1>1. JobsInv(jobs', issued', visit')
  BY <1>a, <1>b, <1>c, <1>e, AskAdded
<1> HIDE DEF n
<1>2. PageType'
  <2>1. listeners' \subseteq 1..visit' /\ 0 \in 0..MaxJobs
    BY <1>a, <1>b, <1>e DEF PageType, UpdatesAssumption
  <2> QED
    BY <1>a, <1>b, <1>f, <2>1 DEF PageType
<1>3. SideType'
  BY <1>a, <1>b DEF SideType
<1>4. WaitInv'
  BY <1>a, <1>b, <1>d DEF WaitInv
<1>5. ReportInv'
  BY <1>a, <1>b, <1>d DEF ReportInv
<1> QED
  BY <1>1, <1>2, <1>3, <1>4, <1>5 DEF Inv

LEMMA PageStep ==
    ASSUME UpdatesAssumption, Inv,
           \/ Open \/ Leave \/ RefreshDelta \/ handleEnable \/ AskDisable \/ handleCrossCheck
           \/ handleScheduleRun
           \/ \E b \in BOOLEAN : handleScheduleToggle(b) \/ AnswerDisable(b)
           \/ \E h \in Intervals : handleScheduleInterval(h)
    PROVE  Inv'
<1>a. PageType /\ SideType /\ JobsInv(jobs, issued, visit) /\ WaitInv /\ ReportInv
  BY DEF Inv
<1>1. CASE Leave \/ AskDisable \/ AnswerDisable(FALSE)
  <2>1. /\ UNCHANGED <<visit, schedule, loading, delta, checking, cross, listeners, asked, side,
                      jobs, issued>>
        /\ open' \in BOOLEAN /\ (open' => open) /\ confirmDisable' \in BOOLEAN
    <3>1. CASE Leave
      BY <3>1, <1>a DEF Leave, PageType
    <3>2. CASE AskDisable
      BY <3>2, <1>a DEF AskDisable, PageType
    <3>3. CASE AnswerDisable(FALSE)
      BY <3>3, <1>a DEF AnswerDisable, KeepJobs, PageType
    <3> QED
      BY <1>1, <3>1, <3>2, <3>3
  <2>2. PageType' /\ SideType' /\ WaitInv' /\ ReportInv'
    BY <1>a, <2>1 DEF PageType, SideType, WaitInv, ReportInv, side
  <2> QED
    BY <1>a, <2>1, <2>2 DEF Inv
<1>2. CASE AnswerDisable(TRUE)
  <2>1. "delta.disable" \in Changes /\ confirmDisable' \in BOOLEAN
    BY <1>2 DEF Changes, AnswerDisable
  <2> QED
    BY <1>2, <2>1, ChangeStep DEF AnswerDisable
<1>3. CASE handleEnable
  <2>1. "delta.enable" \in Changes /\ confirmDisable' \in BOOLEAN
    BY <1>3, <1>a DEF Changes, handleEnable, page, PageType
  <2> QED
    BY <1>3, <2>1, ChangeStep DEF handleEnable, DeltaCard, page
<1>4. ASSUME NEW op \in Writes, NEW arg \in Intervals \cup {None}, ScheduleSet(op, arg),
             op = "interval" => arg \in Intervals
      PROVE  Inv'
  <2>1. op \in Changes /\ confirmDisable' \in BOOLEAN
    BY <1>4, <1>a DEF Changes, ScheduleSet, page, PageType
  <2> QED
    BY <1>4, <2>1, ChangeStep DEF ScheduleSet, ScheduleCard, page
<1>5. CASE \/ handleScheduleRun
           \/ \E b \in BOOLEAN : handleScheduleToggle(b)
           \/ \E h \in Intervals : handleScheduleInterval(h)
  <2>1. {"enable", "disable", "interval", "run"} = Writes
    BY DEF Writes
  <2> QED
    BY <1>4, <1>5, <2>1 DEF handleScheduleRun, handleScheduleToggle, handleScheduleInterval
<1> QED
  BY <1>1, <1>2, <1>3, <1>5, OpenStep, RefreshStep, CheckStep

-----------------------------------------------------------------------------
(* The steps of the sidecar *)

LEMMA PhaseStep ==
    ASSUME UpdatesAssumption, Inv, NEW j \in jobs, NEW phase \in {"loaded", "done"},
           NEW s \in Schedule \cup {None}, To(j, phase, s), UNCHANGED <<page, issued>>,
           (j.op \in Writes \cup {"get"}) => s \in Schedule, phase = "loaded" => j.op \in Writes
    PROVE  PageType' /\ JobsInv(jobs', issued', visit') /\ WaitInv' /\ ReportInv'
<1> DEFINE k == [j EXCEPT !.phase = phase, !.saw = s]
<1>a. PageType /\ SideType /\ JobsInv(jobs, issued, visit) /\ WaitInv /\ ReportInv
  BY DEF Inv
<1>b. /\ jobs' = (jobs \ {j}) \cup {k}
      /\ UNCHANGED <<issued, open, visit, schedule, loading, delta, confirmDisable, checking,
                    cross, listeners, asked>>
  BY DEF To, page
<1>c. j \in Job
  BY <1>a DEF JobsInv
<1>d. /\ k \in Job /\ k.id = j.id /\ k.op = j.op /\ k.visit = j.visit /\ k.arg = j.arg
      /\ k.saw = s /\ k.phase = phase
  BY <1>c DEF Job
<1> HIDE DEF k
<1>1. JobsInv(jobs', issued', visit')
  BY <1>a, <1>b, <1>d, CallWorked
<1>2. PageType'
  BY <1>a, <1>b DEF PageType
<1>3. WaitInv' /\ ReportInv'
  BY <1>a, <1>b, <1>d DEF WaitInv, ReportInv
<1> QED
  BY <1>1, <1>2, <1>3

\* What the four writers save is a schedule.
LEMMA Stamped ==
    ASSUME UpdatesAssumption, SideType, NEW s \in Schedule
    PROVE  [s EXCEPT !.last_run = now] \in Schedule
<1>1. now \in 0..Never
  BY DEF SideType, Never, UpdatesAssumption
<1> QED
  BY <1>1 DEF Schedule

LEMMA SavedTyped ==
    ASSUME UpdatesAssumption, Inv, NEW j \in jobs, Save(j)
    PROVE  /\ j.saw \in Schedule /\ file' \in Schedule
           /\ file' \in {[j.saw EXCEPT !.enabled = TRUE], [j.saw EXCEPT !.enabled = FALSE],
                        [j.saw EXCEPT !.interval = j.arg], [j.saw EXCEPT !.last_run = now]}
<1>1. j.op \in Writes /\ j.saw \in Schedule /\ (j.op = "interval" => j.arg \in Intervals)
  BY DEF Inv, JobsInv, Save
<1>2. /\ j.op = "enable" => file' = [j.saw EXCEPT !.enabled = TRUE]
      /\ j.op = "disable" => file' = [j.saw EXCEPT !.enabled = FALSE]
      /\ j.op = "interval" => file' = [j.saw EXCEPT !.interval = j.arg]
      /\ j.op = "run" => file' = [j.saw EXCEPT !.last_run = now]
  BY DEF Save
<1>3. [j.saw EXCEPT !.last_run = now] \in Schedule
  BY <1>1, Stamped DEF Inv
<1>4. /\ [j.saw EXCEPT !.enabled = TRUE] \in Schedule /\ [j.saw EXCEPT !.enabled = FALSE] \in Schedule
      /\ j.op = "interval" => [j.saw EXCEPT !.interval = j.arg] \in Schedule
  BY <1>1 DEF Schedule
<1> QED
  BY <1>1, <1>2, <1>3, <1>4 DEF Writes

LEMMA SideStep ==
    ASSUME UpdatesAssumption, Inv,
           \/ TickLoads \/ TickSaves \/ Hour \/ SettingsLoad \/ SettingsSave
           \/ \E j \in jobs : Load(j) \/ Save(j) \/ Work(j)
    PROVE  Inv'
<1>a. PageType /\ SideType /\ JobsInv(jobs, issued, visit) /\ WaitInv /\ ReportInv
  BY DEF Inv
<1>1. CASE TickLoads \/ TickSaves \/ Hour \/ SettingsLoad \/ SettingsSave
  <2>1. UNCHANGED <<open, visit, schedule, loading, delta, confirmDisable, checking, cross,
                    listeners, asked, jobs, issued>>
    BY <1>1 DEF TickLoads, TickSaves, Hour, SettingsLoad, SettingsSave, page
  <2>2. PageType' /\ JobsInv(jobs', issued', visit') /\ WaitInv' /\ ReportInv'
    BY <1>a, <2>1 DEF PageType, WaitInv, ReportInv
  <2>3. SideType'
    <3>1. CASE TickLoads \/ SettingsLoad \/ SettingsSave
      BY <3>1, <1>a DEF TickLoads, SettingsLoad, SettingsSave, SideType
    <3>2. CASE TickSaves
      <4>1. tick \in Schedule
        BY <3>2, <1>a DEF TickSaves, SideType
      <4>2. file' \in Schedule
        BY <3>2, <4>1, <1>a, Stamped DEF TickSaves
      <4> QED
        BY <3>2, <4>2, <1>a DEF TickSaves, SideType
    <3>3. CASE Hour
      BY <3>3, <1>a DEF Hour, SideType, UpdatesAssumption
    <3> QED
      BY <1>1, <3>1, <3>2, <3>3
  <2> QED
    BY <2>2, <2>3 DEF Inv
<1>2. ASSUME NEW j \in jobs, Load(j)
      PROVE  Inv'
  <2>1. PICK phase \in {"loaded", "done"} : To(j, phase, file) /\ (phase = "loaded" => j.op \in Writes)
    BY <1>2 DEF Load
  <2>2. UNCHANGED <<page, issued>> /\ UNCHANGED <<file, stale, now, tick>>
    BY <1>2 DEF Load, side
  <2>3. SideType' /\ file \in Schedule
    BY <1>a, <2>2 DEF SideType
  <2>4. PageType' /\ JobsInv(jobs', issued', visit') /\ WaitInv' /\ ReportInv'
    BY <2>1, <2>2, <2>3, PhaseStep
  <2> QED
    BY <2>3, <2>4 DEF Inv
<1>3. ASSUME NEW j \in jobs, Save(j)
      PROVE  Inv'
  <2>1. To(j, "done", j.saw) /\ UNCHANGED <<page, issued>> /\ UNCHANGED <<stale, now, tick>>
    BY <1>3 DEF Save
  <2>2. j.saw \in Schedule /\ file' \in Schedule
    BY <1>3, SavedTyped
  <2>3. PageType' /\ JobsInv(jobs', issued', visit') /\ WaitInv' /\ ReportInv'
    BY <2>1, <2>2, PhaseStep
  <2>4. SideType'
    BY <1>a, <2>1, <2>2 DEF SideType
  <2> QED
    BY <2>3, <2>4 DEF Inv
<1>4. ASSUME NEW j \in jobs, Work(j)
      PROVE  Inv'
  <2>1. To(j, "done", None) /\ UNCHANGED <<page, issued>> /\ UNCHANGED <<file, stale, now, tick>>
    BY <1>4 DEF Work, side
  <2>2. j.op \notin Writes \cup {"get"}
    BY <1>4 DEF Work, Writes, Asks
  <2>3. PageType' /\ JobsInv(jobs', issued', visit') /\ WaitInv' /\ ReportInv'
    BY <2>1, <2>2, PhaseStep
  <2>4. SideType'
    BY <1>a, <2>1 DEF SideType
  <2> QED
    BY <2>3, <2>4 DEF Inv
<1> QED
  BY <1>1, <1>2, <1>3, <1>4

-----------------------------------------------------------------------------
(* The answers *)

\* An answer that is followed by nothing
LEMMA GoneStep ==
    ASSUME UpdatesAssumption, Inv, NEW j \in jobs, jobs' = jobs \ {j}, UNCHANGED <<side, issued, visit>>,
           PageType', WaitInv', ReportInv'
    PROVE  Inv'
<1>1. JobsInv(jobs', issued', visit')
  BY CallGone DEF Inv
<1>2. SideType'
  BY DEF Inv, SideType, side
<1> QED
  BY <1>1, <1>2 DEF Inv

\* One that is followed by a look
LEMMA FollowedStep ==
    ASSUME UpdatesAssumption, Inv, NEW j \in jobs, j.op \in Changes, j.visit # 0,
           NEW op \in {"get", "delta.status"}, issued' = issued + 1,
           jobs' = (jobs \ {j}) \cup {Request(issued + 1, op, None, j.visit)},
           UNCHANGED <<side, open, visit, schedule, delta, confirmDisable, checking, cross,
                       listeners, asked>>,
           loading' = (loading \/ (op = "delta.status" /\ Here(j)))
    PROVE  Inv'
<1> DEFINE n == Request(issued + 1, op, None, j.visit)
<1>a. PageType /\ SideType /\ JobsInv(jobs, issued, visit) /\ WaitInv /\ ReportInv
  BY DEF Inv
<1>b. n.op = op /\ n.visit = j.visit
  BY DEF Request
<1>1. JobsInv(jobs', issued', visit')
  BY <1>a, CallFollowed
<1>2. jobs' = (jobs \ {j}) \cup {n}
  OBVIOUS
<1> HIDE DEF n
<1>3. PageType' /\ SideType'
  BY <1>a DEF PageType, SideType, side
<1>4. j.op # "delta.status" /\ j.op # "check"
  BY DEF Changes, Writes
<1>5. WaitInv'
  BY <1>a, <1>b, <1>2, <1>4 DEF WaitInv, Here
<1>6. ReportInv'
  BY <1>a, <1>b, <1>2 DEF ReportInv
<1> QED
  BY <1>1, <1>3, <1>5, <1>6 DEF Inv

LEMMA AnswerStep ==
    ASSUME UpdatesAssumption, Inv, NEW j \in jobs, NEW ok \in BOOLEAN,
           \/ CrossCheckRefused(j) \/ GotSchedule(j, ok) \/ Changed(j, ok) \/ GotDelta(j, ok)
           \/ DeltaChanged(j, ok) \/ CrossCheckDone(j, ok) \/ TimesOut(j) \/ Unheard(j)
    PROVE  Inv'
<1>a. PageType /\ SideType /\ JobsInv(jobs, issued, visit) /\ WaitInv /\ ReportInv
  BY DEF Inv
<1>b. /\ j \in Job /\ j.id \in 0..MaxJobs /\ j.visit \in 0..visit /\ j.visit \in 0..MaxVisits
      /\ \A k \in jobs : k.id = j.id => k = j
      /\ \A k \in jobs : k.visit \in 0..visit
  BY <1>a DEF JobsInv, Job
<1>1. CASE GotSchedule(j, ok)
  <2>1. /\ j.op = "get" /\ jobs' = jobs \ {j}
        /\ UNCHANGED <<open, visit, loading, delta, confirmDisable, checking, cross, listeners,
                      asked, side, issued>>
        /\ schedule' \in {j.saw, schedule}
    BY <1>1 DEF GotSchedule
  <2>2. j.saw \in Schedule \cup {None}
    BY <1>b DEF Job
  <2>3. PageType' /\ WaitInv' /\ ReportInv'
    BY <1>a, <2>1, <2>2 DEF PageType, WaitInv, ReportInv
  <2> QED
    BY <2>1, <2>3, GoneStep
<1>2. CASE GotDelta(j, ok)
  <2>1. /\ j.op = "delta.status" /\ jobs' = jobs \ {j}
        /\ UNCHANGED <<open, visit, schedule, confirmDisable, checking, cross, listeners,
                      asked, side, issued>>
        /\ loading' = (loading /\ ~Here(j)) /\ delta' \in BOOLEAN
    BY <1>2 DEF GotDelta
  <2>2. PageType'
    BY <1>a, <2>1 DEF PageType
  <2>3. WaitInv'
    BY <1>a, <2>1 DEF WaitInv, Here
  <2>4. ReportInv'
    BY <1>a, <2>1 DEF ReportInv
  <2> QED
    BY <2>1, <2>2, <2>3, <2>4, GoneStep
<1>3. CASE Changed(j, ok)
  <2>1. j.op \in Changes /\ j.visit # 0 /\ UNCHANGED <<page, side>>
    BY <1>3 DEF Changed, Answered, Changes
  <2>2. CASE ok
    <3>1. /\ issued' = issued + 1
          /\ jobs' = (jobs \ {j}) \cup {Request(issued + 1, "get", None, j.visit)}
      BY <1>3, <2>2 DEF Changed
    <3>2. loading' = (loading \/ ("get" = "delta.status" /\ Here(j)))
      BY <1>a, <2>1 DEF page, PageType
    <3> QED
      BY <2>1, <3>1, <3>2, FollowedStep DEF page
  <2>3. CASE ~ok
    <3>1. jobs' = jobs \ {j} /\ UNCHANGED issued
      BY <1>3, <2>3 DEF Changed
    <3>2. j.op # "delta.status" /\ j.op # "check"
      BY <2>1 DEF Changes, Writes
    <3>3. PageType' /\ WaitInv' /\ ReportInv'
      BY <1>a, <2>1, <3>1, <3>2 DEF PageType, WaitInv, ReportInv, page
    <3> QED
      BY <2>1, <3>1, <3>3, GoneStep DEF page
  <2> QED
    BY <2>2, <2>3
<1>4. CASE DeltaChanged(j, ok)
  <2>1. /\ j.op \in Changes /\ j.visit # 0
        /\ UNCHANGED <<open, visit, schedule, delta, confirmDisable, checking, cross, listeners,
                      asked, side>>
    BY <1>4 DEF DeltaChanged, Answered, Changes
  <2>2. CASE ok
    <3>1. /\ issued' = issued + 1 /\ loading' = (loading \/ Here(j))
          /\ jobs' = (jobs \ {j}) \cup {Request(issued + 1, "delta.status", None, j.visit)}
      BY <1>4, <2>2 DEF DeltaChanged
    <3> QED
      BY <2>1, <3>1, FollowedStep
  <2>3. CASE ~ok
    <3>1. jobs' = jobs \ {j} /\ UNCHANGED <<loading, issued>>
      BY <1>4, <2>3 DEF DeltaChanged
    <3>2. j.op # "delta.status" /\ j.op # "check"
      BY <2>1 DEF Changes, Writes
    <3>3. PageType' /\ WaitInv' /\ ReportInv'
      BY <1>a, <2>1, <3>1, <3>2 DEF PageType, WaitInv, ReportInv
    <3> QED
      BY <2>1, <3>1, <3>3, GoneStep
  <2> QED
    BY <2>2, <2>3
<1>5. CASE CrossCheckDone(j, ok)
  <2>1. /\ j.op = "check" /\ jobs' = jobs \ {j} /\ listeners' = {}
        /\ UNCHANGED <<open, visit, schedule, loading, delta, confirmDisable, asked, side, issued>>
    BY <1>5 DEF CrossCheckDone
  <2>2. /\ (open /\ visit \in listeners) => checking' = FALSE /\ cross' \in {j.id, cross}
        /\ ~(open /\ visit \in listeners) => UNCHANGED <<checking, cross>>
    BY <1>5 DEF CrossCheckDone
  <2>3. PageType'
    BY <1>a, <1>b, <2>1, <2>2 DEF PageType
  <2>4. WaitInv'
    BY <1>a, <2>1, <2>2 DEF WaitInv
  <2>5. ReportInv'
    BY <1>a, <1>b, <2>1, <2>2 DEF ReportInv, WaitInv
  <2> QED
    BY <2>1, <2>3, <2>4, <2>5, GoneStep
<1>6. CASE CrossCheckRefused(j)
  <2>1. /\ j.op = "check" /\ jobs' = jobs \ {j} /\ listeners' = listeners \ {j.visit}
        /\ checking' = (checking /\ ~Here(j))
        /\ UNCHANGED <<open, visit, schedule, loading, delta, confirmDisable, cross, asked, side,
                      issued>>
    BY <1>6 DEF CrossCheckRefused
  <2>2. PageType'
    BY <1>a, <2>1 DEF PageType
  <2>3. WaitInv'
    BY <1>a, <2>1 DEF WaitInv, Here
  <2>4. ReportInv'
    BY <1>a, <1>b, <2>1 DEF ReportInv
  <2> QED
    BY <2>1, <2>2, <2>3, <2>4, GoneStep
<1>7. CASE Unheard(j)
  <2>1. j.visit = 0 /\ jobs' = jobs \ {j} /\ UNCHANGED <<page, side, issued>>
    BY <1>7 DEF Unheard
  <2>2. PageType' /\ WaitInv' /\ ReportInv'
    BY <1>a, <2>1 DEF PageType, WaitInv, ReportInv, page
  <2> QED
    BY <2>1, <2>2, GoneStep DEF page
<1>8. CASE TimesOut(j)
  <2> DEFINE k == [j EXCEPT !.visit = 0]
  <2>1. /\ ~Serial /\ jobs' = (jobs \ {j}) \cup {k}
        /\ loading' = (loading /\ ~(Here(j) /\ j.op = "delta.status"))
        /\ checking' = (checking /\ ~(Here(j) /\ j.op = "check"))
        /\ listeners' = IF j.op = "check" THEN listeners \ {j.visit} ELSE listeners
        /\ UNCHANGED <<open, visit, schedule, delta, confirmDisable, cross, asked, side, issued>>
    BY <1>8 DEF TimesOut
  <2>2. /\ k \in Job /\ k.id = j.id /\ k.op = j.op /\ k.arg = j.arg /\ k.visit = 0
        /\ k.phase = j.phase /\ k.saw = j.saw
    BY <1>b DEF Job, UpdatesAssumption
  <2> HIDE DEF k
  <2>3. JobsInv(jobs', issued', visit')
    <3>1. /\ k.phase = "loaded" => k.op \in Writes
          /\ (k.op \in Writes \cup {"get"} /\ k.phase # "sent") => k.saw \in Schedule
      BY <1>a, <2>2 DEF JobsInv
    <3>2. JobsInv((jobs \ {j}) \cup {k}, issued, visit)
      BY <1>a, <2>1, <2>2, <3>1, CallWorked
    <3> QED
      BY <2>1, <3>2
  <2>4. PageType' /\ SideType'
    BY <1>a, <2>1 DEF PageType, SideType, side
  <2>5. WaitInv'
    BY <1>a, <2>1, <2>2 DEF WaitInv, Here
  <2>6. ReportInv'
    BY <2>1 DEF ReportInv
  <2> QED
    BY <2>3, <2>4, <2>5, <2>6 DEF Inv
<1> QED
  BY <1>1, <1>2, <1>3, <1>4, <1>5, <1>6, <1>7, <1>8

-----------------------------------------------------------------------------
(* The theorems that need no hypothesis on the writers *)

LEMMA InvInit ==
    ASSUME UpdatesAssumption, Init
    PROVE  Inv
<1>1. file \in Schedule
  BY DEF Init, Schedule, Never, UpdatesAssumption
<1>2. SideType
  BY <1>1 DEF Init, SideType, UpdatesAssumption
<1>3. PageType
  <2>1. 0 \in 0..MaxJobs /\ 0 \in 0..MaxVisits
    BY DEF UpdatesAssumption
  <2> QED
    BY <2>1 DEF Init, PageType
<1>4. JobsInv(jobs, issued, visit)
  <2>1. Changing({}) = {}
    BY DEF Changing
  <2>2. Cardinality(Changing({})) = 0 /\ IsFiniteSet({})
    BY <2>1, FS_EmptySet
  <2> QED
    BY <2>2 DEF Init, JobsInv, UpdatesAssumption
<1>5. WaitInv /\ ReportInv
  BY DEF Init, WaitInv, ReportInv
<1> QED
  BY <1>2, <1>3, <1>4, <1>5 DEF Inv

LEMMA InvStep ==
    ASSUME UpdatesAssumption, Inv, [Next]_vars
    PROVE  Inv'
<1>1. CASE UNCHANGED vars
  BY <1>1 DEF Inv, PageType, SideType, WaitInv, ReportInv, vars
<1>2. CASE Next
  BY <1>2, PageStep, SideStep, AnswerStep DEF Next
<1> QED
  BY <1>1, <1>2

\* The calls keep within their bound and have what they carry, the page waits
\* only for what is under way, and the reports of the first visit are its own.
THEOREM PageInvariant == UpdatesAssumption => (Spec => []Inv)
<1> SUFFICES ASSUME UpdatesAssumption PROVE Spec => []Inv
  OBVIOUS
<1>1. Init => Inv
  BY InvInit
<1>2. Inv /\ [Next]_vars => Inv'
  BY InvStep
<1> QED
  BY <1>1, <1>2, PTL DEF Spec

\* Every variable keeps its type, whatever fails or overtakes: what the page,
\* the tick and the settings page save is a schedule.
THEOREM TypeCorrect == UpdatesAssumption => (Spec => []TypeOK)
<1> SUFFICES ASSUME UpdatesAssumption PROVE Spec => []TypeOK
  OBVIOUS
<1>1. Inv => TypeOK
  <2> SUFFICES ASSUME Inv PROVE TypeOK
    OBVIOUS
  <2>1. jobs \subseteq Job /\ issued \in 0..MaxJobs
    BY JobsTyped DEF Inv
  <2>2. listeners \subseteq 1..MaxVisits
    BY DEF Inv, PageType, UpdatesAssumption
  <2> QED
    BY <2>1, <2>2 DEF Inv, PageType, SideType, TypeOK
<1> QED
  BY <1>1, PageInvariant, PTL

\* Whatever fails, overtakes or was left behind by an earlier visit: the page
\* waits only for what is under way, and a listener that is bound is waited for
\* (loading, checking and the listener of event/cross_check_done).
THEOREM WaitsHaveAnEnd == UpdatesAssumption => (Spec => []WaitsEnd)
<1> SUFFICES ASSUME UpdatesAssumption PROVE Spec => []WaitsEnd
  OBVIOUS
<1>1. Inv => WaitsEnd
  BY DEF Inv, WaitInv, WaitsEnd
<1> QED
  BY <1>1, PageInvariant, PTL

\* If calls are answered in time: on the first visit the report that is shown is
\* that of the last check, also while the settings page saves what it loaded.
THEOREM ReportIsOwn == UpdatesAssumption /\ Serial => (Spec => []OwnReport)
<1> SUFFICES ASSUME UpdatesAssumption, Serial PROVE Spec => []OwnReport
  OBVIOUS
<1>1. Inv => OwnReport
  BY DEF Inv, ReportInv, OwnReport
<1> QED
  BY <1>1, PageInvariant, PTL

-----------------------------------------------------------------------------
(* The order of the calls *)

\* A new call comes last, and a change is one of the present visit.
LEMMA OrderAdded ==
    ASSUME NEW J, InOrder(J), ByVisit(J), NEW n, n.id \in Nat, n.visit \in Nat, n.phase = "sent",
           \A j \in J : /\ j.id \in Nat /\ j.id < n.id /\ j.visit \in Nat
                        /\ n.op \in Writes => j.visit <= n.visit
    PROVE  InOrder(J \cup {n}) /\ ByVisit(J \cup {n})
<1>0. /\ \A j \in J : j.id < n.id /\ j.id <= n.id /\ (n.op \in Writes => ~(n.visit < j.visit))
      /\ n.id <= n.id /\ ~(n.visit < n.visit) /\ n.phase # "done" /\ n.phase # "loaded"
  OBVIOUS
<1>1. InOrder(J \cup {n})
  BY <1>0 DEF InOrder
<1>2. ByVisit(J \cup {n})
  BY <1>0 DEF ByVisit
<1> QED
  BY <1>1, <1>2

LEMMA OrderKept ==
    ASSUME NEW J, InOrder(J), ByVisit(J), NEW K \in SUBSET J
    PROVE  InOrder(K) /\ ByVisit(K)
  BY DEF InOrder, ByVisit

\* A call whose turn it is goes on.
LEMMA OrderWorked ==
    ASSUME UpdatesAssumption, NEW J, NEW i, NEW v, JobsInv(J, i, v), InOrder(J), ByVisit(J),
           NEW j \in J, j.phase # "done", \A l \in J : l.phase # "done" => j.id <= l.id,
           NEW k, k.id = j.id, k.op = j.op, k.visit = j.visit
    PROVE  InOrder((J \ {j}) \cup {k}) /\ ByVisit((J \ {j}) \cup {k})
<1>1. \A l \in J \ {j} : l.id \in Nat /\ j.id \in Nat /\ l.id # j.id
  BY DEF JobsInv, Job
<1>2. \A l \in J \ {j} : l.phase # "done" => j.id < l.id
  BY <1>1
<1>3. \A l \in J \ {j} : l.phase = "done" => l.id < j.id
  BY DEF InOrder
<1>4. \A l \in J \ {j} : l.phase # "loaded"
  BY <1>1, <1>2 DEF InOrder
<1>5. j.id \in Nat
  BY DEF JobsInv, Job
<1>6. InOrder((J \ {j}) \cup {k})
  BY <1>1, <1>2, <1>3, <1>4, <1>5 DEF InOrder
<1>7. ByVisit((J \ {j}) \cup {k})
  BY DEF ByVisit
<1> QED
  BY <1>6, <1>7

-----------------------------------------------------------------------------
(* The file, if its writers come one after the other *)

\* New calls and answers leave the file, and what was loaded, as they are.
LEMMA FileAtRest ==
    ASSUME FileInv, InOrder(jobs)', UNCHANGED <<file, tick>>, now' \in {now, now + 1},
           SideType, UpdatesAssumption, \A j \in jobs' : j.phase = "loaded" => j \in jobs
    PROVE  FileInv'
<1>1. file.last_run # Never => file.last_run <= now'
  BY DEF FileInv, SideType, Schedule, Never, UpdatesAssumption
<1> QED
  BY <1>1 DEF FileInv

\* Some calls go, and what comes is new.
ComeAndGo ==
    \E K \in SUBSET jobs :
       \/ jobs' = K
       \/ \E op \in Writes \cup Asks, arg \in Intervals \cup {None}, w \in 1..MaxVisits :
            /\ jobs' = K \cup {Request(issued + 1, op, arg, w)}
            /\ op \in Writes => w = visit
       \/ \E w \in 1..MaxVisits :
            jobs' = K \cup {Request(issued + 1, "delta.status", None, w),
                           Request(issued + 2, "get", None, w)}

\* What becomes of the calls when the user does something, or an answer comes.
LEMMA CallsComeAndGo ==
    ASSUME AloneAndSerial, Inv,
           \/ Open \/ Leave \/ RefreshDelta \/ handleEnable \/ AskDisable \/ handleCrossCheck
           \/ handleScheduleRun
           \/ \E b \in BOOLEAN : handleScheduleToggle(b) \/ AnswerDisable(b)
           \/ \E h \in Intervals : handleScheduleInterval(h)
           \/ \E j \in jobs, ok \in BOOLEAN :
                \/ CrossCheckRefused(j) \/ GotSchedule(j, ok) \/ Changed(j, ok)
                \/ GotDelta(j, ok) \/ DeltaChanged(j, ok) \/ CrossCheckDone(j, ok)
    PROVE  /\ UNCHANGED <<file, stale, now, tick>>
           /\ ComeAndGo
<1>a. PageType /\ JobsInv(jobs, issued, visit)
  BY DEF Inv
<1>b. \A j \in jobs : j.visit \in 1..MaxVisits
  BY <1>a DEF JobsInv, Job, AloneAndSerial, UpdatesAssumption
<1>c. open => visit \in 1..MaxVisits
  BY <1>a DEF PageType, AloneAndSerial, UpdatesAssumption
<1>1. CASE Open
  <2>1. visit + 1 \in 1..MaxVisits
    BY <1>1, <1>a DEF Open, PageType, AloneAndSerial, UpdatesAssumption
  <2>2. jobs' = jobs \cup {Request(issued + 1, "delta.status", None, visit + 1),
                          Request(issued + 2, "get", None, visit + 1)}
    BY <1>1 DEF Open
  <2> QED
    BY <1>1, <2>1, <2>2 DEF Open, side, ComeAndGo
<1>2. CASE Leave \/ AskDisable \/ AnswerDisable(FALSE)
  BY <1>2 DEF Leave, AskDisable, AnswerDisable, KeepJobs, side, ComeAndGo
<1>3. ASSUME NEW op \in Writes \cup Asks, NEW arg \in Intervals \cup {None}, open, Call(op, arg),
             UNCHANGED side
      PROVE  UNCHANGED <<file, stale, now, tick>> /\ ComeAndGo
  <2>1. jobs' = jobs \cup {Request(issued + 1, op, arg, visit)}
    BY <1>3 DEF Call
  <2> QED
    BY <2>1, <1>3, <1>c DEF side, ComeAndGo
<1>4. CASE AnswerDisable(TRUE) \/ handleEnable \/ RefreshDelta \/ handleCrossCheck
  <2>1. {"delta.disable", "delta.enable", "delta.status", "check"} \subseteq Writes \cup Asks
    BY DEF Asks
  <2>2. \E op \in Writes \cup Asks : open /\ Call(op, None) /\ UNCHANGED side
    BY <1>4, <2>1 DEF AnswerDisable, handleEnable, DeltaCard, RefreshDelta, handleCrossCheck
  <2> QED
    BY <1>3, <2>2
<1>5. CASE \/ handleScheduleRun
           \/ \E b \in BOOLEAN : handleScheduleToggle(b)
           \/ \E h \in Intervals : handleScheduleInterval(h)
  <2>1. {"enable", "disable", "interval", "run"} \subseteq Writes \cup Asks
    BY DEF Writes
  <2>2. \E op \in Writes \cup Asks, arg \in Intervals \cup {None} :
           open /\ Call(op, arg) /\ UNCHANGED side
    BY <1>5, <2>1
       DEF handleScheduleRun, handleScheduleToggle, handleScheduleInterval, ScheduleSet, ScheduleCard
  <2> QED
    BY <1>3, <2>2
<1>6. ASSUME NEW j \in jobs, NEW ok \in BOOLEAN,
             \/ CrossCheckRefused(j) \/ GotSchedule(j, ok) \/ GotDelta(j, ok) \/ CrossCheckDone(j, ok)
      PROVE  UNCHANGED <<file, stale, now, tick>> /\ ComeAndGo
  <2>1. UNCHANGED <<file, stale, now, tick>> /\ jobs' = jobs \ {j}
    BY <1>6 DEF CrossCheckRefused, GotSchedule, GotDelta, CrossCheckDone, side
  <2> QED
    BY <2>1 DEF ComeAndGo
<1>7. ASSUME NEW j \in jobs, NEW ok \in BOOLEAN, Changed(j, ok) \/ DeltaChanged(j, ok)
      PROVE  UNCHANGED <<file, stale, now, tick>> /\ ComeAndGo
  <2>1. /\ UNCHANGED <<file, stale, now, tick>>
        /\ \/ jobs' = jobs \ {j}
           \/ \E op \in {"get", "delta.status"} :
                jobs' = (jobs \ {j}) \cup {Request(issued + 1, op, None, j.visit)}
    BY <1>7 DEF Changed, DeltaChanged, side
  <2>2. {"get", "delta.status"} \subseteq Asks /\ "get" \notin Writes /\ "delta.status" \notin Writes
    BY DEF Asks, Writes
  <2>3. CASE jobs' = jobs \ {j}
    BY <2>1, <2>3 DEF ComeAndGo
  <2>4. ASSUME NEW op \in {"get", "delta.status"},
               jobs' = (jobs \ {j}) \cup {Request(issued + 1, op, None, j.visit)}
        PROVE  ComeAndGo
    BY <1>b, <2>2, <2>4 DEF ComeAndGo
  <2> QED
    BY <2>1, <2>3, <2>4
<1> QED
  BY <1>1, <1>2, <1>4, <1>5, <1>6, <1>7

LEMMA OrdersComeAndGo ==
    ASSUME UpdatesAssumption, Inv, InOrder(jobs), ByVisit(jobs), ComeAndGo
    PROVE  /\ InOrder(jobs') /\ ByVisit(jobs')
           /\ \A j \in jobs' : j \in jobs \/ j.phase = "sent"
<1>a. /\ issued \in Nat /\ visit \in Nat
      /\ \A j \in jobs : /\ j.id \in Nat /\ j.id <= issued /\ j.visit \in Nat /\ j.visit <= visit
  BY DEF Inv, JobsInv, Job
<1>b. ASSUME NEW K \in SUBSET jobs
      PROVE  InOrder(K) /\ ByVisit(K)
  BY <1>b, OrderKept
<1>1. ASSUME NEW K \in SUBSET jobs, jobs' = K
      PROVE  InOrder(jobs') /\ ByVisit(jobs') /\ \A j \in jobs' : j \in jobs \/ j.phase = "sent"
  BY <1>b, <1>1
<1>2. ASSUME NEW K \in SUBSET jobs, NEW op \in Writes \cup Asks, NEW arg \in Intervals \cup {None},
             NEW w \in 1..MaxVisits, jobs' = K \cup {Request(issued + 1, op, arg, w)},
             op \in Writes => w = visit
      PROVE  InOrder(jobs') /\ ByVisit(jobs') /\ \A j \in jobs' : j \in jobs \/ j.phase = "sent"
  <2> DEFINE n == Request(issued + 1, op, arg, w)
  <2>1. n.id = issued + 1 /\ n.op = op /\ n.visit = w /\ n.phase = "sent"
    BY DEF Request
  <2>2. jobs' = K \cup {n}
    BY <1>2
  <2> HIDE DEF n
  <2>3. /\ n.id \in Nat /\ n.visit \in Nat
        /\ \A j \in K : /\ j.id \in Nat /\ j.id < n.id /\ j.visit \in Nat
                        /\ n.op \in Writes => j.visit <= n.visit
    BY <1>2, <1>a, <2>1
  <2> QED
    BY <1>b, <2>1, <2>2, <2>3, OrderAdded
<1>3. ASSUME NEW K \in SUBSET jobs, NEW w \in 1..MaxVisits,
             jobs' = K \cup {Request(issued + 1, "delta.status", None, w),
                            Request(issued + 2, "get", None, w)}
      PROVE  InOrder(jobs') /\ ByVisit(jobs') /\ \A j \in jobs' : j \in jobs \/ j.phase = "sent"
  <2> DEFINE d == Request(issued + 1, "delta.status", None, w)
             g == Request(issued + 2, "get", None, w)
             D == K \cup {d}
  <2>1. /\ d.id = issued + 1 /\ d.op = "delta.status" /\ d.visit = w /\ d.phase = "sent"
        /\ g.id = issued + 2 /\ g.op = "get" /\ g.visit = w /\ g.phase = "sent"
    BY DEF Request
  <2>2. jobs' = D \cup {g}
    BY <1>3
  <2> HIDE DEF d, g
  <2>3. /\ d.id \in Nat /\ d.visit \in Nat /\ g.id \in Nat /\ g.visit \in Nat
        /\ d.op \notin Writes /\ g.op \notin Writes
    BY <1>a, <2>1 DEF Writes
  <2>4. \A j \in K : j.id \in Nat /\ j.id < d.id /\ j.visit \in Nat
    BY <1>a, <2>1
  <2>5. InOrder(D) /\ ByVisit(D)
    BY <1>b, <2>1, <2>3, <2>4, OrderAdded
  <2>6. \A j \in D : j.id \in Nat /\ j.id < g.id /\ j.visit \in Nat
    BY <1>a, <2>1, <2>3
  <2>7. InOrder(D \cup {g}) /\ ByVisit(D \cup {g})
    BY <2>1, <2>3, <2>5, <2>6, OrderAdded
  <2> QED
    BY <2>1, <2>2, <2>7
<1> QED
  BY <1>1, <1>2, <1>3 DEF ComeAndGo

\* A call whose turn it is goes on: those of its like that have loaded are it.
LEMMA TurnTaken ==
    ASSUME AloneAndSerial, Inv, InOrder(jobs), ByVisit(jobs), NEW j \in jobs, j.phase # "done",
           InTurn(j), NEW phase \in {"loaded", "done"}, NEW s, To(j, phase, s)
    PROVE  /\ InOrder(jobs') /\ ByVisit(jobs') /\ tick = None
           /\ \A l \in jobs : l.phase = "loaded" => l = j
           /\ \A l \in jobs : l.phase # "done" => j.id <= l.id
           /\ \E k : /\ jobs' = (jobs \ {j}) \cup {k} /\ k.id = j.id /\ k.op = j.op /\ k.visit = j.visit
                     /\ k.phase = phase /\ k.saw = s
<1> DEFINE k == [j EXCEPT !.phase = phase, !.saw = s]
<1>a. JobsInv(jobs, issued, visit) /\ j \in Job /\ \A l \in jobs : l.id \in Nat
  BY DEF Inv, JobsInv, Job
<1>1. jobs' = (jobs \ {j}) \cup {k}
  BY DEF To
<1>2. k.id = j.id /\ k.op = j.op /\ k.visit = j.visit /\ k.phase = phase /\ k.saw = s
  BY <1>a DEF Job
<1> HIDE DEF k
<1>3. tick = None /\ \A l \in jobs : l.phase # "done" => j.id <= l.id
  BY DEF InTurn, AloneAndSerial
<1>4. InOrder(jobs') /\ ByVisit(jobs')
  BY <1>a, <1>1, <1>2, <1>3, OrderWorked DEF AloneAndSerial
<1>5. \A l \in jobs : l.phase = "loaded" => l = j
  <2> SUFFICES ASSUME NEW l \in jobs, l.phase = "loaded"
               PROVE  l = j
    OBVIOUS
  <2>1. l.id <= j.id /\ j.id <= l.id
    BY <1>3 DEF InOrder
  <2> QED
    BY <2>1, <1>a DEF JobsInv
<1> QED
  BY <1>1, <1>2, <1>3, <1>4, <1>5

LEMMA NowIsATime ==
    ASSUME UpdatesAssumption, SideType
    PROVE  now \in Nat /\ now # Never /\ file \in Schedule /\ file.last_run \in Nat
  BY DEF UpdatesAssumption, SideType, Never, Schedule

\* Whoever saves has loaded what is there.
LEMMA SaveStep ==
    ASSUME AloneAndSerial, Inv, FileInv, ByVisit(jobs), NEW j \in jobs, Save(j)
    PROVE  FileInv' /\ ByVisit(jobs')
<1>a. UpdatesAssumption /\ SideType
  BY DEF AloneAndSerial, Inv
<1>1. j.phase = "loaded" /\ InTurn(j) /\ To(j, "done", j.saw) /\ UNCHANGED <<stale, now, tick>>
  BY DEF Save
<1>2. j.saw = file
  BY <1>1 DEF FileInv
<1>3. /\ InOrder(jobs') /\ ByVisit(jobs') /\ tick = None
      /\ \A l \in jobs : l.phase = "loaded" => l = j
      /\ \E k : jobs' = (jobs \ {j}) \cup {k} /\ k.phase = "done"
  <2>1. InOrder(jobs)
    BY DEF FileInv
  <2> QED
    BY <1>1, <2>1, TurnTaken
<1>4. \A l \in jobs' : l.phase # "loaded"
  BY <1>3
<1>5. file'.last_run \in {file.last_run, now}
  BY <1>2, <1>a, NowIsATime, SavedTyped DEF Schedule
<1>6. FileInv'
  BY <1>1, <1>3, <1>4, <1>5, <1>a, NowIsATime DEF FileInv
<1> QED
  BY <1>3, <1>6

\* Calls that are answered in time are heard.
LEMMA AllHeard ==
    ASSUME AloneAndSerial, Inv, NEW j \in jobs
    PROVE  ~TimesOut(j) /\ ~Unheard(j)
  BY DEF TimesOut, Unheard, AloneAndSerial, Inv, JobsInv

LEMMA FileStep ==
    ASSUME AloneAndSerial, Inv, FileInv, ByVisit(jobs), [Next]_vars
    PROVE  FileInv' /\ ByVisit(jobs')
<1>a. UpdatesAssumption /\ SideType /\ InOrder(jobs)
  BY DEF AloneAndSerial, Inv, FileInv
<1>b. now \in Nat /\ now # Never /\ file \in Schedule /\ file.last_run \in Nat
  BY <1>a, NowIsATime
<1>1. ASSUME UNCHANGED <<file, stale, now, tick>>, ComeAndGo
      PROVE  FileInv' /\ ByVisit(jobs')
  <2>1. InOrder(jobs') /\ ByVisit(jobs') /\ \A j \in jobs' : j \in jobs \/ j.phase = "sent"
    BY <1>a, <1>1, OrdersComeAndGo
  <2> QED
    BY <1>1, <1>a, <2>1, FileAtRest
<1>2. ASSUME NEW j \in jobs, Load(j)
      PROVE  FileInv' /\ ByVisit(jobs')
  <2>1. PICK phase \in {"loaded", "done"} : To(j, phase, file)
    BY <1>2 DEF Load
  <2>2. j.phase # "done" /\ InTurn(j) /\ UNCHANGED <<file, stale, now, tick>>
    BY <1>2 DEF Load, side
  <2>3. /\ InOrder(jobs') /\ ByVisit(jobs') /\ tick = None
        /\ \A l \in jobs : l.phase = "loaded" => l = j
        /\ \E k : jobs' = (jobs \ {j}) \cup {k} /\ k.saw = file
    BY <1>a, <2>1, <2>2, TurnTaken
  <2>4. FileInv'
    BY <2>2, <2>3 DEF FileInv
  <2> QED
    BY <2>2, <2>3, <2>4
<1>3. ASSUME NEW j \in jobs, Work(j)
      PROVE  FileInv' /\ ByVisit(jobs')
  <2>1. j.phase # "done" /\ InTurn(j) /\ To(j, "done", None) /\ UNCHANGED <<file, stale, now, tick>>
    BY <1>3 DEF Work, side
  <2>2. /\ InOrder(jobs') /\ ByVisit(jobs') /\ tick = None
        /\ \E k : jobs' = (jobs \ {j}) \cup {k} /\ k.phase = "done"
    BY <1>a, <2>1, TurnTaken
  <2>3. FileInv'
    BY <2>1, <2>2 DEF FileInv
  <2> QED
    BY <2>1, <2>2, <2>3
<1>4. CASE TickLoads
  <2>1. tick' = file /\ UNCHANGED <<file, now, jobs>> /\ \A k \in jobs : k.phase # "loaded"
    BY <1>4 DEF TickLoads, AloneAndSerial
  <2> QED
    BY <2>1 DEF FileInv
<1>5. CASE TickSaves
  <2>1. tick = file /\ \A k \in jobs : k.phase # "loaded"
    BY <1>5 DEF TickSaves, FileInv
  <2>2. tick' = None /\ UNCHANGED <<now, jobs>> /\ file' = [file EXCEPT !.last_run = now]
    BY <1>5, <2>1 DEF TickSaves
  <2>3. file'.last_run = now
    BY <2>2, <1>b DEF Schedule
  <2>4. FileInv'
    BY <2>1, <2>2, <2>3, <1>b DEF FileInv
  <2> QED
    BY <2>2, <2>4
<1>6. CASE Hour
  <2>1. now' = now + 1 /\ UNCHANGED <<file, tick, jobs>>
    BY <1>6 DEF Hour
  <2> QED
    BY <2>1, <1>a, FileAtRest
<1>7. CASE UNCHANGED vars
  BY <1>7 DEF vars, FileInv
<1>8. ~SettingsLoad /\ ~SettingsSave
  BY DEF SettingsLoad, SettingsSave, AloneAndSerial
<1> QED
  BY <1>1, <1>2, <1>3, <1>4, <1>5, <1>6, <1>7, <1>8, SaveStep, CallsComeAndGo, AllHeard DEF Next

-----------------------------------------------------------------------------
(* The schedule card *)

\* Nothing that concerns the card happens.
LEMMA CardKept ==
    ASSUME CardInv, ByVisit(jobs'), UNCHANGED <<visit, schedule>>, open' => open,
           Looks' = Looks, NoWrite => NoWrite',
           file'.enabled = file.enabled, file'.interval = file.interval
    PROVE  CardInv'
  BY DEF CardInv, Agree

\* The page asks for something, or gets an answer, that does not concern it.
LEMMA OtherStep ==
    ASSUME AloneAndSerial, Inv, CardInv, ByVisit(jobs'),
           \/ Leave \/ RefreshDelta \/ handleEnable \/ AskDisable \/ handleCrossCheck
           \/ \E b \in BOOLEAN : AnswerDisable(b)
           \/ \E j \in jobs, ok \in BOOLEAN :
                CrossCheckRefused(j) \/ GotDelta(j, ok) \/ DeltaChanged(j, ok) \/ CrossCheckDone(j, ok)
    PROVE  CardInv'
<1> DEFINE Apart(o) == o \in {"delta.status", "delta.enable", "delta.disable", "check"}
           Goal == /\ UNCHANGED <<visit, schedule, file>> /\ (open' => open)
                   /\ Looks' = Looks /\ (NoWrite => NoWrite')
<1>1. ASSUME NEW op, Apart(op), Call(op, None), UNCHANGED <<visit, schedule, file, open>>
      PROVE  Goal
  <2> DEFINE n == Request(issued + 1, op, None, visit)
  <2>1. n.op = op
    BY DEF Request
  <2>2. jobs' = jobs \cup {n}
    BY <1>1 DEF Call
  <2> HIDE DEF n
  <2> QED
    BY <1>1, <2>1, <2>2 DEF Looks, NoWrite, Writes
<1>2. ASSUME Leave \/ AskDisable \/ AnswerDisable(FALSE) PROVE Goal
  BY <1>2 DEF Leave, AskDisable, AnswerDisable, KeepJobs, side, Looks, NoWrite
<1>3. ASSUME AnswerDisable(TRUE) \/ handleEnable \/ RefreshDelta \/ handleCrossCheck PROVE Goal
  <2>1. \E op : Apart(op) /\ Call(op, None) /\ UNCHANGED <<visit, schedule, file, open>>
    BY <1>3 DEF AnswerDisable, handleEnable, RefreshDelta, handleCrossCheck, page, side
  <2> QED
    BY <1>1, <2>1
<1>4. ASSUME NEW j \in jobs, NEW ok \in BOOLEAN,
             CrossCheckRefused(j) \/ GotDelta(j, ok) \/ CrossCheckDone(j, ok)
      PROVE  Goal
  <2>1. Apart(j.op) /\ jobs' = jobs \ {j} /\ UNCHANGED <<visit, schedule, file, open>>
    BY <1>4 DEF CrossCheckRefused, GotDelta, CrossCheckDone, side
  <2> QED
    BY <2>1 DEF Looks, NoWrite, Writes
<1>5. ASSUME NEW j \in jobs, NEW ok \in BOOLEAN, DeltaChanged(j, ok)
      PROVE  Goal
  <2> DEFINE n == Request(issued + 1, "delta.status", None, j.visit)
  <2>1. n.op = "delta.status"
    BY DEF Request
  <2>2. /\ Apart(j.op) /\ UNCHANGED <<visit, schedule, file, open>>
        /\ jobs' = jobs \ {j} \/ jobs' = (jobs \ {j}) \cup {n}
    BY <1>5 DEF DeltaChanged, side
  <2> HIDE DEF n
  <2> QED
    BY <2>1, <2>2 DEF Looks, NoWrite, Writes
<1>6. Goal
  BY <1>2, <1>3, <1>4, <1>5
<1> QED
  BY <1>6, CardKept

\* The page is opened, or the user changes the schedule: the last call that
\* concerns the card has not been worked on.
LEMMA AskedStep ==
    ASSUME AloneAndSerial, Inv, CardInv, ByVisit(jobs'),
           \/ Open \/ handleScheduleRun \/ \E b \in BOOLEAN : handleScheduleToggle(b)
           \/ \E h \in Intervals : handleScheduleInterval(h)
    PROVE  CardInv'
<1>a. \A j \in jobs : j.id \in Nat /\ j.id <= issued /\ j.visit \in Nat /\ j.visit <= visit
  BY DEF Inv, JobsInv, Job
<1>b. issued \in Nat /\ visit \in Nat
  BY DEF Inv, JobsInv
<1>1. \E n \in jobs' : /\ n.visit = visit' /\ n.op \in Writes \cup {"get"} /\ n.phase = "sent"
                      /\ \A k \in jobs' : (k.visit = visit' /\ k.op \in Writes \cup {"get"}) =>
                           k = n \/ k.id < n.id
  <2>1. CASE Open
    <3> DEFINE d == Request(issued + 1, "delta.status", None, visit + 1)
               g == Request(issued + 2, "get", None, visit + 1)
    <3>1. jobs' = jobs \cup {d, g} /\ visit' = visit + 1
      BY <2>1 DEF Open
    <3>2. /\ d.op = "delta.status" /\ g.op = "get" /\ g.visit = visit + 1 /\ g.phase = "sent"
          /\ d.op \notin Writes \cup {"get"}
      BY DEF Request, Writes
    <3> HIDE DEF d, g
    <3>3. \A j \in jobs : j.visit # visit'
      BY <1>a, <1>b, <3>1
    <3> QED
      BY <3>1, <3>2, <3>3
  <2>2. ASSUME NEW op \in Writes, NEW arg, ScheduleSet(op, arg)
        PROVE  \E n \in jobs' : /\ n.visit = visit' /\ n.op \in Writes \cup {"get"} /\ n.phase = "sent"
                               /\ \A k \in jobs' : (k.visit = visit' /\ k.op \in Writes \cup {"get"}) =>
                                    k = n \/ k.id < n.id
    <3> DEFINE n == Request(issued + 1, op, arg, visit)
    <3>1. jobs' = jobs \cup {n} /\ visit' = visit
      BY <2>2 DEF ScheduleSet, Call, page
    <3>2. n.id = issued + 1 /\ n.op = op /\ n.visit = visit /\ n.phase = "sent"
      BY DEF Request
    <3> HIDE DEF n
    <3>3. \A j \in jobs : j.id < n.id
      BY <1>a, <1>b, <3>2
    <3> QED
      BY <3>1, <3>2, <3>3
  <2>3. CASE \/ handleScheduleRun \/ \E b \in BOOLEAN : handleScheduleToggle(b)
             \/ \E h \in Intervals : handleScheduleInterval(h)
    <3>1. {"enable", "disable", "interval", "run"} \subseteq Writes
      BY DEF Writes
    <3>2. \E op \in Writes : \E arg : ScheduleSet(op, arg)
      BY <2>3, <3>1 DEF handleScheduleRun, handleScheduleToggle, handleScheduleInterval
    <3> QED
      BY <2>2, <3>2
  <2> QED
    BY <2>1, <2>3
<1>2. PICK n \in jobs' : /\ n.visit = visit' /\ n.op \in Writes \cup {"get"} /\ n.phase = "sent"
                       /\ \A k \in jobs' : (k.visit = visit' /\ k.op \in Writes \cup {"get"}) =>
                            k = n \/ k.id < n.id
  BY <1>1
<1>3. JobsInv(jobs', issued', visit')
  BY InvStep DEF AloneAndSerial, Inv, Next
<1>4. \A k \in jobs' : k.id \in Nat
  BY <1>3 DEF JobsInv, Job
<1>5. n \in Looks' /\ \A m \in Looks' : (\A k \in Looks' : k.id <= m.id) => m = n
  BY <1>2, <1>4 DEF Looks
<1> QED
  BY <1>2, <1>5 DEF CardInv

\* A call of another visit changes nothing of this one; one of this visit
\* is followed by a look, which comes last.
LEMMA ChangedStep ==
    ASSUME AloneAndSerial, Inv, CardInv, ByVisit(jobs'), NEW j \in jobs, NEW ok \in BOOLEAN,
           Changed(j, ok)
    PROVE  CardInv'
<1> DEFINE n == Request(issued + 1, "get", None, j.visit)
<1>a. \A k \in jobs : k.id \in Nat /\ k.id <= issued
  BY DEF Inv, JobsInv, Job
<1>1. n.id = issued + 1 /\ n.op = "get" /\ n.visit = j.visit /\ n.phase = "sent"
  BY DEF Request
<1>2. /\ UNCHANGED <<open, visit, schedule, file>> /\ j.op \in Writes
      /\ jobs' = (jobs \ {j}) \cup {n}
  BY DEF Changed, Answered, AloneAndSerial, page, side
<1> HIDE DEF n
<1>3. CASE j.visit # visit
  <2>1. Looks' = Looks
    BY <1>1, <1>2, <1>3 DEF Looks
  <2>2. NoWrite => NoWrite'
    BY <1>1, <1>2 DEF NoWrite, Writes
  <2> QED
    BY <1>2, <2>1, <2>2, CardKept
<1>4. CASE j.visit = visit
  <2>1. n \in Looks' /\ \A k \in Looks' : k = n \/ k \in jobs
    BY <1>1, <1>2, <1>4 DEF Looks
  <2>2. issued \in Nat
    BY DEF Inv, JobsInv
  <2>3. \A m \in Looks' : (\A k \in Looks' : k.id <= m.id) => m = n
    BY <1>a, <1>1, <2>1, <2>2
  <2> QED
    BY <1>1, <2>1, <2>3 DEF CardInv
<1> QED
  BY <1>3, <1>4

\* The last look of the visit brings the card up to date.
LEMMA ShownStep ==
    ASSUME AloneAndSerial, Inv, CardInv, ByVisit(jobs'), NEW j \in jobs, NEW ok \in BOOLEAN,
           GotSchedule(j, ok)
    PROVE  CardInv'
<1>1. /\ j.op = "get" /\ jobs' = jobs \ {j} /\ UNCHANGED <<open, visit, file>>
      /\ j.phase = "done" /\ \A k \in jobs : j.id <= k.id
      /\ Here(j) => schedule' = j.saw
      /\ ~Here(j) => schedule' = schedule
  BY DEF GotSchedule, Answered, AloneAndSerial, side
<1>2. NoWrite => NoWrite'
  BY <1>1 DEF NoWrite
<1>3. CASE ~open
  BY <1>1, <1>3 DEF CardInv
<1>4. CASE open /\ ~Here(j)
  <2>1. Looks' = Looks
    BY <1>1, <1>4 DEF Looks, Here
  <2> QED
    BY <1>1, <1>2, <1>4, <2>1, CardKept
<1>5. CASE open /\ Here(j)
  <2>1. j \in Looks /\ Looks' = Looks \ {j}
    BY <1>1, <1>5 DEF Looks, Here
  <2>2. ASSUME Looks' = {} PROVE Agree(schedule', file) /\ NoWrite'
    <3>1. Looks = {j} /\ j.id <= j.id
      BY <1>1, <2>1, <2>2
    <3> QED
      BY <1>1, <1>2, <1>5, <3>1 DEF CardInv
  <2>3. ASSUME NEW m \in Looks', m.op = "get", m.phase = "done", \A k \in Looks' : k.id <= m.id
        PROVE  Agree(m.saw, file) /\ NoWrite'
    <3>1. m \in Looks /\ \A k \in Looks : k.id <= m.id
      BY <1>1, <2>1, <2>3 DEF Looks
    <3> QED
      BY <1>2, <1>5, <2>3, <3>1 DEF CardInv
  <2>4. UNCHANGED file
    BY <1>1
  <2> QED
    BY <1>1, <2>2, <2>3, <2>4 DEF CardInv, Agree
<1> QED
  BY <1>3, <1>4, <1>5

\* The sidecar works on a call.  A look sees the file as it is, and all
\* changes that were asked for before it have been made; a change is
\* followed, so far, by nothing that has been worked on.
LEMMA WorkedStep ==
    ASSUME AloneAndSerial, Inv, FileInv, CardInv, ByVisit(jobs'), NEW j \in jobs,
           Load(j) \/ Save(j) \/ Work(j)
    PROVE  CardInv'
<1>a. /\ \A k \in jobs : k.id \in Nat /\ k.visit \in Nat /\ k.visit <= visit
      /\ \A k, l \in jobs : k.id = l.id => k = l
      /\ visit \in Nat /\ file \in Schedule
  BY DEF Inv, JobsInv, Job, SideType
<1>b. /\ j.phase # "done" /\ InTurn(j) /\ UNCHANGED <<open, visit, schedule>>
      /\ \E phase \in {"loaded", "done"} : \E s : To(j, phase, s)
  BY DEF Load, Save, Work, page
<1>c. \A l \in jobs : l.phase # "done" => j.id <= l.id
  BY <1>b, TurnTaken DEF FileInv, CardInv
<1>1. CASE Work(j)
  <2>1. UNCHANGED file /\ j.op \notin Writes \cup {"get"} /\ To(j, "done", None)
    BY <1>1 DEF Work, side, Asks, Writes
  <2>2. \E k : jobs' = (jobs \ {j}) \cup {k} /\ k.op = j.op
    BY <1>b, <2>1, TurnTaken DEF FileInv, CardInv
  <2>3. Looks' = Looks /\ (NoWrite => NoWrite')
    BY <1>b, <2>1, <2>2 DEF Looks, NoWrite
  <2> QED
    BY <1>b, <2>1, <2>3, CardKept
<1>2. CASE Load(j) /\ j.op = "get"
  <2>1. UNCHANGED file /\ To(j, "done", file)
    BY <1>2 DEF Load, side
  <2>2. PICK k : /\ jobs' = (jobs \ {j}) \cup {k} /\ k.id = j.id /\ k.op = j.op /\ k.visit = j.visit
                 /\ k.phase = "done" /\ k.saw = file
    BY <1>b, <2>1, TurnTaken DEF FileInv, CardInv
  <2>3. NoWrite => NoWrite'
    BY <2>2 DEF NoWrite
  <2>4. Looks' = {} => Looks = {}
    BY <1>b, <2>2 DEF Looks
  <2>5. ASSUME open, NEW m \in Looks', m.op = "get", m.phase = "done", \A l \in Looks' : l.id <= m.id
        PROVE  Agree(m.saw, file) /\ NoWrite'
    <3>1. CASE m # k
      <4>1. m \in Looks /\ \A l \in Looks : l.id <= m.id
        BY <1>b, <2>2, <2>5, <3>1 DEF Looks
      <4> QED
        BY <2>3, <2>5, <4>1 DEF CardInv
    <3>2. CASE m = k
      <4>1. Agree(m.saw, file)
        BY <1>a, <2>2, <3>2 DEF Agree
      <4>2. j.visit = visit
        BY <1>b, <2>2, <3>2 DEF Looks
      <4>3. ASSUME NEW l \in jobs', l.op \in Writes, l.phase # "done"
            PROVE  FALSE
        <5>1. l \in jobs /\ l # j
          BY <2>2, <4>3
        <5>2. j.id < l.id
          BY <1>a, <1>c, <4>3, <5>1
        <5>3. CASE l.visit = visit
          <6>1. l \in Looks'
            BY <1>b, <4>3, <5>3 DEF Looks
          <6> QED
            BY <1>a, <2>2, <2>5, <3>2, <5>1, <5>2, <6>1
        <5>4. CASE l.visit # visit
          <6>1. l.visit < j.visit
            BY <1>a, <4>2, <5>1, <5>4
          <6>2. l.id < j.id
            BY <4>3, <5>1, <6>1 DEF CardInv, ByVisit
          <6> QED
            BY <1>a, <5>1, <5>2, <6>2
        <5> QED
          BY <5>3, <5>4
      <4>4. NoWrite'
        BY <4>3 DEF NoWrite
      <4> QED
        BY <4>1, <4>4
    <3> QED
      BY <3>1, <3>2
  <2>6. open' = open /\ schedule' = schedule /\ file' = file
    BY <1>b, <2>1
  <2> QED
    BY <2>3, <2>4, <2>5, <2>6 DEF CardInv, Agree
<1>3. CASE (Load(j) \/ Save(j)) /\ j.op \in Writes
  <2>1. ~NoWrite
    BY <1>b, <1>3 DEF NoWrite
  <2>2. PICK phase, s : phase \in {"loaded", "done"} /\ To(j, phase, s)
    BY <1>b
  <2>3. PICK k : /\ jobs' = (jobs \ {j}) \cup {k} /\ k.id = j.id /\ k.op = j.op /\ k.visit = j.visit
    BY <1>b, <2>2, TurnTaken DEF FileInv, CardInv
  <2>4. k.op # "get"
    BY <1>3, <2>3 DEF Writes
  <2>5. ASSUME open PROVE Looks' # {}
    BY <1>b, <2>1, <2>3, <2>5 DEF CardInv, Looks
  <2>6. ASSUME open, NEW m \in Looks', m.op = "get", m.phase = "done", \A l \in Looks' : l.id <= m.id
        PROVE  FALSE
    <3>1. m \in Looks /\ \A l \in Looks : l.id <= m.id
      BY <1>b, <2>3, <2>4, <2>6 DEF Looks
    <3> QED
      BY <2>1, <2>6, <3>1 DEF CardInv
  <2> QED
    BY <1>b, <2>5, <2>6 DEF CardInv
<1>4. Save(j) => j.op \in Writes
  BY DEF Save, Inv, JobsInv
<1>5. Load(j) => j.op \in Writes \cup {"get"}
  BY DEF Load
<1> QED
  BY <1>1, <1>2, <1>3, <1>4, <1>5

LEMMA CardStep ==
    ASSUME AloneAndSerial, Inv, FileInv, CardInv, [Next]_vars
    PROVE  CardInv'
<1>1. ByVisit(jobs) /\ ByVisit(jobs')
  <2>1. ByVisit(jobs)
    BY DEF CardInv
  <2> QED
    BY <2>1, FileStep
<1>2. CASE TickLoads \/ Hour
  <2>1. UNCHANGED <<open, visit, schedule, file, jobs>>
    BY <1>2 DEF TickLoads, Hour, page
  <2> QED
    BY <1>1, <2>1, CardKept DEF Looks, NoWrite
<1>3. CASE TickSaves
  <2>1. /\ UNCHANGED <<open, visit, schedule, jobs>> /\ tick = file
        /\ file' = [tick EXCEPT !.last_run = now]
    BY <1>3 DEF TickSaves, page, FileInv
  <2>2. file'.enabled = file.enabled /\ file'.interval = file.interval
    BY <2>1 DEF Inv, SideType, Schedule
  <2> QED
    BY <1>1, <2>1, <2>2, CardKept DEF Looks, NoWrite
<1>4. CASE UNCHANGED vars
  BY <1>1, <1>4, CardKept DEF vars, Looks, NoWrite
<1>5. ~SettingsLoad /\ ~SettingsSave
  BY DEF SettingsLoad, SettingsSave, AloneAndSerial
<1> QED
  BY <1>1, <1>2, <1>3, <1>4, <1>5, OtherStep, AskedStep, ChangedStep, ShownStep, WorkedStep,
     AllHeard DEF Next

-----------------------------------------------------------------------------
(* The theorems about the file and the card *)

\* If nobody else writes the file and its writers come one after the other:
\* what a writer has loaded is what is there, and the last call that concerns
\* the card brings it up to date (schedule.set, mark_ran and the tick).
THEOREM FileInvariant == AloneAndSerial => (Spec => [](Inv /\ FileInv /\ CardInv))
<1> SUFFICES ASSUME AloneAndSerial PROVE Spec => [](Inv /\ FileInv /\ CardInv)
  OBVIOUS
<1>1. Init => Inv /\ FileInv /\ CardInv
  <2> SUFFICES ASSUME Init PROVE Inv /\ FileInv /\ CardInv
    OBVIOUS
  <2>1. Inv
    BY InvInit DEF AloneAndSerial
  <2>2. FileInv
    BY DEF Init, FileInv, InOrder
  <2>3. CardInv
    BY DEF Init, CardInv, ByVisit
  <2> QED
    BY <2>1, <2>2, <2>3
<1>2. (Inv /\ FileInv /\ CardInv) /\ [Next]_vars => (Inv /\ FileInv /\ CardInv)'
  <2> SUFFICES ASSUME Inv, FileInv, CardInv, [Next]_vars
               PROVE  Inv' /\ FileInv' /\ CardInv'
    OBVIOUS
  <2>1. Inv'
    BY InvStep DEF AloneAndSerial
  <2>2. FileInv'
    BY FileStep DEF CardInv
  <2>3. CardInv'
    BY CardStep
  <2> QED
    BY <2>1, <2>2, <2>3
<1> QED
  BY <1>1, <1>2, PTL DEF Spec

\* Under the same hypothesis: when all calls are answered, the card shows the
\* switch and the interval that are in the file, whatever the tick did.
THEOREM CardIsTruthful == AloneAndSerial => (Spec => []CardTruthful)
<1> SUFFICES ASSUME AloneAndSerial PROVE Spec => []CardTruthful
  OBVIOUS
<1>1. CardInv => CardTruthful
  BY DEF CardInv, CardTruthful, Looks, Agree
<1> QED
  BY <1>1, FileInvariant, PTL
=============================================================================
