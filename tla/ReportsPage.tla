----------------------------- MODULE ReportsPage -----------------------------
(***************************************************************************)
(* The reports page (pages/Reports.tsx), its snapshot card apart           *)
(* (SnapshotCards): the health of the system behind a cache of 30 s        *)
(* (lib/cache.ts), the benchmark and the check of the rollback, which end  *)
(* with an event, the doctor (DoctorPanel) and the yearly summary          *)
(* (WrappedDialog), which are answered by their response.                  *)
(***************************************************************************)
EXTENDS Naturals, FiniteSets

CONSTANTS MaxJobs,    \* bound: calls
          MaxVisits,  \* bound: times the page is opened
          Asked       \* the kinds of call that are made

Kinds    == {"health", "benchmark", "verify_rollback", "doctor", "wrapped"}
Threaded == {"benchmark", "verify_rollback"}

\* What the constants have to satisfy
ReportsAssumption == MaxJobs \in Nat /\ MaxVisits \in Nat /\ Asked \subseteq Kinds

VARIABLES
    open, visit,  \* the page is mounted, and how often it was
    cached,       \* the health in the cache, by the call it came from, or 0
    fresh,        \* it is younger than 30 s
    shown,        \* per kind the call whose answer is on the page, 0 for none
    busy,         \* loading, benching, verifying, busy of the doctor
    failed,       \* loadError, error of the doctor
    wrapped,      \* the dialog of the summary: [open, loading, live]
    listening,    \* listeners of the threaded kinds: [kind, job, visit]
    issued, jobs  \* calls so far, and those the sidecar works on

health == <<cached, fresh>>
vars   == <<open, visit, health, shown, busy, failed, wrapped, listening, issued, jobs>>

Job == [id : 1..MaxJobs, kind : Kinds, visit : 1..MaxVisits]

TypeOK ==
    /\ open \in BOOLEAN /\ visit \in 0..MaxVisits /\ issued \in 0..MaxJobs
    /\ cached \in 0..MaxJobs /\ fresh \in BOOLEAN
    /\ shown \in [Kinds -> 0..MaxJobs]
    /\ busy \in [Kinds \ {"wrapped"} -> BOOLEAN]
    /\ failed \in [{"health", "doctor"} -> BOOLEAN]
    /\ wrapped \in [open : BOOLEAN, loading : BOOLEAN, live : 0..MaxJobs]
    /\ listening \subseteq [kind : Threaded, job : 1..MaxJobs, visit : 1..MaxVisits]
    /\ jobs \subseteq Job

Nothing == [k \in Kinds |-> 0]
AtRest  == [k \in Kinds \ {"wrapped"} |-> FALSE]
Closed  == [open |-> FALSE, loading |-> FALSE, live |-> 0]
NoError == [k \in {"health", "doctor"} |-> FALSE]

Init == /\ open = FALSE /\ visit = 0 /\ cached = 0 /\ fresh = FALSE
        /\ shown = Nothing /\ busy = AtRest /\ failed = NoError /\ wrapped = Closed
        /\ listening = {} /\ issued = 0 /\ jobs = {}

-----------------------------------------------------------------------------
(* What is on the screen *)

HealthCard == IF busy["health"] THEN "skeleton"
              ELSE IF shown["health"] # 0 THEN "dashboard"
              ELSE IF failed["health"] THEN "retry" ELSE "nothing"

\* handleExportMd, handleCopyMd and handleExportHealth take what is shown.
Exportable == shown["health"] # 0

BenchmarkCard == [button |-> ~busy["benchmark"], table |-> shown["benchmark"]]
RollbackCard  == [button |-> ~busy["verify_rollback"], verdict |-> shown["verify_rollback"]]

\* The last report stays hidden while the doctor runs, and beside an error.
Doctor == [button |-> ~busy["doctor"], error |-> failed["doctor"],
           report |-> IF busy["doctor"] THEN 0 ELSE shown["doctor"]]

WrappedView == IF wrapped.loading THEN "skeleton"
               ELSE IF shown["wrapped"] # 0 THEN "summary" ELSE "spinner"

-----------------------------------------------------------------------------
Call(k, v) ==
    /\ k \in Asked /\ issued < MaxJobs /\ issued' = issued + 1
    /\ jobs' = jobs \cup {[id |-> issued', kind |-> k, visit |-> v]}

\* cacheGet("reports.health", 30000)
cacheGet == IF fresh THEN cached ELSE 0

\* The first loadHealth: what the cache has, or a call.
Open ==
    /\ ~open /\ visit < MaxVisits
    /\ open' = TRUE /\ visit' = visit + 1
    /\ failed' = NoError /\ wrapped' = Closed
    /\ shown' = [Nothing EXCEPT !["health"] = cacheGet]
    /\ busy' = [AtRest EXCEPT !["health"] = (cacheGet = 0)]
    /\ IF cacheGet # 0 THEN UNCHANGED <<issued, jobs>> ELSE Call("health", visit')
    /\ UNCHANGED <<cached, fresh, listening>>

Leave == /\ open /\ open' = FALSE
         /\ UNCHANGED <<visit, health, shown, busy, failed, wrapped, listening, issued, jobs>>

\* loadHealth(true), of the refresh button and of the one that tries again
\* after an error
Refresh ==
    /\ open /\ Call("health", visit)
    /\ busy' = [busy EXCEPT !["health"] = TRUE]
    /\ failed' = [failed EXCEPT !["health"] = FALSE]
    /\ UNCHANGED <<open, visit, health, shown, wrapped, listening>>

\* The time of the cache is over.
Expire == /\ fresh /\ fresh' = FALSE
          /\ UNCHANGED <<open, visit, cached, shown, busy, failed, wrapped,
                         listening, issued, jobs>>

\* A button with a spinner, a result that goes, a listener, and the call.
Submit(k) ==
    /\ open /\ Call(k, visit)
    /\ busy' = [busy EXCEPT ![k] = TRUE]
    /\ shown' = [shown EXCEPT ![k] = 0]
    /\ listening' = listening \cup {[kind |-> k, job |-> issued', visit |-> visit]}
    /\ UNCHANGED <<open, visit, health, failed, wrapped>>
handleBenchmark      == BenchmarkCard.button /\ Submit("benchmark")
handleVerifyRollback == RollbackCard.button /\ Submit("verify_rollback")

\* run of the DoctorPanel; the last report stays.
runDoctor ==
    /\ open /\ Doctor.button /\ Call("doctor", visit)
    /\ busy' = [busy EXCEPT !["doctor"] = TRUE]
    /\ failed' = [failed EXCEPT !["doctor"] = FALSE]
    /\ UNCHANGED <<open, visit, health, shown, wrapped, listening>>

\* The effect of the WrappedDialog: a call when it opens; what is on its way
\* when it closes is not alive any more.
OpenWrapped ==
    /\ open /\ ~wrapped.open /\ Call("wrapped", visit)
    /\ wrapped' = [open |-> TRUE, loading |-> TRUE, live |-> issued']
    /\ shown' = [shown EXCEPT !["wrapped"] = 0]
    /\ UNCHANGED <<open, visit, health, busy, failed, listening>>
CloseWrapped ==
    /\ open /\ wrapped.open
    /\ wrapped' = [wrapped EXCEPT !.open = FALSE, !.live = 0]
    /\ UNCHANGED <<open, visit, health, shown, busy, failed, listening, issued, jobs>>

-----------------------------------------------------------------------------
(* Answers *)

Here(j) == open /\ j.visit = visit

\* loadHealth goes on: a success is cached whether or not its page is there.
HealthAnswer(j, ok) ==
    /\ j.kind = "health" /\ jobs' = jobs \ {j}
    /\ IF ok THEN cached' = j.id /\ fresh' = TRUE ELSE UNCHANGED <<cached, fresh>>
    /\ IF Here(j)
       THEN /\ busy' = [busy EXCEPT !["health"] = FALSE]
            /\ IF ok THEN shown' = [shown EXCEPT !["health"] = j.id]
                          /\ UNCHANGED failed
                     ELSE failed' = [failed EXCEPT !["health"] = TRUE]
                          /\ UNCHANGED shown
       ELSE UNCHANGED <<busy, shown, failed>>
    /\ UNCHANGED <<open, visit, wrapped, listening, issued>>

\* event/bench_done, event/system_done: every listener of the kind takes it.
ThreadDone(j, ok) ==
    /\ j.kind \in Threaded /\ jobs' = jobs \ {j}
    /\ listening' = {l \in listening : l.kind # j.kind}
    /\ IF \E l \in listening \ listening' : Here(l)
       THEN /\ busy' = [busy EXCEPT ![j.kind] = FALSE]
            /\ shown' = IF ok THEN [shown EXCEPT ![j.kind] = j.id] ELSE shown
       ELSE UNCHANGED <<busy, shown>>
    /\ UNCHANGED <<open, visit, health, failed, wrapped, issued>>

\* The call of a threaded kind is refused: un(), and the spinner ends.
Refused(j) ==
    /\ j.kind \in Threaded /\ jobs' = jobs \ {j}
    /\ listening' = {l \in listening : l.job # j.id}
    /\ busy' = IF Here(j) THEN [busy EXCEPT ![j.kind] = FALSE] ELSE busy
    /\ UNCHANGED <<open, visit, health, shown, failed, wrapped, issued>>

DoctorAnswer(j, ok) ==
    /\ j.kind = "doctor" /\ jobs' = jobs \ {j}
    /\ IF Here(j)
       THEN /\ busy' = [busy EXCEPT !["doctor"] = FALSE]
            /\ shown' = IF ok THEN [shown EXCEPT !["doctor"] = j.id] ELSE shown
            /\ failed' = IF ok THEN failed ELSE [failed EXCEPT !["doctor"] = TRUE]
       ELSE UNCHANGED <<busy, shown, failed>>
    /\ UNCHANGED <<open, visit, health, wrapped, listening, issued>>

\* if (alive)
WrappedAnswer(j, ok) ==
    /\ j.kind = "wrapped" /\ jobs' = jobs \ {j}
    /\ IF Here(j) /\ wrapped.live = j.id
       THEN /\ wrapped' = [wrapped EXCEPT !.loading = FALSE]
            /\ shown' = [shown EXCEPT !["wrapped"] = IF ok THEN j.id ELSE 0]
       ELSE UNCHANGED <<wrapped, shown>>
    /\ UNCHANGED <<open, visit, health, busy, failed, listening, issued>>

-----------------------------------------------------------------------------
Next ==
    \/ Open \/ Leave \/ Refresh \/ Expire
    \/ handleBenchmark \/ handleVerifyRollback \/ runDoctor
    \/ OpenWrapped \/ CloseWrapped
    \/ \E j \in jobs, ok \in BOOLEAN :
          \/ HealthAnswer(j, ok) \/ ThreadDone(j, ok)
          \/ DoctorAnswer(j, ok) \/ WrappedAnswer(j, ok)
    \/ \E j \in jobs : Refused(j)

Spec == Init /\ [][Next]_vars
-----------------------------------------------------------------------------
(* Properties *)

\* The health card has something to say at any time: the last branch of its
\* rendering, null, is for no state that overlapping refreshes can reach.
NeverBlank == open => (HealthCard # "nothing" /\ (Exportable \/ HealthCard # "dashboard"))

\* A spinner turns only while something is under way that ends it.
SpinnersEnd ==
    open => \A k \in DOMAIN busy : busy[k] => \E j \in jobs : j.kind = k

\* The summary is the answer to the question of this opening of the dialog,
\* and it is loading exactly while that answer is on its way.
WrappedIsCurrent ==
    (open /\ wrapped.open) =>
        /\ shown["wrapped"] \in {0, wrapped.live}
        /\ WrappedView = "skeleton" <=> \E j \in jobs : j.id = wrapped.live
=============================================================================
