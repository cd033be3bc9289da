----------------------------- MODULE UpdatesPage -----------------------------
(***************************************************************************)
(* The updates page (pages/Updates.tsx) and the scheduler of the sidecar,  *)
(* whose state is three settings of the settings file.  The page's calls,  *)
(* the scheduler's tick, a forced run and the settings page load the file, *)
(* change it and save it, each in a thread of its own, with no lock.       *)
(***************************************************************************)
EXTENDS Naturals, FiniteSets

CONSTANTS Serial,    \* calls and ticks are worked on one by one in their order,
                     \* succeed, and are answered in that order and in time
          Others,    \* the settings page saves what it loaded earlier
          Intervals, \* hours between two runs
          MaxTime,   \* bound: hours
          MaxJobs,   \* bound: calls
          MaxVisits, \* bound: times the page is opened
          None

\* What the constants have to satisfy
UpdatesAssumption ==
    /\ Serial \in BOOLEAN /\ Others \in BOOLEAN /\ Intervals \subseteq Nat \ {0}
    /\ Intervals # {} /\ MaxTime \in Nat /\ MaxJobs \in Nat /\ MaxVisits \in Nat

Never == MaxTime + 1
Schedule == [enabled : BOOLEAN, interval : Intervals, last_run : 0..Never]

VARIABLES
    open, visit,
    schedule,        \* what the schedule card shows
    loading, delta,  \* the delta card looks, and has something to show
    confirmDisable,
    checking, cross, \* the cross-check card waits; the check whose report it shows
    listeners,       \* visits whose listener of event/cross_check_done is bound
    asked,           \* the last check (history)
    file,            \* the schedule in the settings file
    stale,           \* the copy that the settings page holds
    now,             \* hours
    tick,            \* what the tick has loaded and is about to save
    jobs, issued

page == <<open, visit, schedule, loading, delta, confirmDisable, checking, cross,
          listeners, asked>>
side == <<file, stale, now, tick>>
vars == <<open, visit, schedule, loading, delta, confirmDisable, checking, cross, listeners,
          asked, file, stale, now, tick, jobs, issued>>

Writes == {"enable", "disable", "interval", "run"}
Asks   == {"get", "delta.status", "delta.enable", "delta.disable", "check"}
\* A call knows the visit whose handler awaits its response, 0 for none.
Job == [id : 1..MaxJobs, op : Writes \cup Asks, arg : Intervals \cup {None},
        visit : 0..MaxVisits, phase : {"sent", "loaded", "done"},
        saw : Schedule \cup {None}]

TypeOK ==
    /\ open \in BOOLEAN /\ visit \in 0..MaxVisits
    /\ schedule \in Schedule \cup {None} /\ loading \in BOOLEAN /\ delta \in BOOLEAN
    /\ confirmDisable \in BOOLEAN /\ checking \in BOOLEAN
    /\ cross \in 0..MaxJobs /\ asked \in 0..MaxJobs /\ listeners \subseteq 1..MaxVisits
    /\ file \in Schedule /\ stale \in Schedule /\ tick \in Schedule \cup {None}
    /\ now \in 0..MaxTime
    /\ jobs \subseteq Job /\ issued \in 0..MaxJobs

Init == /\ open = FALSE /\ visit = 0 /\ schedule = None /\ loading = FALSE /\ delta = FALSE
        /\ confirmDisable = FALSE /\ checking = FALSE /\ cross = 0 /\ asked = 0
        /\ listeners = {} /\ now = 0 /\ tick = None
        /\ file \in [enabled : BOOLEAN, interval : Intervals, last_run : {Never}]
        /\ stale = file /\ jobs = {} /\ issued = 0

Request(n, op, arg, v) == [id |-> n, op |-> op, arg |-> arg, visit |-> v,
                           phase |-> "sent", saw |-> None]
\* The bound keeps a call for the reload after every change under way.
Room(n) == issued + n + Cardinality({j \in jobs : j.op \in Writes \cup {"delta.enable", "delta.disable"}})
             <= MaxJobs
Call(op, arg) == /\ issued' = issued + 1
                 /\ jobs' = jobs \cup {Request(issued', op, arg, visit)}
KeepJobs == UNCHANGED <<jobs, issued>>

-----------------------------------------------------------------------------
(* The page *)

\* loadDelta and loadSchedule
Open ==
    /\ ~open /\ visit < MaxVisits /\ Room(2)
    /\ open' = TRUE /\ visit' = visit + 1
    /\ schedule' = None /\ loading' = TRUE /\ delta' = FALSE /\ confirmDisable' = FALSE
    /\ checking' = FALSE /\ cross' = 0 /\ asked' = 0
    /\ issued' = issued + 2
    /\ jobs' = jobs \cup {Request(issued + 1, "delta.status", None, visit'),
                          Request(issued + 2, "get", None, visit')}
    /\ UNCHANGED <<side, listeners>>
Leave == open /\ open' = FALSE
         /\ UNCHANGED <<visit, schedule, loading, delta, confirmDisable, checking, cross,
                        listeners, asked, side, jobs, issued>>

\* The schedule card: its buttons need a schedule to show.
ScheduleCard(op) ==
    /\ open /\ schedule # None
    /\ op = "enable" => ~schedule.enabled
    /\ op = "disable" => schedule.enabled
ScheduleSet(op, arg) ==
    /\ ScheduleCard(op) /\ Room(2) /\ Call(op, arg)
    /\ UNCHANGED <<page, side>>
handleScheduleToggle(on) == ScheduleSet(IF on THEN "enable" ELSE "disable", None)
handleScheduleInterval(h) == ScheduleSet("interval", h)
handleScheduleRun == ScheduleSet("run", None)

\* The delta card; disabling asks first.  Both calls only report that they
\* would need privileges.
RefreshDelta ==
    /\ open /\ Room(1) /\ loading' = TRUE /\ Call("delta.status", None)
    /\ UNCHANGED <<open, visit, schedule, delta, confirmDisable, checking, cross, listeners,
                   asked, side>>
DeltaCard == open /\ ~loading /\ delta
handleEnable ==
    /\ DeltaCard /\ Room(2) /\ Call("delta.enable", None) /\ UNCHANGED <<page, side>>
AskDisable ==
    /\ DeltaCard /\ ~confirmDisable /\ confirmDisable' = TRUE
    /\ UNCHANGED <<open, visit, schedule, loading, delta, checking, cross, listeners, asked,
                   side, jobs, issued>>
AnswerDisable(yes) ==
    /\ open /\ confirmDisable /\ confirmDisable' = FALSE
    /\ IF yes THEN Room(2) /\ Call("delta.disable", None) ELSE KeepJobs
    /\ UNCHANGED <<open, visit, schedule, loading, delta, checking, cross, listeners, asked, side>>

\* The last report goes, a listener is bound, and the sidecar is called.  The
\* listener goes with the event it hears and not with the page.
handleCrossCheck ==
    /\ open /\ ~checking /\ Room(1)
    /\ checking' = TRUE /\ cross' = 0 /\ asked' = issued + 1
    /\ listeners' = listeners \cup {visit} /\ Call("check", None)
    /\ UNCHANGED <<open, visit, schedule, loading, delta, confirmDisable, side>>

-----------------------------------------------------------------------------
(* The sidecar *)

\* The threads that write the file, the tick's included, in line
InTurn(j) == Serial => (tick = None /\ \A k \in jobs : k.phase # "done" => j.id <= k.id)
To(j, phase, s) == jobs' = (jobs \ {j}) \cup {[j EXCEPT !.phase = phase, !.saw = s]}

\* load_settings of schedule.get, schedule.set and mark_ran
Load(j) ==
    /\ j.phase = "sent" /\ j.op \in Writes \cup {"get"} /\ InTurn(j)
    /\ To(j, IF j.op = "get" THEN "done" ELSE "loaded", file)
    /\ UNCHANGED <<page, side, issued>>
\* schedule.set, and mark_ran with the task that run_due runs after it
Save(j) ==
    /\ j.phase = "loaded" /\ InTurn(j) /\ To(j, "done", j.saw)
    /\ file' = CASE j.op = "enable"   -> [j.saw EXCEPT !.enabled = TRUE]
                 [] j.op = "disable"  -> [j.saw EXCEPT !.enabled = FALSE]
                 [] j.op = "interval" -> [j.saw EXCEPT !.interval = j.arg]
                 [] j.op = "run"      -> [j.saw EXCEPT !.last_run = now]
    /\ UNCHANGED <<page, stale, now, tick, issued>>
\* Calls that touch nothing here
Work(j) ==
    /\ j.phase = "sent" /\ j.op \in Asks \ {"get"} /\ InTurn(j)
    /\ To(j, "done", None)
    /\ UNCHANGED <<page, side, issued>>

\* The tick, once a minute: the task is due; the stamp is saved, and an event
\* says that the task ran.
Due == file.enabled /\ (file.last_run # Never => now >= file.last_run + file.interval)
TickLoads ==
    /\ tick = None /\ Due
    /\ Serial => \A k \in jobs : k.phase # "loaded"
    /\ tick' = file
    /\ UNCHANGED <<page, file, stale, now, jobs, issued>>
TickSaves ==
    /\ tick # None /\ tick' = None
    /\ file' = [tick EXCEPT !.last_run = now]
    /\ UNCHANGED <<page, stale, now, jobs, issued>>
\* An hour is long: the tick has come by, and the file is at rest.
Hour == /\ now < MaxTime /\ now' = now + 1
        /\ tick = None /\ ~Due /\ \A j \in jobs : j.phase # "loaded"
        /\ UNCHANGED <<page, file, stale, tick, jobs, issued>>

\* The settings page loads all settings, and saves them all some time later.
SettingsLoad == Others /\ stale' = file
                /\ UNCHANGED <<page, file, now, tick, jobs, issued>>
SettingsSave == Others /\ tick = None /\ file' = stale
                /\ UNCHANGED <<page, stale, now, tick, jobs, issued>>

-----------------------------------------------------------------------------
(* Answers *)

Answered(j, ok) ==
    /\ j.visit # 0 /\ IF ok THEN j.phase = "done" ELSE ~Serial
    /\ Serial => \A k \in jobs : j.id <= k.id
Here(j) == open /\ j.visit = visit

\* loadSchedule; one that fails leaves the card as it was.
GotSchedule(j, ok) ==
    /\ j.op = "get" /\ Answered(j, ok) /\ jobs' = jobs \ {j}
    /\ schedule' = IF Here(j) /\ ok THEN j.saw ELSE schedule
    /\ UNCHANGED <<open, visit, loading, delta, confirmDisable, checking, cross, listeners,
                   asked, side, issued>>
\* A change that went through is followed by a look, on a page that is gone too.
Changed(j, ok) ==
    /\ j.op \in Writes /\ Answered(j, ok)
    /\ IF ok THEN /\ issued' = issued + 1
                  /\ jobs' = (jobs \ {j}) \cup {Request(issued', "get", None, j.visit)}
             ELSE jobs' = jobs \ {j} /\ UNCHANGED issued
    /\ UNCHANGED <<page, side>>
GotDelta(j, ok) ==
    /\ j.op = "delta.status" /\ Answered(j, ok) /\ jobs' = jobs \ {j}
    /\ loading' = (loading /\ ~Here(j)) /\ delta' = (delta \/ (Here(j) /\ ok))
    /\ UNCHANGED <<open, visit, schedule, confirmDisable, checking, cross, listeners, asked,
                   side, issued>>
DeltaChanged(j, ok) ==
    /\ j.op \in {"delta.enable", "delta.disable"} /\ Answered(j, ok)
    /\ IF ok THEN /\ issued' = issued + 1 /\ loading' = (loading \/ Here(j))
                  /\ jobs' = (jobs \ {j}) \cup {Request(issued', "delta.status", None, j.visit)}
             ELSE jobs' = jobs \ {j} /\ UNCHANGED <<loading, issued>>
    /\ UNCHANGED <<open, visit, schedule, delta, confirmDisable, checking, cross, listeners,
                   asked, side>>

\* event/cross_check_done: every listener hears it, and goes.
CrossCheckDone(j, ok) ==
    /\ j.op = "check" /\ j.phase = "done" /\ (Serial => \A k \in jobs : j.id <= k.id)
    /\ jobs' = jobs \ {j} /\ listeners' = {}
    /\ IF open /\ visit \in listeners
       THEN checking' = FALSE /\ cross' = IF ok THEN j.id ELSE cross
       ELSE UNCHANGED <<checking, cross>>
    /\ UNCHANGED <<open, visit, schedule, loading, delta, confirmDisable, asked, side, issued>>
\* Mutation of CrossCheckRefused: the card stays busy.
CrossCheckRefusedBusy(j) ==
    /\ j.op = "check" /\ j.phase = "sent" /\ ~Serial /\ jobs' = jobs \ {j}
    /\ listeners' = listeners \ {j.visit}
    /\ UNCHANGED <<open, visit, schedule, loading, delta, confirmDisable, checking, cross, asked,
                   side, issued>>
CrossCheckRefused(j) ==
    /\ j.op = "check" /\ j.phase = "sent" /\ ~Serial /\ jobs' = jobs \ {j}
    /\ listeners' = listeners \ {j.visit} /\ checking' = (checking /\ ~Here(j))
    /\ UNCHANGED <<open, visit, schedule, loading, delta, confirmDisable, cross, asked, side, issued>>

\* The client's time-out is a refusal for the handler that called, and no more:
\* the call is worked on, a write saved and a check's event sent.
TimesOut(j) ==
    /\ ~Serial /\ j.visit # 0
    /\ jobs' = (jobs \ {j}) \cup {[j EXCEPT !.visit = 0]}
    /\ loading' = (loading /\ ~(Here(j) /\ j.op = "delta.status"))
    /\ checking' = (checking /\ ~(Here(j) /\ j.op = "check"))
    /\ listeners' = IF j.op = "check" THEN listeners \ {j.visit} ELSE listeners
    /\ UNCHANGED <<open, visit, schedule, delta, confirmDisable, cross, asked, side, issued>>
\* Its response, or its refusal, reaches nobody.
Unheard(j) ==
    /\ j.visit = 0 /\ j.op # "check" /\ jobs' = jobs \ {j}
    /\ UNCHANGED <<page, side, issued>>

-----------------------------------------------------------------------------
Next ==
    \/ Open \/ Leave \/ RefreshDelta \/ handleEnable \/ AskDisable \/ handleCrossCheck
    \/ handleScheduleRun \/ TickLoads \/ TickSaves \/ Hour \/ SettingsLoad \/ SettingsSave
    \/ \E b \in BOOLEAN : handleScheduleToggle(b) \/ AnswerDisable(b)
    \/ \E h \in Intervals : handleScheduleInterval(h)
    \/ \E j \in jobs :
         \/ Load(j) \/ Save(j) \/ Work(j) \/ CrossCheckRefused(j) \/ TimesOut(j) \/ Unheard(j)
         \/ \E ok \in BOOLEAN : \/ GotSchedule(j, ok) \/ Changed(j, ok) \/ GotDelta(j, ok)
                                \/ DeltaChanged(j, ok) \/ CrossCheckDone(j, ok)

Spec == Init /\ [][Next]_vars
-----------------------------------------------------------------------------
(* Properties *)

\* When all calls are answered the card shows whether the schedule is on and
\* its interval, though the tick wrote the file in between.
CardTruthful ==
    (open /\ jobs = {}) => /\ schedule.enabled = file.enabled
                           /\ schedule.interval = file.interval

\* A report is that of the last check, on the first visit and while no check
\* times out: the event of a check left behind ends that of a later one.
OwnReport == (open /\ visit = 1) => cross \in {0, asked}

\* The page waits only for what is under way.
WaitsEnd ==
    open => /\ loading => \E j \in jobs : j.visit = visit
                            /\ j.op = "delta.status"
            /\ checking => \E j \in jobs : j.op = "check"
            /\ visit \in listeners => checking
=============================================================================
