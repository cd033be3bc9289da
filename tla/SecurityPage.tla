---------------------------- MODULE SecurityPage ----------------------------
(***************************************************************************)
(* The security page of the desktop (pages/Security.tsx) and the checks    *)
(* the sidecar runs for it.  A direct check is answered by the response to *)
(* its call.  An evented one runs in a thread of its own and ends with     *)
(* event/security_done, which names neither check nor package: every       *)
(* listener there is takes it for its own.  handleRunAll awaits one check  *)
(* after the other; it goes on when its page is gone.                      *)
(***************************************************************************)
EXTENDS Naturals, Sequences, FiniteSets

CONSTANTS Packages,  \* paths a user may type or pick
          Direct,    \* checks answered by their response
          Evented,   \* checks that end with event/security_done
          Pathless,  \* checks that need no package
          Inventory, \* checks whose result is neither good nor bad
          Tabs,      \* tab -> the checks it offers
          FirstTab,  \* the tab of a page just opened
          RunOrder,  \* the checks of handleRunAll, in its order
          CanExpire, \* the 180 s of runEventCheck may pass, and those of a call,
                     \* while the sidecar goes on with it
          MaxJobs,   \* bound: calls
          MaxMounts, \* bound: times the page is opened
          None

\* What the constants have to satisfy
SecurityAssumption ==
    /\ Direct \cap Evented = {} /\ Pathless \subseteq Direct
    /\ Inventory \subseteq Direct \cup Evented
    /\ UNION {Tabs[x] : x \in DOMAIN Tabs} = Direct \cup Evented
    /\ FirstTab \in DOMAIN Tabs
    /\ RunOrder \in Seq(Direct \cup Evented)
    /\ None \notin Packages /\ CanExpire \in BOOLEAN
    /\ MaxJobs \in Nat /\ MaxMounts \in Nat

VARIABLES
    tab,       \* the tab that is open
    path,      \* the package in the field
    loading,   \* the page's one spinner
    shown,     \* the result each tab and the summary show
    mount,     \* times the page was opened
    issued,    \* calls so far
    jobs,      \* calls and threads of the sidecar
    listening, \* listeners of event/security_done
    runs       \* handleRunAll calls in progress

vars == <<tab, path, loading, shown, mount, issued, jobs, listening, runs>>

\* TABS, and the list of keys
Checks   == Direct \cup Evented
Result   == [check : Checks, pkg : Packages \cup {None}, clean : BOOLEAN]
\* A call knows the page whose handler awaits its response, 0 for none.
Job      == [id : 1..MaxJobs, check : Checks, pkg : Packages \cup {None},
             mount : 0..MaxMounts, by : {"button", "all"}]
Listener == [job : 1..MaxJobs, for : Checks, mount : 1..MaxMounts,
             by : {"button", "all"}, bound : BOOLEAN]
Run      == [mount : 1..MaxMounts, pkg : Packages, step : 1..Len(RunOrder) + 1,
             job : 0..MaxJobs]

TypeOK ==
    /\ tab \in DOMAIN Tabs /\ path \in Packages \cup {None} /\ loading \in BOOLEAN
    /\ shown \in [Checks -> Result \cup {None}]
    /\ mount \in 1..MaxMounts /\ issued \in 0..MaxJobs
    /\ jobs \subseteq Job /\ listening \subseteq Listener /\ runs \subseteq Run

Blank == [c \in Checks |-> None]
Init == /\ tab = FirstTab /\ path = None /\ loading = FALSE /\ shown = Blank /\ mount = 1
        /\ issued = 0 /\ jobs = {} /\ listening = {} /\ runs = {}

-----------------------------------------------------------------------------
(* What is on the screen *)

\* summary: one card per check, whatever the tab
Tone(c) == IF shown[c] = None THEN "neutral"
           ELSE IF c \in Inventory \/ shown[c].clean THEN "success" ELSE "attention"

\* The open tab: its buttons, disabled={loading}, and its results.
TabContent == [buttons  |-> IF loading THEN {} ELSE Tabs[tab],
               skeleton |-> loading /\ Tabs[tab] \subseteq Evented,
               results  |-> [c \in Tabs[tab] |-> shown[c]]]

(* The buttons *)

\* The cards of the summary and the tabs
SelectTab(x) ==
    /\ tab # x /\ tab' = x
    /\ UNCHANGED <<path, loading, shown, mount, issued, jobs, listening, runs>>

\* PathPicker; a package field may change while a check runs.
SetPath(p) ==
    /\ path' = p
    /\ UNCHANGED <<tab, loading, shown, mount, issued, jobs, listening, runs>>

\* The bound leaves every handleRunAll the calls it still has to make.
Room(n) == issued + n + Len(RunOrder) * Cardinality(runs) <= MaxJobs

\* call(method): a job for the sidecar and, for an evented check, its listener.
Issue(c, pkg, m, by, bound) ==
    /\ issued < MaxJobs /\ issued' = issued + 1
    /\ jobs' = jobs \cup {[id |-> issued', check |-> c, pkg |-> pkg, mount |-> m, by |-> by]}
    /\ listening' = IF c \in Evented
                    THEN listening \cup {[job |-> issued', for |-> c, mount |-> m,
                                          by |-> by, bound |-> bound]}
                    ELSE listening

requirePath == path # None

\* handleVerify, handleLoadKeys, handleSbom, handleQuality, handleProvenance,
\* handleSigstore, handleCve: the listener is awaited before the call.
Press(c) ==
    /\ c \in TabContent.buttons /\ (c \in Pathless \/ requirePath)
    /\ Room(1) /\ loading' = TRUE
    /\ Issue(c, path, mount, "button", TRUE)
    /\ UNCHANGED <<tab, path, shown, mount, runs>>

\* Mutation of PressAll: the button stays enabled.
PressAllAnyway ==
    /\ requirePath /\ Room(Len(RunOrder)) /\ loading' = TRUE
    /\ runs' = runs \cup {[mount |-> mount, pkg |-> path, step |-> 1, job |-> 0]}
    /\ UNCHANGED <<tab, path, shown, mount, issued, jobs, listening>>

\* The button of handleRunAll.
PressAll ==
    /\ ~loading /\ requirePath /\ Room(Len(RunOrder)) /\ loading' = TRUE
    /\ runs' = runs \cup {[mount |-> mount, pkg |-> path, step |-> 1, job |-> 0]}
    /\ UNCHANGED <<tab, path, shown, mount, issued, jobs, listening>>

-----------------------------------------------------------------------------
(* handleRunAll *)

Advanced(r) == [r EXCEPT !.step = @ + 1, !.job = 0]

\* The next check is called; runEventCheck does not await its listener.
NextCheck(r) ==
    /\ r.job = 0 /\ r.step <= Len(RunOrder)
    /\ Issue(RunOrder[r.step], r.pkg, r.mount, "all", FALSE)
    /\ runs' = (runs \ {r}) \cup {[r EXCEPT !.job = issued']}
    /\ UNCHANGED <<tab, path, loading, shown, mount>>

\* listen() resolves.
Bind(l) ==
    /\ ~l.bound
    /\ listening' = (listening \ {l}) \cup {[l EXCEPT !.bound = TRUE]}
    /\ UNCHANGED <<tab, path, loading, shown, mount, issued, jobs, runs>>

\* The timer of runEventCheck: done(null)
Expire(r) ==
    /\ CanExpire /\ r.job # 0 /\ RunOrder[r.step] \in Evented
    /\ runs' = (runs \ {r}) \cup {Advanced(r)}
    /\ listening' = {l \in listening : l.job # r.job}
    /\ shown' = IF r.mount = mount THEN [shown EXCEPT ![RunOrder[r.step]] = None] ELSE shown
    /\ UNCHANGED <<tab, path, loading, mount, issued, jobs>>

\* finally { setLoading(false) }
EndRun(r) ==
    /\ r.step > Len(RunOrder)
    /\ runs' = runs \ {r} /\ loading' = (loading /\ r.mount # mount)
    /\ UNCHANGED <<tab, path, shown, mount, issued, jobs, listening>>

-----------------------------------------------------------------------------
(* Answers *)

ResultOf(j, clean) == [check |-> j.check, pkg |-> j.pkg, clean |-> clean]

\* Mutation of Respond: a refused call leaves handleRunAll waiting.
RespondStuck(j, ok, clean) ==
    /\ ok => j.check \in Direct
    /\ jobs' = jobs \ {j}
    /\ loading' = (loading /\ ~(j.by = "button" /\ j.mount = mount))
    /\ shown' = IF ok /\ j.mount = mount THEN [shown EXCEPT ![j.check] = ResultOf(j, clean)]
                ELSE shown
    /\ runs' = {IF ok /\ r.job = j.id THEN Advanced(r) ELSE r : r \in runs}
    /\ listening' = {l \in listening : l.job # j.id}
    /\ UNCHANGED <<tab, path, mount, issued>>

\* The response to a call reaches the handler that awaits it.  An evented
\* check has nothing to show yet, unless it was refused.
Respond(j, ok, clean) ==
    /\ ok => j.check \in Direct
    /\ jobs' = jobs \ {j}
    /\ loading' = (loading /\ ~(j.by = "button" /\ j.mount = mount))
    /\ shown' = IF ok /\ j.mount = mount THEN [shown EXCEPT ![j.check] = ResultOf(j, clean)]
                ELSE IF j.by = "all" /\ j.check \in Evented /\ j.mount = mount
                        /\ \E r \in runs : r.job = j.id
                     THEN [shown EXCEPT ![j.check] = None] ELSE shown
    /\ runs' = {IF r.job = j.id THEN Advanced(r) ELSE r : r \in runs}
    /\ listening' = {l \in listening : l.job # j.id}
    /\ UNCHANGED <<tab, path, mount, issued>>

\* The client's time-out is a refusal for the handler: its listener goes and
\* handleRunAll goes on, and so does the check that the call may have started.
TimesOut(j) ==
    /\ CanExpire /\ j.mount # 0
    /\ jobs' = (jobs \ {j}) \cup {[j EXCEPT !.mount = 0]}
    /\ loading' = (loading /\ ~(j.by = "button" /\ j.mount = mount))
    /\ shown' = IF j.check \in Evented /\ j.mount = mount /\ \E r \in runs : r.job = j.id
                THEN [shown EXCEPT ![j.check] = None] ELSE shown
    /\ runs' = {IF r.job = j.id THEN Advanced(r) ELSE r : r \in runs}
    /\ listening' = {l \in listening : l.job # j.id}
    /\ UNCHANGED <<tab, path, mount, issued>>

\* event/security_done: whoever listens takes the result, and listens no more.
Done(j, ok, clean) ==
    /\ j.check \in Evented
    /\ jobs' = jobs \ {j}
    /\ LET hit  == {l \in listening : l.bound}
           mine == {l \in hit : l.mount = mount} IN
         /\ listening' = listening \ hit
         /\ loading' = (loading /\ ~\E l \in mine : l.by = "button")
         /\ runs' = {IF \E l \in hit : l.job = r.job THEN Advanced(r) ELSE r : r \in runs}
         /\ shown' = [c \in Checks |->
                        IF ok /\ \E l \in mine : l.for = c THEN ResultOf(j, clean)
                        ELSE IF \E l \in mine : l.for = c /\ l.by = "all" THEN None
                        ELSE shown[c]]
    /\ UNCHANGED <<tab, path, mount, issued>>

\* The page is left and opened again: another component, with blank state.
Reopen ==
    /\ mount < MaxMounts /\ mount' = mount + 1
    /\ tab' = FirstTab /\ path' = None /\ loading' = FALSE /\ shown' = Blank
    /\ UNCHANGED <<issued, jobs, listening, runs>>

-----------------------------------------------------------------------------
GoOn == \E r \in runs : NextCheck(r) \/ Expire(r) \/ EndRun(r)
AnswerDirect == \E j \in jobs, ok, clean \in BOOLEAN :
                    j.check \in Direct /\ Respond(j, ok, clean)

Next ==
    \/ \E p \in Packages \cup {None} : SetPath(p)
    \/ \E c \in Checks : Press(c)
    \/ \E x \in DOMAIN Tabs : SelectTab(x)
    \/ PressAll \/ Reopen
    \/ GoOn
    \/ \E l \in listening : Bind(l)
    \/ \E j \in jobs, ok, clean \in BOOLEAN : Respond(j, ok, clean) \/ Done(j, ok, clean)
    \/ \E j \in jobs : TimesOut(j)

Spec == Init /\ [][Next]_vars

\* The page's own steps and its timers happen, and direct checks answer; an
\* evented check may run for ever.
FairSpec == Spec /\ WF_vars(GoOn) /\ WF_vars(AnswerDirect)
-----------------------------------------------------------------------------
(* Properties *)

\* The result under a tab and on its card is a result of that check: no missing
\* vulnerability is read off a bill of materials.
OwnResult == \A c \in Checks : Tone(c) # "neutral" => shown[c].check = c

Working == (\E j \in jobs : j.mount = mount) \/ (\E r \in runs : r.mount = mount)

\* The spinner turns exactly while the page has something running.
LoadingExact == loading <=> Working

\* No spinner is left behind with nothing to end it.
NoStuckLoading == loading => Working

\* "All use the same event/security_done, so they are called one after the
\* other and not in parallel": at most one evented check runs at a time.
SequentialChecks == Cardinality({j \in jobs : j.check \in Evented}) <= 1

\* handleRunAll comes to its end although a check's event may be missed or
\* never sent, and gives the buttons back.
RunAllEnds == \A n \in 1..MaxMounts : (\E r \in runs : r.mount = n) ~> ~(\E r \in runs : r.mount = n)
=============================================================================
