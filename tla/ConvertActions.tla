--------------------------- MODULE ConvertActions ---------------------------
(***************************************************************************)
(* What the convert page (pages/Convert.tsx) offers beside the conversion: *)
(* the actions on the package that the last conversion made, and the       *)
(* wizard that writes a PKGBUILD for a repository.  Each is a thread of    *)
(* the sidecar that ends with an event, which says what came out and not   *)
(* of which package.  The conversions themselves are in ConvertPage; here  *)
(* they come and go.                                                       *)
(***************************************************************************)
EXTENDS Naturals, FiniteSets

CONSTANTS MaxConversions, \* bound: conversions
          MaxJobs         \* bound: calls

\* What the constants have to satisfy
ActionsAssumption == MaxConversions \in Nat /\ MaxJobs \in Nat

VARIABLES
    tab,          \* the tab that is open
    running,      \* a conversion is under way
    conversions,  \* how many there were: the n-th makes package n
    outputPkg,    \* the package of the result band, 0 for none
    graph,        \* the package whose graph is shown, 0 for none
    graphLoading, installing,
    repoUrl,      \* the wizard's field is filled in
    sourceBusy, sourceStep,
    sourceResult, \* the call whose PKGBUILD is shown, 0 for none
    issued, jobs

conversion == <<running, conversions>>
wizard     == <<repoUrl, sourceBusy, sourceStep, sourceResult>>
band       == <<outputPkg, graph, graphLoading, installing>>
vars == <<tab, running, conversions, outputPkg, graph, graphLoading, installing,
          repoUrl, sourceBusy, sourceStep, sourceResult, issued, jobs>>

Steps == {"", "starting", "clone", "detect", "generate"}
Job   == [id : 1..MaxJobs, op : {"graph", "install", "source", "oci", "open"},
          pkg : 0..MaxConversions, phase : Steps \cup {"sent", "working"}]

TypeOK ==
    /\ tab \in {"convert", "fromsource"} /\ running \in BOOLEAN
    /\ conversions \in 0..MaxConversions
    /\ outputPkg \in 0..MaxConversions /\ graph \in 0..MaxConversions
    /\ graphLoading \in BOOLEAN /\ installing \in BOOLEAN /\ repoUrl \in BOOLEAN
    /\ sourceBusy \in BOOLEAN /\ sourceStep \in Steps /\ sourceResult \in 0..MaxJobs
    /\ issued \in 0..MaxJobs /\ jobs \subseteq Job

Init == /\ tab = "convert" /\ running = FALSE /\ conversions = 0
        /\ outputPkg = 0 /\ graph = 0 /\ graphLoading = FALSE /\ installing = FALSE
        /\ repoUrl = FALSE /\ sourceBusy = FALSE /\ sourceStep = "" /\ sourceResult = 0
        /\ issued = 0 /\ jobs = {}

-----------------------------------------------------------------------------
(* The conversions *)

\* startNext clears what belonged to the last one.
StartNext ==
    /\ ~running /\ conversions < MaxConversions
    /\ running' = TRUE /\ conversions' = conversions + 1
    /\ outputPkg' = 0 /\ graph' = 0
    /\ UNCHANGED <<tab, graphLoading, installing, wizard, issued, jobs>>
\* event/finished
Finished(success) ==
    /\ running /\ running' = FALSE
    /\ outputPkg' = IF success THEN conversions ELSE outputPkg
    /\ UNCHANGED <<tab, conversions, graph, graphLoading, installing, wizard, issued, jobs>>

-----------------------------------------------------------------------------
(* The result band *)

SelectTab(to) == /\ tab # to /\ tab' = to
                 /\ UNCHANGED <<conversion, band, wizard, issued, jobs>>

\* The band is on the screen.
Band == tab = "convert" /\ outputPkg # 0 /\ ~running

Call(op, pkg) ==
    /\ issued < MaxJobs /\ issued' = issued + 1
    /\ jobs' = jobs \cup {[id |-> issued', op |-> op, pkg |-> pkg, phase |-> "sent"]}

handleInstall ==
    /\ Band /\ ~installing /\ installing' = TRUE /\ Call("install", outputPkg)
    /\ UNCHANGED <<tab, conversion, outputPkg, graph, graphLoading, wizard>>
handleShowGraph ==
    /\ Band /\ ~graphLoading /\ graphLoading' = TRUE /\ graph' = 0
    /\ Call("graph", outputPkg)
    /\ UNCHANGED <<tab, conversion, outputPkg, installing, wizard>>
\* These two wait for nothing.
handleOciExport ==
    Band /\ Call("oci", outputPkg) /\ UNCHANGED <<tab, conversion, band, wizard>>
handleOpenFolder ==
    Band /\ Call("open", outputPkg) /\ UNCHANGED <<tab, conversion, band, wizard>>

-----------------------------------------------------------------------------
(* The wizard *)

Wizard == tab = "fromsource"
EditUrl == /\ Wizard /\ repoUrl' = ~repoUrl
           /\ UNCHANGED <<tab, conversion, band, sourceBusy, sourceStep, sourceResult,
                          issued, jobs>>
handleGenerate ==
    /\ Wizard /\ ~sourceBusy /\ repoUrl
    /\ sourceBusy' = TRUE /\ sourceStep' = "starting" /\ sourceResult' = 0
    /\ Call("source", 0)
    /\ UNCHANGED <<tab, conversion, band, repoUrl>>

-----------------------------------------------------------------------------
(* The sidecar, and its answers *)

At(j, phase) == jobs' = (jobs \ {j}) \cup {[j EXCEPT !.phase = phase]}

\* The thread of a call begins.
Begin(j) ==
    /\ j.phase = "sent" /\ j.op # "open" /\ At(j, "working")
    /\ UNCHANGED <<tab, conversion, band, wizard, issued>>
\* event/source_progress
SourceProgress(j, step) ==
    /\ j.op = "source"
    /\ <<j.phase, step>> \in {<<"working", "clone">>, <<"clone", "detect">>, <<"detect", "generate">>}
    /\ At(j, step) /\ sourceStep' = step
    /\ UNCHANGED <<tab, conversion, band, repoUrl, sourceBusy, sourceResult, issued>>

\* event/graph_done, event/install_done, event/source_done; event/export_done
\* is not heard here.
GraphDone(j, ok) ==
    /\ j.op = "graph" /\ j.phase = "working" /\ jobs' = jobs \ {j}
    /\ graphLoading' = FALSE /\ graph' = IF ok THEN j.pkg ELSE graph
    /\ UNCHANGED <<tab, conversion, outputPkg, installing, wizard, issued>>
InstallDone(j) ==
    /\ j.op = "install" /\ j.phase = "working" /\ jobs' = jobs \ {j}
    /\ installing' = FALSE
    /\ UNCHANGED <<tab, conversion, outputPkg, graph, graphLoading, wizard, issued>>
SourceDone(j, ok) ==
    /\ j.op = "source" /\ j.phase \in (IF ok THEN {"generate"} ELSE Steps \cup {"working"})
    /\ jobs' = jobs \ {j}
    /\ sourceBusy' = FALSE /\ sourceStep' = ""
    /\ sourceResult' = IF ok THEN j.id ELSE sourceResult
    /\ UNCHANGED <<tab, conversion, band, repoUrl, issued>>
Unheard(j) ==
    /\ j.op = "oci" /\ j.phase = "working" /\ jobs' = jobs \ {j}
    /\ UNCHANGED <<tab, conversion, band, wizard, issued>>

\* The call is refused: no thread, and a response that says so.
Refused(j) ==
    /\ j.phase = "sent" /\ jobs' = jobs \ {j}
    /\ graphLoading' = (graphLoading /\ j.op # "graph")
    /\ installing' = (installing /\ j.op # "install")
    /\ sourceBusy' = (sourceBusy /\ j.op # "source")
    /\ sourceStep' = IF j.op = "source" THEN "" ELSE sourceStep
    /\ UNCHANGED <<tab, conversion, outputPkg, graph, repoUrl, sourceResult, issued>>

-----------------------------------------------------------------------------
Next ==
    \/ StartNext \/ handleInstall \/ handleShowGraph
    \/ handleOciExport \/ handleOpenFolder \/ EditUrl \/ handleGenerate
    \/ \E to \in {"convert", "fromsource"} : SelectTab(to)
    \/ \E ok \in BOOLEAN : Finished(ok)
    \/ \E j \in jobs : \/ Begin(j) \/ InstallDone(j) \/ Unheard(j) \/ Refused(j)
                       \/ \E s \in Steps : SourceProgress(j, s)
                       \/ \E ok \in BOOLEAN : GraphDone(j, ok) \/ SourceDone(j, ok)

Spec == Init /\ [][Next]_vars
-----------------------------------------------------------------------------
(* Properties *)

Installs == {j \in jobs : j.op = "install"}

\* The band installs one package at a time, over all conversions.
OneBandInstall == \A j, k \in Installs : j = k

\* What the page waits for is under way, and the wizard is at the step that
\* its thread is at: no step of an earlier repository shows.
WaitsEnd ==
    /\ graphLoading <=> \E j \in jobs : j.op = "graph"
    /\ installing <=> Installs # {}
    /\ sourceBusy <=> \E j \in jobs : j.op = "source"
    /\ sourceStep = "" <=> ~sourceBusy
    /\ \A j \in jobs : j.op = "source" =>
         sourceStep = IF j.phase \in {"sent", "working"} THEN "starting" ELSE j.phase
=============================================================================
