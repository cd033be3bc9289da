----------------------------- MODULE BrowsePage -----------------------------
(***************************************************************************)
(* The page of the AUR (pages/Browse.tsx): search, information, build.     *)
(* Each runs in a thread of the sidecar and ends with an event that names  *)
(* its kind and not its call.  A search is known by its call.              *)
(***************************************************************************)
EXTENDS Naturals, FiniteSets

CONSTANTS Packages,  \* packages found
          Enter,     \* the enter key searches too, which works during a search
          Calm,      \* calls succeed and are answered in time, information comes in
                     \* its order
          MaxJobs,   \* bound: calls
          MaxVisits, \* bound: times the page is opened
          None

\* What the constants have to satisfy
BrowseAssumption ==
    /\ Enter \in BOOLEAN /\ Calm \in BOOLEAN
    /\ MaxJobs \in Nat /\ MaxVisits \in Nat /\ None \notin Packages

VARIABLES
    open, visit,      \* the page is mounted, and how often it was
    searching,        \* the skeletons
    results,          \* the search whose results are listed, 0 for none
    more,             \* there are as many as asked for
    building,         \* the package whose build the page waits for
    buildStep,        \* how far it says it is
    infoName, info,   \* the package asked about, and the one told about
    asked,            \* the last search (history)
    issued, jobs      \* calls so far, and threads of the sidecar

vars == <<open, visit, searching, results, more, building, buildStep, infoName, info, asked,
          issued, jobs>>

Steps == {"", "starting", "clone", "build"}
\* A call knows the visit whose handler awaits its response, 0 for none.
Job   == [id : 1..MaxJobs, op : {"search", "info", "build"}, name : Packages \cup {None},
          visit : 0..MaxVisits, step : Steps]

TypeOK ==
    /\ open \in BOOLEAN /\ visit \in 0..MaxVisits /\ issued \in 0..MaxJobs
    /\ searching \in BOOLEAN /\ more \in BOOLEAN
    /\ results \in 0..MaxJobs /\ asked \in 0..MaxJobs
    /\ {building, infoName, info} \subseteq Packages \cup {None}
    /\ buildStep \in Steps /\ jobs \subseteq Job

Init == /\ open = FALSE /\ visit = 0 /\ searching = FALSE /\ results = 0 /\ more = FALSE
        /\ building = None /\ buildStep = "" /\ infoName = None /\ info = None /\ asked = 0
        /\ issued = 0 /\ jobs = {}

-----------------------------------------------------------------------------
Called(op, n) ==
    /\ issued < MaxJobs /\ issued' = issued + 1
    /\ jobs' = jobs \cup {[id |-> issued', op |-> op, name |-> n, visit |-> visit, step |-> ""]}

Open ==
    /\ ~open /\ visit < MaxVisits /\ open' = TRUE /\ visit' = visit + 1
    /\ searching' = FALSE /\ results' = 0 /\ more' = FALSE
    /\ building' = None /\ buildStep' = "" /\ infoName' = None /\ info' = None /\ asked' = 0
    /\ UNCHANGED <<issued, jobs>>
Leave == open /\ open' = FALSE
         /\ UNCHANGED <<visit, searching, results, more, building, buildStep, infoName, info,
                        asked, issued, jobs>>

\* doSearch
doSearch ==
    /\ Called("search", None)
    /\ searching' = TRUE /\ results' = 0 /\ asked' = issued'
    /\ UNCHANGED <<open, visit, more, building, buildStep, infoName, info>>
handleSearch       == open /\ (~searching \/ Enter) /\ doSearch
handleLoadMore     == open /\ ~searching /\ results # 0 /\ more /\ doSearch

\* The rows of the list, with their two buttons
Listed == open /\ ~searching /\ results # 0

handleInfo(n) ==
    /\ Listed /\ Called("info", n)
    /\ infoName' = n /\ info' = None
    /\ UNCHANGED <<open, visit, searching, results, more, building, buildStep, asked>>

\* No package is built beside another.
handleBuild(n) ==
    /\ Listed /\ building = None /\ Called("build", n)
    /\ building' = n /\ buildStep' = "starting"
    /\ UNCHANGED <<open, visit, searching, results, more, infoName, info, asked>>

-----------------------------------------------------------------------------
(* The sidecar's events, which whatever page is open takes for its own *)

\* event/aur_build_progress: the clone, then makepkg
Progress(j) ==
    /\ j.op = "build" /\ j.step # "build"
    /\ LET s == IF j.step = "" THEN "clone" ELSE "build" IN
         /\ jobs' = (jobs \ {j}) \cup {[j EXCEPT !.step = s]}
         /\ buildStep' = IF open THEN s ELSE buildStep
    /\ UNCHANGED <<open, visit, searching, results, more, building, infoName, info, asked, issued>>

\* event/aur_search_done
SearchDone(j, ok) ==
    /\ j.op = "search" /\ jobs' = jobs \ {j}
    /\ searching' = IF open THEN FALSE ELSE searching
    /\ IF open /\ ok THEN results' \in {0, j.id} /\ more' \in BOOLEAN
                     ELSE UNCHANGED <<results, more>>
    /\ UNCHANGED <<open, visit, building, buildStep, infoName, info, asked, issued>>

\* event/aur_info_done
InfoDone(j, ok) ==
    /\ j.op = "info" /\ jobs' = jobs \ {j}
    /\ Calm => ok /\ \A k \in jobs : k.op = "info" => j.id <= k.id
    /\ info' = IF open /\ ok THEN j.name ELSE info
    /\ UNCHANGED <<open, visit, searching, results, more, building, buildStep, infoName, asked,
                   issued>>

\* event/aur_build_done, also of a build that stopped at its first step
BuildDone(j) ==
    /\ j.op = "build" /\ j.step # "" /\ jobs' = jobs \ {j}
    /\ building' = IF open THEN None ELSE building
    /\ buildStep' = IF open THEN "" ELSE buildStep
    /\ UNCHANGED <<open, visit, searching, results, more, infoName, info, asked, issued>>

\* The catch of a handler: it waits for nothing more.
GiveUp(j) ==
    /\ LET here == open /\ j.visit = visit IN
         /\ searching' = IF here /\ j.op = "search" THEN FALSE ELSE searching
         /\ building' = IF here /\ j.op = "build" THEN None ELSE building
         /\ buildStep' = IF here /\ j.op = "build" THEN "" ELSE buildStep
    /\ UNCHANGED <<open, visit, results, more, infoName, info, asked, issued>>

\* The call is refused, or times out: then its thread goes on, or is yet to start.
Refused(j)  == ~Calm /\ j.step = "" /\ jobs' = jobs \ {j} /\ GiveUp(j)
TimesOut(j) == /\ ~Calm /\ j.visit # 0 /\ GiveUp(j)
               /\ jobs' = (jobs \ {j}) \cup {[j EXCEPT !.visit = 0]}

-----------------------------------------------------------------------------
Next ==
    \/ Open \/ Leave \/ handleSearch \/ handleLoadMore
    \/ \E n \in Packages : handleInfo(n) \/ handleBuild(n)
    \/ \E j \in jobs : \/ Progress(j) \/ BuildDone(j) \/ Refused(j) \/ TimesOut(j)
                       \/ \E ok \in BOOLEAN : SearchDone(j, ok) \/ InfoDone(j, ok)

Spec == Init /\ [][Next]_vars
-----------------------------------------------------------------------------
(* Properties *)

\* The list is the answer to the last search, and at rest what is told is told
\* under the name of its package: on one visit of a calm page, without Enter.
OwnResults ==
    open => /\ results \in {0, asked}
            /\ (\A j \in jobs : j.op # "info") => info \in {None, infoName}

\* Builds do not overlap, and the page says which one is under way: on one
\* visit, and while no call times out.
OneBuild ==
    open => \A j \in jobs : j.op = "build" =>
              building = j.name /\ \A k \in jobs : k.op = "build" => k = j

\* The page waits for its last search, and for its own build, only while they
\* are under way, whatever was refused, timed out or was begun on an earlier
\* visit.
WaitsEnd ==
    open => /\ searching => \E j \in jobs : j.id = asked
            /\ building # None => \E j \in jobs : /\ j.op = "build" /\ j.name = building
                                                  /\ j.visit = visit
=============================================================================
