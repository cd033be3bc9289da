----------------------------- MODULE ExportPage -----------------------------
(***************************************************************************)
(* The export page (pages/Export.tsx): three cards, each of which starts   *)
(* an export in the sidecar, and the list of Flatpaks.  Every export ends  *)
(* with event/export_done, which does not say which one, and so does the   *)
(* one that the conversion page starts (Convert.tsx, handleOciExport).     *)
(***************************************************************************)
EXTENDS Naturals, FiniteSets

CONSTANTS MaxJobs,   \* bound: calls
          MaxVisits, \* bound: times the page is opened
          None

\* What the constants have to satisfy
ExportAssumption == MaxJobs \in Nat /\ MaxVisits \in Nat

Cards == {"appimage_to_deb", "flatpak_to_deb", "oci"}

VARIABLES
    open, visit,  \* the page is mounted, and how often it was
    busy,         \* appimageBusy, flatpakBusy, ociBusy
    result,       \* per card whether it went well, or None
    listening,    \* listeners of event/export_done: [card, job, visit]
    flatpaks,     \* the list shown: [apps, loading]
    flatpakCache, \* the list kept between visits
    selectedApp,  \* an application is selected
    issued, jobs  \* calls so far, and those the sidecar works on

list == <<flatpaks, flatpakCache, selectedApp>>
vars == <<open, visit, busy, result, listening, list, issued, jobs>>

Job == [id : 1..MaxJobs, op : Cards \cup {"flatpak_list"}, visit : 0..MaxVisits]

TypeOK ==
    /\ open \in BOOLEAN /\ visit \in 0..MaxVisits /\ issued \in 0..MaxJobs
    /\ busy \in [Cards -> BOOLEAN]
    /\ result \in [Cards -> BOOLEAN \cup {None}]
    /\ listening \subseteq [card : Cards, job : 1..MaxJobs, visit : 1..MaxVisits]
    /\ flatpaks \in [apps : {"empty", "some"}, loading : BOOLEAN]
    /\ flatpakCache \in {"empty", "some", None} /\ selectedApp \in BOOLEAN
    /\ jobs \subseteq Job

Init == /\ open = FALSE /\ visit = 0 /\ issued = 0 /\ jobs = {} /\ listening = {}
        /\ busy = [c \in Cards |-> FALSE] /\ result = [c \in Cards |-> None]
        /\ flatpaks = [apps |-> "empty", loading |-> TRUE]
        /\ flatpakCache = None /\ selectedApp = FALSE

-----------------------------------------------------------------------------
Call(op, v) ==
    /\ issued < MaxJobs /\ issued' = issued + 1
    /\ jobs' = jobs \cup {[id |-> issued', op |-> op, visit |-> v]}

\* loadFlatpak: the cache, unless it is forced or empty, or a call.
loadFlatpak(force, v) ==
    IF ~force /\ flatpakCache # None
    THEN /\ flatpaks' = [apps |-> flatpakCache, loading |-> FALSE]
         /\ UNCHANGED <<issued, jobs>>
    ELSE /\ Call("flatpak_list", v)
         /\ flatpaks' = [apps |-> IF force THEN flatpaks.apps ELSE "empty", loading |-> TRUE]

Open ==
    /\ ~open /\ visit < MaxVisits
    /\ open' = TRUE /\ visit' = visit + 1
    /\ busy' = [c \in Cards |-> FALSE] /\ result' = [c \in Cards |-> None]
    /\ selectedApp' = FALSE /\ loadFlatpak(FALSE, visit')
    /\ UNCHANGED <<flatpakCache, listening>>
Leave == open /\ open' = FALSE
         /\ UNCHANGED <<visit, busy, result, listening, list, issued, jobs>>

\* The refresh button
Refresh == /\ open /\ loadFlatpak(TRUE, visit)
           /\ UNCHANGED <<open, visit, busy, result, listening, flatpakCache, selectedApp>>

\* An application of the list is picked.
Select == /\ open /\ ~flatpaks.loading /\ flatpaks.apps = "some" /\ ~selectedApp
          /\ selectedApp' = TRUE
          /\ UNCHANGED <<open, visit, busy, result, listening, flatpaks, flatpakCache, issued, jobs>>

\* The retry of resultBadge stands beside a failure, and is never disabled.
resultBadge(c) == IF result[c] = None THEN "none"
                  ELSE IF result[c] THEN "success" ELSE "retry"

\* The buttons of the three cards
AppimageCard == ~busy["appimage_to_deb"] \/ resultBadge("appimage_to_deb") = "retry"
FlatpakCard  == (~busy["flatpak_to_deb"] /\ selectedApp)
                    \/ resultBadge("flatpak_to_deb") = "retry"
OciCard      == ~busy["oci"] \/ resultBadge("oci") = "retry"

\* subscribeExportDone: a listener of event/export_done for this export.
subscribeExportDone(c) ==
    listening' = listening \cup {[card |-> c, job |-> issued', visit |-> visit]}

\* The card is busy, its last result goes, it listens, and the sidecar is called.
Submit(c) ==
    /\ open /\ Call(c, visit) /\ subscribeExportDone(c)
    /\ busy' = [busy EXCEPT ![c] = TRUE]
    /\ result' = [result EXCEPT ![c] = None]
    /\ UNCHANGED <<open, visit, list>>

handleAppimage == AppimageCard /\ Submit("appimage_to_deb")
handleFlatpak  == FlatpakCard /\ selectedApp /\ Submit("flatpak_to_deb")
handleOci      == OciCard /\ Submit("oci")

\* The conversion page exports what it has converted, and listens to nothing.
handleOciExport == /\ Call("oci", 0)
                   /\ UNCHANGED <<open, visit, busy, result, listening, list>>

-----------------------------------------------------------------------------
(* Answers *)

\* event/export_done: every listener takes it for its own, and goes.
ExportDone(j, ok) ==
    /\ j.op \in Cards /\ jobs' = jobs \ {j} /\ listening' = {}
    /\ LET mine == {l.card : l \in {l \in listening : open /\ l.visit = visit}} IN
         /\ busy' = [c \in Cards |-> busy[c] /\ c \notin mine]
         /\ result' = [c \in Cards |-> IF c \in mine THEN ok ELSE result[c]]
    /\ UNCHANGED <<open, visit, list, issued>>

\* A thread that breaks down says so with no result.
ExportFailed(j) ==
    /\ j.op \in Cards /\ jobs' = jobs \ {j} /\ listening' = {}
    /\ busy' = [c \in Cards |->
                  busy[c] /\ ~(open /\ \E l \in listening : l.card = c /\ l.visit = visit)]
    /\ UNCHANGED <<open, visit, result, list, issued>>

\* The call is refused: its listener goes, its card rests.
Refused(j) ==
    /\ j.op \in Cards /\ jobs' = jobs \ {j}
    /\ listening' = {l \in listening : l.job # j.id}
    /\ busy' = IF open /\ j.visit = visit THEN [busy EXCEPT ![j.op] = FALSE] ELSE busy
    /\ UNCHANGED <<open, visit, result, list, issued>>

\* The list of Flatpaks arrives; it is kept also when its page is gone.
Listed(j, ok, apps) ==
    /\ j.op = "flatpak_list" /\ jobs' = jobs \ {j}
    /\ flatpakCache' = IF ok THEN apps ELSE flatpakCache
    /\ flatpaks' = IF open /\ j.visit = visit
                   THEN [apps |-> IF ok THEN apps ELSE flatpaks.apps, loading |-> FALSE]
                   ELSE flatpaks
    /\ UNCHANGED <<open, visit, busy, result, listening, selectedApp, issued>>

-----------------------------------------------------------------------------
Next ==
    \/ Open \/ Leave \/ Refresh \/ Select
    \/ handleAppimage \/ handleFlatpak \/ handleOci \/ handleOciExport
    \/ \E j \in jobs : \/ ExportFailed(j) \/ Refused(j)
                       \/ \E ok \in BOOLEAN : \/ ExportDone(j, ok)
                                              \/ \E a \in {"empty", "some"} : Listed(j, ok, a)

Spec == Init /\ [][Next]_vars
-----------------------------------------------------------------------------
(* Properties *)

\* No spinner outlives its export: a card is busy only while the export it
\* started runs and its listener stands, whatever other exports end meanwhile.
SpinnersEnd ==
    open =>
      /\ \A c \in Cards : busy[c] =>
            /\ \E l \in listening : l.card = c /\ l.visit = visit
            /\ \E j \in jobs : j.op = c /\ j.visit = visit
      /\ flatpaks.loading => \E j \in jobs : j.op = "flatpak_list" /\ j.visit = visit

\* The retry offered beside a failure starts no second export of a card whose
\* first one the card still waits for.
NoRetryWhileBusy == open => \A c \in Cards : busy[c] => resultBadge(c) # "retry"
=============================================================================
