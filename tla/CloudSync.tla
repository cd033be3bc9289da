------------------------------ MODULE CloudSync ------------------------------
(***************************************************************************)
(* Backups and their copies on a server: the cloud tab of the settings     *)
(* page (pages/Settings.tsx) and the fleet page (pages/Fleet.tsx).  A push *)
(* or a pull is a thread of the sidecar that ends with event/sync_done;    *)
(* the other calls are answered when they are done.  Both pages listen;    *)
(* the fleet page waits for the event, the settings page for the response. *)
(***************************************************************************)
EXTENDS Naturals, FiniteSets

CONSTANTS Pages,     \* pages the user visits: "fleet", "settings"
          MaxJobs,   \* bound: calls
          MaxVisits, \* bound: pages opened
          None

\* What the constants have to satisfy
CloudAssumption ==
    /\ MaxJobs \in Nat /\ MaxVisits \in Nat
    /\ None \notin Pages \cup {"fleet", "settings"}

Transfers == {"push", "pull"}
Direct    == {"export", "import", "config"}

VARIABLES
    page, visit, \* the page on the screen, and how many there were
    syncBusy,    \* its buttons are off
    busy,        \* the status of the fleet is looked up
    status,      \* and has been
    syncUrl,     \* the form of the settings page names a server
    jobs, issued

vars == <<page, visit, syncBusy, busy, status, syncUrl, jobs, issued>>

Job == [id : 1..MaxJobs, op : Transfers \cup Direct \cup {"status"}, visit : 1..MaxVisits,
        phase : {"sent", "started", "done"}]

TypeOK ==
    /\ page \in Pages \cup {None} /\ visit \in 0..MaxVisits
    /\ syncBusy \in BOOLEAN /\ busy \in BOOLEAN /\ status \in BOOLEAN /\ syncUrl \in BOOLEAN
    /\ issued \in 0..MaxJobs /\ jobs \subseteq Job

Init == /\ page = None /\ visit = 0 /\ issued = 0 /\ jobs = {}
        /\ syncBusy = FALSE /\ busy = FALSE /\ status = FALSE /\ syncUrl = FALSE

Call(op, v) ==
    /\ issued < MaxJobs /\ issued' = issued + 1
    /\ jobs' = jobs \cup {[id |-> issued', op |-> op, visit |-> v, phase |-> "sent"]}

-----------------------------------------------------------------------------
(* The fleet page *)

\* load, when the page opens
OpenFleet ==
    /\ page = None /\ "fleet" \in Pages /\ visit < MaxVisits
    /\ page' = "fleet" /\ visit' = visit + 1
    /\ syncBusy' = FALSE /\ busy' = TRUE /\ status' = FALSE /\ syncUrl' = FALSE
    /\ Call("status", visit')
FleetCard == page = "fleet"
RefreshFleet ==
    /\ FleetCard /\ ~busy /\ busy' = TRUE /\ Call("status", visit)
    /\ UNCHANGED <<page, visit, syncBusy, status, syncUrl>>
\* syncPush, syncPull, syncExport
FleetSync(op) ==
    /\ FleetCard /\ ~syncBusy /\ op \in Transfers \cup {"export"}
    /\ syncBusy' = TRUE /\ Call(op, visit)
    /\ UNCHANGED <<page, visit, busy, status, syncUrl>>

-----------------------------------------------------------------------------
(* The cloud tab *)

\* The form of the page starts with the server that is configured, if any is.
OpenSettings ==
    /\ page = None /\ "settings" \in Pages /\ visit < MaxVisits
    /\ page' = "settings" /\ visit' = visit + 1
    /\ syncBusy' = FALSE /\ busy' = FALSE /\ status' = FALSE /\ syncUrl' \in BOOLEAN
    /\ UNCHANGED <<jobs, issued>>
EditUrl == /\ page = "settings" /\ syncUrl' = ~syncUrl
           /\ UNCHANGED <<page, visit, syncBusy, busy, status, jobs, issued>>
\* A transfer wants a server in the form.
CloudTab(op) == page = "settings" /\ ~syncBusy /\ (op \in Transfers => syncUrl)
runSyncCall(op) ==
    /\ CloudTab(op) /\ syncBusy' = TRUE /\ Call(op, visit)
    /\ UNCHANGED <<page, visit, busy, status, syncUrl>>

Leave == page # None /\ page' = None
         /\ UNCHANGED <<visit, syncBusy, busy, status, syncUrl, jobs, issued>>

-----------------------------------------------------------------------------
(* The sidecar and its answers *)

Here(j) == page # None /\ j.visit = visit

\* A transfer has its thread, and its response is on the way.
Begin(j) ==
    /\ j.op \in Transfers /\ j.phase = "sent"
    /\ jobs' = (jobs \ {j}) \cup {[j EXCEPT !.phase = "started"]}
    /\ syncBusy' = IF Here(j) /\ page = "settings" THEN FALSE ELSE syncBusy
    /\ UNCHANGED <<page, visit, busy, status, syncUrl, issued>>

\* event/sync_done ends the wait of the fleet page, whoever asked.
SyncDone(j) ==
    /\ j.op \in Transfers /\ j.phase = "started" /\ jobs' = jobs \ {j}
    /\ syncBusy' = (syncBusy /\ page # "fleet")
    /\ UNCHANGED <<page, visit, busy, status, syncUrl, issued>>

\* The response of a direct call, or the refusal of any.
Respond(j) ==
    /\ j.phase = "sent" /\ j.op # "status" /\ jobs' = jobs \ {j}
    /\ syncBusy' = (syncBusy /\ ~Here(j))
    /\ UNCHANGED <<page, visit, busy, status, syncUrl, issued>>

\* fleet.status; one that fails leaves the cards as they were.
Looked(j, ok) ==
    /\ j.op = "status" /\ jobs' = jobs \ {j}
    /\ busy' = (busy /\ ~Here(j)) /\ status' = (status \/ (Here(j) /\ ok))
    /\ UNCHANGED <<page, visit, syncBusy, syncUrl, issued>>

-----------------------------------------------------------------------------
Next ==
    \/ OpenFleet \/ RefreshFleet \/ OpenSettings \/ EditUrl \/ Leave
    \/ \E op \in Transfers \cup Direct : FleetSync(op) \/ runSyncCall(op)
    \/ \E j \in jobs : \/ Begin(j) \/ SyncDone(j) \/ Respond(j)
                       \/ \E ok \in BOOLEAN : Looked(j, ok)

Spec == Init /\ [][Next]_vars
-----------------------------------------------------------------------------
(* Properties *)

\* One copy at a time: a push and a pull, which replace the settings and the
\* history of the server and of the machine, are not under way together: of one
\* page, on one visit.
OneTransfer == \A j, k \in jobs : (j.op \in Transfers /\ k.op \in Transfers) => j = k

\* A page that waits has a call under way.
WaitsEnd ==
    /\ (page # None /\ syncBusy) => \E j \in jobs : j.visit = visit /\ j.op # "status"
    /\ (page # None /\ busy) => \E j \in jobs : j.visit = visit /\ j.op = "status"
=============================================================================
