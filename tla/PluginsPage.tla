----------------------------- MODULE PluginsPage -----------------------------
(***************************************************************************)
(* The plugins page (pages/Plugins.tsx).  Installing and updating run in a *)
(* thread of the sidecar and end with event/plugin_done; removing, the     *)
(* audit and the two lists are answered by their response.  One string,    *)
(* busy, stands for all that is under way.                                 *)
(***************************************************************************)
EXTENDS Naturals, FiniteSets

CONSTANTS Plugins,   \* names of plugins
          Ordered,   \* lists are looked up and answered in their order, and succeed
          MaxJobs,   \* bound: calls
          MaxVisits, \* bound: times the page is opened
          None

\* What the constants have to satisfy
PluginsAssumption ==
    /\ Ordered \in BOOLEAN /\ MaxJobs \in Nat /\ MaxVisits \in Nat
    /\ Plugins \cap {None, "", "__audit__"} = {}
    /\ \A list \in SUBSET Plugins : list # None

Threaded == {"install", "update"}
Changes  == Threaded \cup {"uninstall"}

VARIABLES
    open, visit, \* the page is mounted, and how often it was
    tab,         \* the tab that is open
    busy,        \* the plugin, or the audit, the page waits for
    loading,     \* loading, availLoading
    installed,   \* the list of the first tab
    available,   \* the second tab has a list
    disk,        \* the plugins that are installed
    issued, jobs \* calls so far, and those the sidecar works on

vars == <<open, visit, tab, busy, loading, installed, available, disk, issued, jobs>>

Job == [id : 1..MaxJobs, op : Changes \cup {"list", "available", "audit"},
        name : Plugins \cup {None}, visit : 1..MaxVisits,
        saw : SUBSET Plugins \cup {None}, done : BOOLEAN]

TypeOK ==
    /\ open \in BOOLEAN /\ visit \in 0..MaxVisits /\ issued \in 0..MaxJobs
    /\ tab \in {"installed", "available"} /\ available \in BOOLEAN
    /\ busy \in Plugins \cup {"__audit__", ""}
    /\ loading \in [{"installed", "available"} -> BOOLEAN]
    /\ installed \subseteq Plugins /\ disk \subseteq Plugins /\ jobs \subseteq Job

Fresh == [installed |-> TRUE, available |-> FALSE]

Init == /\ open = FALSE /\ visit = 0 /\ tab = "installed" /\ busy = "" /\ loading = Fresh
        /\ installed = {} /\ available = FALSE /\ disk \in SUBSET Plugins
        /\ issued = 0 /\ jobs = {}

-----------------------------------------------------------------------------
Called(op, n, v) == jobs \cup {[id |-> issued + 1, op |-> op, name |-> n, visit |-> v,
                                saw |-> None, done |-> FALSE]}

\* The bound keeps a call for the list after every change under way.
Room(n) == issued + n + Cardinality({j \in jobs : j.op \in Changes}) <= MaxJobs

\* loadInstalled of the page that is opened
Open ==
    /\ ~open /\ visit < MaxVisits /\ Room(1)
    /\ open' = TRUE /\ visit' = visit + 1
    /\ tab' = "installed" /\ busy' = "" /\ loading' = Fresh
    /\ installed' = {} /\ available' = FALSE
    /\ issued' = issued + 1 /\ jobs' = Called("list", None, visit')
    /\ UNCHANGED disk
Leave == open /\ open' = FALSE
         /\ UNCHANGED <<visit, tab, busy, loading, installed, available, disk, issued, jobs>>

\* loadAvailable
LoadAvailable ==
    /\ Room(1) /\ loading' = [loading EXCEPT !.available = TRUE]
    /\ issued' = issued + 1 /\ jobs' = Called("available", None, visit)

\* The second tab looks its list up unless it has one or is about to.
SelectAvailable ==
    /\ open /\ tab # "available" /\ tab' = "available"
    /\ IF ~available /\ ~loading.available THEN LoadAvailable
       ELSE UNCHANGED <<loading, issued, jobs>>
    /\ UNCHANGED <<open, visit, busy, installed, available, disk>>
SelectInstalled ==
    /\ open /\ tab' = "installed" /\ tab # tab'
    /\ UNCHANGED <<open, visit, busy, loading, installed, available, disk, issued, jobs>>
\* The refresh button of an empty list
RefreshAvailable ==
    /\ open /\ tab = "available" /\ ~available /\ ~loading.available
    /\ LoadAvailable
    /\ UNCHANGED <<open, visit, tab, busy, installed, available, disk>>

\* The buttons of the open tab, for each of its plugins: disabled={busy === name}
Offers(op, n) == /\ open /\ busy # n
                 /\ IF op = "install" THEN tab = "available" /\ available /\ ~loading.available
                    ELSE tab = "installed" /\ ~loading.installed /\ n \in installed

\* setBusy(name), and the call
Begin(op, n) ==
    /\ Room(2) /\ busy' = n
    /\ issued' = issued + 1 /\ jobs' = Called(op, n, visit)
    /\ UNCHANGED <<open, visit, tab, loading, installed, available, disk>>
handleInstall(n)   == Offers("install", n) /\ Begin("install", n)
handleUninstall(n) == Offers("uninstall", n) /\ Begin("uninstall", n)
handleUpdate(n)    == Offers("update", n) /\ Begin("update", n)

handleAudit ==
    /\ open /\ busy # "__audit__" /\ busy' = "__audit__" /\ Room(1)
    /\ issued' = issued + 1 /\ jobs' = Called("audit", None, visit)
    /\ UNCHANGED <<open, visit, tab, loading, installed, available, disk>>

-----------------------------------------------------------------------------
(* The sidecar, and its answers *)

\* The work is done, or the list is read.
Work(j, ok) ==
    /\ ~j.done
    /\ Ordered => \A k \in jobs : (j.op = "list" /\ k.op = "list") => j.id <= k.id
    /\ disk' = IF ~ok THEN disk ELSE IF j.op = "install" THEN disk \cup {j.name}
               ELSE IF j.op = "uninstall" THEN disk \ {j.name} ELSE disk
    /\ jobs' = (jobs \ {j}) \cup
               {[j EXCEPT !.done = TRUE,
                          !.saw = IF j.op = "list" \/ (j.op \in Changes /\ ok)
                                  THEN disk' ELSE None]}
    /\ UNCHANGED <<open, visit, tab, busy, loading, installed, available, issued>>

Here(j) == open /\ j.visit = visit

\* loadInstalled, after a change that j made
Reload(j, page) ==
    IF page /\ j.saw # None
    THEN /\ issued' = issued + 1 /\ jobs' = Called("list", None, visit) \ {j}
         /\ loading' = [loading EXCEPT !.installed = TRUE]
    ELSE jobs' = jobs \ {j} /\ UNCHANGED <<loading, issued>>

\* event/plugin_done: nothing is busy any more, whatever else was.
PluginDone(j) ==
    /\ j.op \in Threaded /\ j.done
    /\ busy' = IF open THEN "" ELSE busy
    /\ Reload(j, open)
    /\ UNCHANGED <<open, visit, tab, installed, available, disk>>

\* A response: a removal, an audit, or the refusal of a call.
Respond(j) ==
    /\ IF j.op \in Threaded THEN ~j.done ELSE j.op \in {"uninstall", "audit"} /\ j.done
    /\ busy' = IF Here(j) THEN "" ELSE busy
    /\ Reload(j, open /\ j.visit = visit)
    /\ UNCHANGED <<open, visit, tab, installed, available, disk>>

\* A list; one that fails leaves the last.
Listed(j, ok) ==
    /\ j.op \in {"list", "available"} /\ (j.done \/ ~ok)
    /\ Ordered => (ok /\ \A k \in jobs : k.op = j.op => j.id <= k.id)
    /\ jobs' = jobs \ {j}
    /\ IF ~Here(j) THEN UNCHANGED <<loading, installed, available>>
       ELSE IF j.op = "list"
       THEN /\ loading' = [loading EXCEPT !.installed = FALSE]
            /\ installed' = IF ok THEN j.saw ELSE installed
            /\ UNCHANGED available
       ELSE /\ loading' = [loading EXCEPT !.available = FALSE]
            /\ available' \in IF ok THEN BOOLEAN ELSE {available}
            /\ UNCHANGED installed
    /\ UNCHANGED <<open, visit, tab, busy, disk, issued>>

-----------------------------------------------------------------------------
Next ==
    \/ Open \/ Leave \/ SelectAvailable \/ SelectInstalled \/ RefreshAvailable \/ handleAudit
    \/ \E n \in Plugins : handleInstall(n) \/ handleUninstall(n) \/ handleUpdate(n)
    \/ \E j \in jobs : \/ PluginDone(j) \/ Respond(j)
                       \/ \E ok \in BOOLEAN : Work(j, ok) \/ Listed(j, ok)

Spec == Init /\ [][Next]_vars
-----------------------------------------------------------------------------
(* Properties *)

\* When all has come to rest, and lists were answered in their order, the first
\* tab lists what is installed, though changes overlapped; and it misses nothing that an earlier visit began to
\* install.  A removal that an earlier visit began may leave its plugin listed:
\* the response, and the reload with it, goes to a page that is gone.
ListTruthful ==
    (open /\ jobs = {}) => (disk \subseteq installed /\ (visit = 1 => installed = disk))

\* What the page says it waits for is under way, and so are its lists.
SpinnersEnd ==
    open =>
      /\ busy \in Plugins => \E j \in jobs : j.name = busy /\ j.visit = visit
      /\ busy = "__audit__" => \E j \in jobs : j.op = "audit" /\ j.visit = visit
      /\ loading.installed => \E j \in jobs : j.op = "list" /\ j.visit = visit
      /\ loading.available => \E j \in jobs : j.op = "available" /\ j.visit = visit
=============================================================================
