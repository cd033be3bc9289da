------------------------------- MODULE Panels -------------------------------
(***************************************************************************)
(* The pages of the desktop that PanelsProofs proves about, the event      *)
(* stream of the HTTP transport and the queue of the PyQt window, each     *)
(* once, over one list of variables: those of the same name are the same   *)
(* variable.  Pages adds the others.                                       *)
(*                                                                         *)
(* A page is rough or calm.  Of a calm one the calls succeed, where its    *)
(* module lets that be said, and are worked on and answered in their       *)
(* order; of a rough one they fail and overtake each other.                *)
(***************************************************************************)
EXTENDS Naturals, Sequences, FiniteSets

CONSTANTS
    Rough, None,
    Jobs,      \* bound, by page: calls; of the convert page, files dropped; of the
               \* PyQt window, conversions; of the event stream, events
    Visits,    \* bound, by page: times it is opened; of the actions of the convert
               \* page, conversions
    Packages, DirectChecks, Evented, Pathless, Inventory,
    Tabs, FirstTab, RunOrder,   \* security page
    ThreadedTools, DirectTools, \* tools page: cards that end with an event, or an answer
    Asked,                  \* reports page: what is asked
    PluginNames,
    SomeProfiles, Imports,  \* settings page
    Names,                  \* profiles card
    CloudPages,             \* pages that transfer backups
    MaxItems, MaxShift,     \* batch tab
    Records,                \* installed page
    Found,                  \* page of the AUR: packages
    Streams, Ring, StreamRoom, \* event stream
    Adds                    \* PyQt window

VARIABLES
    issued, jobs, visit, open, tab, busy, loading, running, shown, listening, asked,
    page, file, active, profileBusy,
    bus, path, mount, runs, snap, snapBusy, confirming, service, cached, fresh, failed,
    wrapped, result, flatpaks, flatpakCache, selectedApp, installed, available, disk, lang,
    theme, topTheme, saving, settings, saved, profiles, confirmDelete, dbusStatus, dbusBusy,
    dirs, syncBusy, status, syncUrl, conversions, outputPkg, graph, graphLoading,
    installing, repoUrl, sourceBusy, sourceStep, sourceResult, batch, batchRunning,
    batchInstall, confirmBatchClear, items, added, dispatcher, doneEvents, searching,
    results, more, building, buildStep, infoName, info, published, history, stage, q,
    replay, written, dropped, between, entries, thread, timers, reported, dialogs, approved,
    accepts, crashed, started, confirm, offers, recorded, late, released

-----------------------------------------------------------------------------
Security  == INSTANCE SecurityPage WITH
    Direct <- DirectChecks, CanExpire <- Rough,
    MaxJobs <- Jobs["security"], MaxMounts <- Visits["security"]
Tools     == INSTANCE ToolsPage WITH
    Threaded <- ThreadedTools, Direct <- DirectTools, CanExpire <- Rough,
    MaxJobs <- Jobs["tools"], MaxVisits <- Visits["tools"]
Compare   == INSTANCE ToolsPage WITH
    Threaded <- {"compare"}, Direct <- {}, CanExpire <- Rough,
    MaxJobs <- Jobs["compare"], MaxVisits <- Visits["compare"]
Snapshots == INSTANCE SnapshotCards WITH
    Ordered <- ~Rough, MaxJobs <- Jobs["snapshots"], MaxVisits <- Visits["snapshots"]
Reports   == INSTANCE ReportsPage WITH
    MaxJobs <- Jobs["reports"], MaxVisits <- Visits["reports"]
Export    == INSTANCE ExportPage WITH
    MaxJobs <- Jobs["export"], MaxVisits <- Visits["export"]
Plugins   == INSTANCE PluginsPage WITH
    Plugins <- PluginNames, Ordered <- ~Rough,
    MaxJobs <- Jobs["plugins"], MaxVisits <- Visits["plugins"]
Settings  == INSTANCE SettingsPage WITH
    Profiles <- SomeProfiles, Writers <- {"page"}, Calm <- ~Rough, Serial <- ~Rough,
    MaxJobs <- Jobs["settings"], MaxVisits <- Visits["settings"]
\* The top bar and the palette, while no page writes or switches the profile
Topbar    == INSTANCE SettingsPage WITH
    Profiles <- {None}, Writers <- {"topbar"}, Imports <- {}, Calm <- TRUE, Serial <- TRUE,
    MaxJobs <- Jobs["topbar"], MaxVisits <- Visits["topbar"]
Cards     == INSTANCE ProfilesCard WITH
    Ordered <- ~Rough, MaxJobs <- Jobs["profiles"], MaxVisits <- Visits["profiles"]
Cloud     == INSTANCE CloudSync WITH
    Pages <- CloudPages, MaxJobs <- Jobs["cloud"], MaxVisits <- Visits["cloud"]
Actions   == INSTANCE ConvertActions WITH
    MaxConversions <- Visits["actions"], MaxJobs <- Jobs["actions"]
BatchList == INSTANCE BatchTab WITH
    Ordered <- TRUE, Fails <- Rough, MaxJobs <- Jobs["batch"]
Browse    == INSTANCE BrowsePage WITH
    Packages <- Found, Enter <- Rough, Calm <- ~Rough,
    MaxJobs <- Jobs["browse"], MaxVisits <- Visits["browse"]
Installed == INSTANCE InstalledPage WITH
    Calm <- ~Rough, MaxJobs <- Jobs["installed"], MaxVisits <- Visits["installed"]
Bus       == INSTANCE EventBus WITH Room <- StreamRoom, MaxEvents <- Jobs["bus"]
Qt        == INSTANCE QtQueue WITH Patient <- ~Rough, MaxRuns <- Jobs["qt"]

\* What the constants have to satisfy
PanelsAssumption ==
    /\ Rough \in BOOLEAN
    /\ Security!SecurityAssumption /\ Tools!ToolsAssumption /\ Compare!ToolsAssumption
    /\ Snapshots!SnapshotAssumption /\ Reports!ReportsAssumption
    /\ Export!ExportAssumption /\ Plugins!PluginsAssumption
    /\ Settings!SettingsAssumption /\ Topbar!SettingsAssumption
    /\ Cards!ProfilesAssumption /\ Cloud!CloudAssumption
    /\ Actions!ActionsAssumption /\ BatchList!BatchTabAssumption
    /\ Browse!BrowseAssumption /\ Installed!InstalledAssumption
    /\ Bus!EventBusAssumption /\ Qt!QtQueueAssumption
=============================================================================
