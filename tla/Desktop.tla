------------------------------- MODULE Desktop -------------------------------
(***************************************************************************)
(* The desktop as a choice: a behaviour is that of one page, its subject,  *)
(* calm or rough, chosen in the initial state.  The pages so share a       *)
(* specification, its properties and the runs of TLC, and not a state      *)
(* space.  The variables that the subject does not have stand still.       *)
(*                                                                         *)
(* Most constants are those of Pages; where calm and rough pages have      *)
(* values of their own it is a function: of FALSE for calm, of TRUE for    *)
(* rough.                                                                  *)
(***************************************************************************)
EXTENDS Naturals, Sequences, FiniteSets

CONSTANTS
    Subjects,  \* pages, with whether they are rough
    None,
    Jobs, Visits, Droppable, Refusable, Packages, SomeProfiles, Imports, CloudPages, Intervals,
    MaxTime, MaxItems, MaxShift, Records,                            \* functions
    Batch, DirectChecks, Evented, Pathless, Inventory, Tabs, FirstTab, RunOrder,
    ThreadedTools, DirectTools, Asked, PluginNames, Names, Found, Streams, Ring, StreamRoom,
    Adds, Calls, LongCalls

VARIABLES subject, rough,
    issued, jobs, visit, open, tab, busy, loading, running, shown, listening, asked,
    page, file, active, profileBusy,
    queue, report, output, asking, seen, drops, ticks, main, posted, bus, current, conv, outcome,
    path, mount, runs,
    snap, snapBusy, confirming, service,
    cached, fresh, failed, wrapped,
    result, flatpaks, flatpakCache, selectedApp,
    installed, available, disk,
    lang, theme, topTheme, saving, settings, saved,
    profiles, confirmDelete, dbusStatus, dbusBusy, dirs,
    syncBusy, status, syncUrl,
    schedule, delta, confirmDisable, checking, cross, listeners, stale, now, tick,
    conversions, outputPkg, graph, graphLoading, installing, repoUrl, sourceBusy,
    sourceStep, sourceResult,
    batch, batchRunning, batchInstall, confirmBatchClear, items, added, dispatcher, doneEvents,
    confirm, offers, recorded, late, released,
    searching, results, more, building, buildStep, infoName, info,
    published, history, stage, q, replay, written, dropped, between,
    entries, thread, timers, reported, dialogs, approved, accepts, crashed, started,
    nextId, st, id, got, inflight, failures, down, reloaded, registered, relay, value, sidecar,
    alive

vars == <<subject, rough, issued, jobs, visit, open, tab, busy, loading, running, shown, listening,
    asked, page, file, active, profileBusy, queue, report, output, asking, seen, drops, ticks,
    main, posted, bus, current, conv, outcome, path, mount, runs, snap, snapBusy, confirming, service,
    cached, fresh, failed, wrapped, result, flatpaks, flatpakCache, selectedApp, installed,
    available, disk, lang, theme, topTheme, saving, settings, saved, profiles, confirmDelete,
    dbusStatus, dbusBusy, dirs, syncBusy, status, syncUrl, schedule, delta, confirmDisable,
    checking, cross, listeners, stale, now, tick, conversions, outputPkg, graph, graphLoading,
    installing, repoUrl, sourceBusy, sourceStep, sourceResult, batch, batchRunning,
    batchInstall, confirmBatchClear, items, added, dispatcher, doneEvents, confirm, offers,
    recorded, late, released, searching, results, more, building, buildStep, infoName, info,
    published, history, stage, q, replay, written, dropped, between, entries, thread,
    timers, reported, dialogs, approved, accepts, crashed, started, nextId, st, id, got,
    inflight, failures, down, reloaded, registered, relay, value, sidecar, alive>>

-----------------------------------------------------------------------------
(* The pages *)

CalmPages == INSTANCE Pages WITH
    Rough <- FALSE, Jobs <- Jobs[FALSE], Visits <- Visits[FALSE], Droppable <- Droppable[FALSE],
    Refusable <- Refusable[FALSE], Packages <- Packages[FALSE], SomeProfiles <- SomeProfiles[FALSE],
    Imports <- Imports[FALSE], CloudPages <- CloudPages[FALSE],
    Intervals <- Intervals[FALSE], MaxTime <- MaxTime[FALSE], MaxItems <- MaxItems[FALSE],
    MaxShift <- MaxShift[FALSE], Records <- Records[FALSE]
RoughPages == INSTANCE Pages WITH
    Rough <- TRUE, Jobs <- Jobs[TRUE], Visits <- Visits[TRUE], Droppable <- Droppable[TRUE],
    Refusable <- Refusable[TRUE], Packages <- Packages[TRUE], SomeProfiles <- SomeProfiles[TRUE],
    Imports <- Imports[TRUE], CloudPages <- CloudPages[TRUE],
    Intervals <- Intervals[TRUE], MaxTime <- MaxTime[TRUE], MaxItems <- MaxItems[TRUE],
    MaxShift <- MaxShift[TRUE], Records <- Records[TRUE]

ASSUME DesktopAssumption == CalmPages!PagesAssumption /\ RoughPages!PagesAssumption

-----------------------------------------------------------------------------
(* Variables that stand still *)

ForConvert  == {"convert", "shared"}
ForSettings == {"settings", "topbar"}
ForTools    == {"tools", "compare"}
OpenPages   == {"reports", "export", "plugins", "profiles", "updates", "installed", "browse"}
               \cup ForSettings \cup ForTools
Callless    == ForConvert \cup {"rpc", "bus", "qt"}   \* without jobs

Frame ==
    /\ UNCHANGED <<subject, rough>>
    /\ IF subject \notin Callless THEN TRUE ELSE UNCHANGED <<issued, jobs>>
    /\ IF subject \notin (Callless \cup {"security", "actions", "batch"}) THEN TRUE
       ELSE UNCHANGED visit
    /\ IF subject \in OpenPages THEN TRUE
       ELSE UNCHANGED open
    /\ IF subject \in {"security", "plugins", "profiles", "actions", "batch"} THEN TRUE
       ELSE UNCHANGED tab
    /\ IF subject \in {"reports", "export", "plugins", "cloud"} \cup ForTools THEN TRUE
       ELSE UNCHANGED busy
    /\ IF subject \in {"security", "plugins", "updates", "installed"} \cup ForSettings THEN TRUE
       ELSE UNCHANGED loading
    /\ IF subject \in {"profiles", "actions"} \cup ForConvert THEN TRUE ELSE UNCHANGED running
    /\ IF subject \in {"security", "reports", "installed"} \cup ForTools THEN TRUE
       ELSE UNCHANGED shown
    /\ IF subject \in {"security", "reports", "export"} THEN TRUE ELSE UNCHANGED listening
    /\ IF subject \in {"updates", "browse"} \cup ForTools THEN TRUE ELSE UNCHANGED asked
    /\ IF subject \in {"snapshots", "cloud"} THEN TRUE ELSE UNCHANGED page
    /\ IF subject \in {"updates"} \cup ForSettings THEN TRUE ELSE UNCHANGED file
    /\ IF subject \in {"profiles", "rpc"} \cup ForSettings THEN TRUE ELSE UNCHANGED active
    /\ IF subject \in {"profiles"} \cup ForSettings THEN TRUE ELSE UNCHANGED profileBusy
    /\ IF subject \in ForConvert THEN TRUE
       ELSE UNCHANGED <<queue, report, output, asking, seen, drops, ticks, main, posted, bus,
                        current, conv, outcome>>
    /\ IF subject \in {"security"} THEN TRUE ELSE UNCHANGED <<path, mount, runs>>
    /\ IF subject \in {"snapshots"} THEN TRUE
       ELSE UNCHANGED <<snap, snapBusy, confirming, service>>
    /\ IF subject \in {"reports"} THEN TRUE ELSE UNCHANGED <<cached, fresh, failed, wrapped>>
    /\ IF subject \in {"export"} THEN TRUE
       ELSE UNCHANGED <<result, flatpaks, flatpakCache, selectedApp>>
    /\ IF subject \in {"plugins"} THEN TRUE ELSE UNCHANGED <<installed, available>>
    /\ IF subject \in {"plugins", "installed"} THEN TRUE ELSE UNCHANGED disk
    /\ IF subject \in ForSettings THEN TRUE
       ELSE UNCHANGED <<lang, theme, topTheme, saving, settings, saved>>
    /\ IF subject \in {"profiles"} THEN TRUE
       ELSE UNCHANGED <<profiles, confirmDelete, dbusStatus, dbusBusy, dirs>>
    /\ IF subject \in {"cloud"} THEN TRUE ELSE UNCHANGED <<syncBusy, status, syncUrl>>
    /\ IF subject \in {"updates"} THEN TRUE
       ELSE UNCHANGED <<schedule, delta, confirmDisable, checking, cross, listeners, stale,
                        now, tick>>
    /\ IF subject \in {"actions"} THEN TRUE
       ELSE UNCHANGED <<conversions, outputPkg, graph, graphLoading, installing, repoUrl,
                        sourceBusy, sourceStep, sourceResult>>
    /\ IF subject \in {"batch"} THEN TRUE
       ELSE UNCHANGED <<batch, batchRunning, batchInstall, confirmBatchClear, items, added,
                        dispatcher, doneEvents>>
    /\ IF subject \in {"installed"} THEN TRUE
       ELSE UNCHANGED <<confirm, offers, recorded, late, released>>
    /\ IF subject \in {"browse"} THEN TRUE
       ELSE UNCHANGED <<searching, results, more, building, buildStep, infoName, info>>
    /\ IF subject \in {"bus"} THEN TRUE
       ELSE UNCHANGED <<published, history, stage, q, replay, written, dropped, between>>
    /\ IF subject \in {"qt"} THEN TRUE
       ELSE UNCHANGED <<entries, thread, timers, reported, dialogs, approved, accepts, crashed,
                        started>>
    /\ IF subject \in {"rpc"} THEN TRUE
       ELSE UNCHANGED <<nextId, st, id, got, inflight, failures, down, reloaded, registered,
                        relay, value, sidecar, alive>>

Unused ==
    /\ IF subject \notin Callless THEN TRUE
       ELSE /\ issued = None /\ jobs = None
    /\ IF subject \notin (Callless \cup {"security", "actions", "batch"}) THEN TRUE
       ELSE visit = None
    /\ IF subject \in OpenPages THEN TRUE ELSE open = None
    /\ IF subject \in {"security", "plugins", "profiles", "actions", "batch"} THEN TRUE
       ELSE tab = None
    /\ IF subject \in {"reports", "export", "plugins", "cloud"} \cup ForTools THEN TRUE
       ELSE busy = None
    /\ IF subject \in {"security", "plugins", "updates", "installed"} \cup ForSettings THEN TRUE
       ELSE loading = None
    /\ IF subject \in {"profiles", "actions"} \cup ForConvert THEN TRUE ELSE running = None
    /\ IF subject \in {"security", "reports", "installed"} \cup ForTools THEN TRUE ELSE shown = None
    /\ IF subject \in {"security", "reports", "export"} THEN TRUE ELSE listening = None
    /\ IF subject \in {"updates", "browse"} \cup ForTools THEN TRUE ELSE asked = None
    /\ IF subject \in {"snapshots", "cloud"} THEN TRUE ELSE page = None
    /\ IF subject \in {"updates"} \cup ForSettings THEN TRUE ELSE file = None
    /\ IF subject \in {"profiles", "rpc"} \cup ForSettings THEN TRUE ELSE active = None
    /\ IF subject \in {"profiles"} \cup ForSettings THEN TRUE ELSE profileBusy = None
    /\ IF subject \in ForConvert THEN TRUE
       ELSE /\ queue = <<>> /\ report = None /\ output = None /\ asking = None /\ seen = None
            /\ drops = None /\ ticks = None /\ main = None /\ posted = None /\ bus = None
            /\ current = None
            /\ conv = [f \in Droppable[TRUE] |-> "none"] /\ outcome = None
    /\ IF subject \in {"security"} THEN TRUE
       ELSE /\ path = None /\ mount = None /\ runs = {}
    /\ IF subject \in {"snapshots"} THEN TRUE
       ELSE /\ snap = None /\ snapBusy = None /\ confirming = None /\ service = None
    /\ IF subject \in {"reports"} THEN TRUE
       ELSE /\ cached = None /\ fresh = None /\ failed = None /\ wrapped = None
    /\ IF subject \in {"export"} THEN TRUE
       ELSE /\ result = None /\ flatpaks = None /\ flatpakCache = None /\ selectedApp = None
    /\ IF subject \in {"plugins"} THEN TRUE
       ELSE /\ installed = None /\ available = None
    /\ IF subject \in {"plugins", "installed"} THEN TRUE ELSE disk = None
    /\ IF subject \in ForSettings THEN TRUE
       ELSE /\ lang = None /\ theme = None /\ topTheme = None /\ saving = None
            /\ settings = None /\ saved = None
    /\ IF subject \in {"profiles"} THEN TRUE
       ELSE /\ profiles = None /\ confirmDelete = None /\ dbusStatus = None /\ dbusBusy = None
            /\ dirs = None
    /\ IF subject \in {"cloud"} THEN TRUE
       ELSE /\ syncBusy = None /\ status = None /\ syncUrl = None
    /\ IF subject \in {"updates"} THEN TRUE
       ELSE /\ schedule = None /\ delta = None /\ confirmDisable = None /\ checking = None
            /\ cross = None /\ listeners = None /\ stale = None /\ now = None /\ tick = None
    /\ IF subject \in {"actions"} THEN TRUE
       ELSE /\ conversions = None /\ outputPkg = None /\ graph = None /\ graphLoading = None
            /\ installing = None /\ repoUrl = None /\ sourceBusy = None /\ sourceStep = None
            /\ sourceResult = None
    /\ IF subject \in {"batch"} THEN TRUE
       ELSE /\ batch = None /\ batchRunning = None /\ batchInstall = None
            /\ confirmBatchClear = None /\ items = None /\ added = None /\ dispatcher = None
            /\ doneEvents = None
    /\ IF subject \in {"installed"} THEN TRUE
       ELSE /\ confirm = None /\ offers = None /\ recorded = None /\ late = None
            /\ released = None
    /\ IF subject \in {"browse"} THEN TRUE
       ELSE /\ searching = None /\ results = None /\ more = None /\ building = None
            /\ buildStep = None /\ infoName = None /\ info = None
    /\ IF subject \in {"bus"} THEN TRUE
       ELSE /\ published = None /\ history = None /\ stage = None /\ q = None /\ replay = None
            /\ written = None /\ dropped = None /\ between = None
    /\ IF subject \in {"qt"} THEN TRUE
       ELSE /\ entries = None /\ thread = None /\ timers = None /\ reported = None
            /\ dialogs = None /\ approved = None /\ accepts = None /\ crashed = None
            /\ started = None
    /\ IF subject \in {"rpc"} THEN TRUE
       ELSE /\ nextId = None /\ st = [c \in Calls |-> "idle"] /\ id = None /\ got = None
            /\ inflight = None /\ failures = None /\ down = None /\ reloaded = None
            /\ registered = [c \in Calls |-> FALSE] /\ relay = None /\ value = None
            /\ sidecar = None /\ alive = None

Of(s, A)        == subject = s /\ A
Either(s, C, R) == subject = s /\ IF rough THEN R ELSE C

Init ==
    /\ \E x \in Subjects : subject = x[1] /\ rough = x[2]
    /\ Unused
    /\ \/ Of("shared", RoughPages!Shared!Init) \/ Of("reports", CalmPages!Reports!Init)
       \/ Of("export", CalmPages!Export!Init) \/ Of("topbar", CalmPages!Topbar!Init)
       \/ Of("actions", CalmPages!Actions!Init) \/ Of("rpc", RoughPages!Client!Init)
       \/ Of("bus", CalmPages!Bus!Init)
       \/ Either("convert", CalmPages!Convert!Init, RoughPages!Convert!Init)
       \/ Either("security", CalmPages!Security!Init, RoughPages!Security!Init)
       \/ Either("tools", CalmPages!Tools!Init, RoughPages!Tools!Init)
       \/ Either("snapshots", CalmPages!Snapshots!Init, RoughPages!Snapshots!Init)
       \/ Either("plugins", CalmPages!Plugins!Init, RoughPages!Plugins!Init)
       \/ Either("settings", CalmPages!Settings!Init, RoughPages!Settings!Init)
       \/ Either("profiles", CalmPages!Cards!Init, RoughPages!Cards!Init)
       \/ Either("cloud", CalmPages!Cloud!Init, RoughPages!Cloud!Init)
       \/ Either("updates", CalmPages!Updates!Init, RoughPages!Updates!Init)
       \/ Either("batch", CalmPages!BatchList!Init, RoughPages!BatchList!Init)
       \/ Either("compare", CalmPages!Compare!Init, RoughPages!Compare!Init)
       \/ Either("installed", CalmPages!Installed!Init, RoughPages!Installed!Init)
       \/ Either("browse", CalmPages!Browse!Init, RoughPages!Browse!Init)
       \/ Either("qt", CalmPages!Qt!Init, RoughPages!Qt!Init)

Next ==
    /\ Frame
    /\ \/ Of("shared", RoughPages!Shared!Next) \/ Of("reports", CalmPages!Reports!Next)
       \/ Of("export", CalmPages!Export!Next) \/ Of("topbar", CalmPages!Topbar!Next)
       \/ Of("actions", CalmPages!Actions!Next) \/ Of("rpc", RoughPages!Client!Next)
       \/ Of("bus", CalmPages!Bus!Next)
       \/ Either("convert", CalmPages!Convert!Next, RoughPages!Convert!Next)
       \/ Either("security", CalmPages!Security!Next, RoughPages!Security!Next)
       \/ Either("tools", CalmPages!Tools!Next, RoughPages!Tools!Next)
       \/ Either("snapshots", CalmPages!Snapshots!Next, RoughPages!Snapshots!Next)
       \/ Either("plugins", CalmPages!Plugins!Next, RoughPages!Plugins!Next)
       \/ Either("settings", CalmPages!Settings!Next, RoughPages!Settings!Next)
       \/ Either("profiles", CalmPages!Cards!Next, RoughPages!Cards!Next)
       \/ Either("cloud", CalmPages!Cloud!Next, RoughPages!Cloud!Next)
       \/ Either("updates", CalmPages!Updates!Next, RoughPages!Updates!Next)
       \/ Either("batch", CalmPages!BatchList!Next, RoughPages!BatchList!Next)
       \/ Either("compare", CalmPages!Compare!Next, RoughPages!Compare!Next)
       \/ Either("installed", CalmPages!Installed!Next, RoughPages!Installed!Next)
       \/ Either("browse", CalmPages!Browse!Next, RoughPages!Browse!Next)
       \/ Either("qt", CalmPages!Qt!Next, RoughPages!Qt!Next)

Spec == Init /\ [][Next]_vars

\* The fairness that the modules of these subjects state
convertVars  == RoughPages!Shared!vars
securityVars == RoughPages!Security!vars
rpcVars      == RoughPages!Client!vars
FairSpec ==
    /\ Spec
    /\ WF_convertVars(\/ Of("convert", \/ RoughPages!Convert!Render \/ RoughPages!Convert!Tick
                                      \/ RoughPages!Convert!Deliver)
                      \/ Of("shared", \/ RoughPages!Shared!Render \/ RoughPages!Shared!Tick
                                     \/ RoughPages!Shared!Deliver))
    /\ WF_convertVars(\/ Of("convert", RoughPages!Convert!Handle \/ RoughPages!Convert!Signal)
                      \/ Of("shared", RoughPages!Shared!Handle \/ RoughPages!Shared!Signal))
    /\ WF_convertVars(\/ Of("convert", RoughPages!Convert!Work)
                      \/ Of("shared", RoughPages!Shared!Work))
    /\ WF_securityVars(Of("security", RoughPages!Security!GoOn))
    /\ WF_securityVars(Of("security", RoughPages!Security!AnswerDirect))
    /\ \A c \in Calls :
         /\ WF_rpcVars(Of("rpc", RoughPages!Client!ClientTimeout(c)))
         /\ WF_rpcVars(Of("rpc", RoughPages!Client!Request(c)))
         /\ WF_rpcVars(Of("rpc", RoughPages!Client!RelayTimeout(c)))
         /\ WF_rpcVars(Of("rpc", RoughPages!Client!Return(c)))
-----------------------------------------------------------------------------
(* Properties *)

\* What holds of a page on its conditions is stated of the calm page: each
\* property below names the conditions that calm stands for in its pages, and
\* without which it fails.  What holds whatever happens is stated of the rough.
On(s, P)    == subject = s => P
InCalm(s, P)  == (subject = s /\ ~rough) => P
InRough(s, P) == (subject = s /\ rough) => P
Under(s, C, R) == subject = s => IF rough THEN R ELSE C

\* Every variable of a page has its type.
PagesTypeOK ==
    /\ On("reports", CalmPages!Reports!TypeOK)
    /\ On("export", CalmPages!Export!TypeOK)
    /\ On("topbar", CalmPages!Topbar!TypeOK)
    /\ On("actions", CalmPages!Actions!TypeOK)
    /\ Under("convert", CalmPages!Convert!TypeOK, RoughPages!Convert!TypeOK)
    /\ Under("security", CalmPages!Security!TypeOK, RoughPages!Security!TypeOK)
    /\ Under("tools", CalmPages!Tools!TypeOK, RoughPages!Tools!TypeOK)
    /\ Under("snapshots", CalmPages!Snapshots!TypeOK, RoughPages!Snapshots!TypeOK)
    /\ Under("plugins", CalmPages!Plugins!TypeOK, RoughPages!Plugins!TypeOK)
    /\ Under("settings", CalmPages!Settings!TypeOK, RoughPages!Settings!TypeOK)
    /\ Under("profiles", CalmPages!Cards!TypeOK, RoughPages!Cards!TypeOK)
    /\ Under("cloud", CalmPages!Cloud!TypeOK, RoughPages!Cloud!TypeOK)
    /\ Under("updates", CalmPages!Updates!TypeOK, RoughPages!Updates!TypeOK)
    /\ Under("batch", CalmPages!BatchList!TypeOK, RoughPages!BatchList!TypeOK)
    /\ Under("compare", CalmPages!Compare!TypeOK, RoughPages!Compare!TypeOK)
    /\ Under("installed", CalmPages!Installed!TypeOK, RoughPages!Installed!TypeOK)
    /\ Under("browse", CalmPages!Browse!TypeOK, RoughPages!Browse!TypeOK)
    /\ On("bus", CalmPages!Bus!TypeOK)
    /\ Under("qt", CalmPages!Qt!TypeOK, RoughPages!Qt!TypeOK)

\* The mark on a file of the queue, and the package on offer, are the outcome
\* of that file's conversion: onFinished attributes them by position, and the
\* PyQt window by an index.  Of the convert page with no batch beside it, rendered
\* before drops, clicks and timers find it, and with its starts answered in time;
\* of the PyQt window with a user who adds and clears when all is done only.
OwnOutcome ==
    /\ InCalm("convert", CalmPages!Convert!OwnOutcome)
    /\ InCalm("qt", CalmPages!Qt!OwnOutcome)

\* No conversion waits for a decision where none can reach it, and the answer to
\* a compatibility report goes to the conversion that wrote it: neither the
\* lambda of pipeline.start, nor handleApprove, nor the dialog of the PyQt window
\* names one.  On the conditions of OwnOutcome; in the PyQt window the user
\* moreover cancels only when no other file waits.
AnswerReaches ==
    /\ InCalm("convert", CalmPages!Convert!AnswerReaches)
    /\ InCalm("qt", CalmPages!Qt!AnswerReaches)

\* What a page shows as the answer to its last question is that, though the
\* events that end the checks, tools and builds do not name their call.  Of the
\* summary on the reports page always.  Of the checks, tools, comparison, AUR
\* and cross-check on the page's first visit, while no call outlives its time-out
\* and no check its 180 s; of the AUR moreover without the enter key during a
\* search, and with the information on packages coming in the order asked for.
OwnAnswers ==
    /\ InCalm("security", CalmPages!Security!OwnResult)
    /\ InCalm("tools", CalmPages!Tools!OwnAnswerShown)
    /\ InCalm("compare", CalmPages!Compare!OwnAnswerShown)
    /\ InCalm("browse", CalmPages!Browse!OwnResults)
    /\ On("reports", CalmPages!Reports!WrappedIsCurrent)
    /\ InCalm("updates", CalmPages!Updates!OwnReport)

\* What must not run twice does not, for a second press, another file, or the
\* end of the first: an installation of the band, always; a conversion, on the
\* conditions of AnswerReaches; an evented check, a transfer of the fleet page
\* used by itself and a build from the AUR, on one visit and while no call or
\* check outlives its time-out; and no record of the history comes back twice,
\* if changes of it do not overlap and calls succeed.
OneAtATime ==
    /\ InCalm("convert", CalmPages!Convert!OneConversion)
    /\ InCalm("qt", CalmPages!Qt!OneConversion)
    /\ InCalm("security", CalmPages!Security!SequentialChecks)
    /\ InCalm("cloud", CalmPages!Cloud!OneTransfer)
    /\ On("actions", CalmPages!Actions!OneBandInstall)
    /\ InCalm("browse", CalmPages!Browse!OneBuild)
    /\ InCalm("installed", CalmPages!Installed!NothingTwice)

\* When all calls are answered the page shows what the sidecar has: its own
\* changes, those of other pages and of threads, and the user's switches.  Of
\* pages whose lists and looks succeed and are answered in their order; of
\* settings and schedule moreover with one writer at a time, and of the history
\* as in OneAtATime.
RestIsTruthful ==
    /\ InCalm("snapshots", CalmPages!Snapshots!CardTruthful)
    /\ InCalm("plugins", CalmPages!Plugins!ListTruthful)
    /\ InCalm("settings", CalmPages!Settings!DirtyTruthful /\ CalmPages!Settings!LanguageAgrees)
    /\ On("topbar", CalmPages!Topbar!TogglesPersist)
    /\ InCalm("profiles", CalmPages!Cards!CardsTruthful)
    /\ InCalm("updates", CalmPages!Updates!CardTruthful)
    /\ InCalm("batch", CalmPages!BatchList!ListTruthful)
    /\ InCalm("installed", CalmPages!Installed!ListTruthful)

\* A record of the history is in the table, on its way back to it, or on offer,
\* until the user lets it go, if no change of it overlaps another, nothing is
\* added during one, and calls succeed.  A stream of events, always, has no gap
\* that a full queue does not explain, and no event out of its order but a
\* repetition.
NothingLost ==
    /\ InCalm("installed", CalmPages!Installed!NothingLost)
    /\ On("bus", CalmPages!Bus!NoGap /\ CalmPages!Bus!OrderKept)

\* The active profile exists: ProfilesCard lets its user change one thing at a
\* time, so that no deletion meets a switch, on one visit and while its calls are
\* answered in time.
ActiveExists == InCalm("profiles", CalmPages!Cards!ActiveExists)

\* The batch tab never clears or adds under a working dispatcher, if its calls
\* are served in their order and queue.start is answered in time.
NoClearWhileRunning == [][InCalm("batch", CalmPages!BatchList!ClearsAtRest)]_vars

\* A page waits only for what is under way, whatever failed, overtook or was
\* left behind by an earlier visit; no card is left with nothing to show or with
\* two exports, and what waits in the queue of the PyQt window has something that
\* starts it.  The one spinner of the security page is moreover exact, on one visit
\* and while nothing outlives its time-out.
WaitsEnd ==
    /\ InCalm("security", CalmPages!Security!LoadingExact)
    /\ InRough("security", RoughPages!Security!NoStuckLoading)
    /\ InRough("tools", RoughPages!Tools!NoStuckBusy)
    /\ InRough("compare", RoughPages!Compare!NoStuckBusy)
    /\ InRough("installed", RoughPages!Installed!SpinnersEnd)
    /\ InRough("browse", RoughPages!Browse!WaitsEnd)
    /\ InRough("snapshots", RoughPages!Snapshots!NoStuckBusy)
    /\ InRough("plugins", RoughPages!Plugins!SpinnersEnd)
    /\ InRough("settings", RoughPages!Settings!SpinnersEnd)
    /\ InRough("profiles", RoughPages!Cards!BusyEnds)
    /\ InRough("cloud", RoughPages!Cloud!WaitsEnd)
    /\ InRough("updates", RoughPages!Updates!WaitsEnd)
    /\ InRough("batch", RoughPages!BatchList!WaitsEnd)
    /\ On("reports", CalmPages!Reports!SpinnersEnd /\ CalmPages!Reports!NeverBlank)
    /\ On("export", CalmPages!Export!SpinnersEnd /\ CalmPages!Export!NoRetryWhileBusy)
    /\ On("actions", CalmPages!Actions!WaitsEnd)
    /\ Under("qt", CalmPages!Qt!NeverStalls, RoughPages!Qt!NeverStalls)

\* The page's queue comes to an end, each file converted, failed or removed,
\* also beside a batch whose events the page takes for its own, on a page that is
\* rendered before it is used and whose starts are not refused.
QueueDrains == (subject \in ForConvert) => RoughPages!Shared!QueueDrains

\* A pipeline that waits at its gate gets a decision without the user: that of
\* the lambda of pipeline.start, which looks up the pipeline when it runs, unless
\* a later start has replaced it there.  Starts may be answered too late.  No
\* batch runs, and the gate is taken to miss no decision, which Pipeline shows it
\* may.
DecisionArrives == (subject = "convert") => RoughPages!Convert!DecisionArrives

\* handleRunAll comes to its end, and gives the buttons back.
RunAllEnds == (subject = "security") => RoughPages!Security!RunAllEnds

\* Every call() ends, or its page does, even if the sidecar never answers, and
\* the relay's table forgets it, also when its page is gone.
CallsEnd == (subject = "rpc") => RoughPages!Client!CallsEnd
=============================================================================
