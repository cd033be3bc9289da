# PkgForge, specified

TLA+ models of PkgForge (conversion of `.deb`, `.rpm` and other inputs into Arch
packages): the sidecar's queue and pipeline, the calls and events that connect the
desktop to it, the pages of the desktop, and the window of the older PyQt interface;
with the TLC instances that check them, and theorems about them proved with TLAPS.
Paths below are relative to the repository.

## 1. Inventory

| component | state | operations | what is hard | what makes it correct |
|---|---|---|---|---|
| **Batch queue** `core/api/handlers_queue.py`, `core/queue_store.py` | `_queue_items`, `_queue_seq`, `_queue_running`, `_active_pipelines`; the SQLite table | add, list, priority, remove, clear, start, cancel; dispatcher; restore | request threads, dispatcher threads and pipeline threads; a lock over some of the state only; restart; swallowed write errors | one pipeline per item, installations one at a time where the code serialises them, the table follows the memory, work ends and survives a restart |
| **Pipeline** `core/pipeline.py` with `native_deb_converter.py`, `deb_converter.py`, `rpm_converter.py`, `installer.py`, `api/handlers_pipeline.py` | flags of cancellation and decision, helper, temporary directory, result | start, cancel, approve, dismiss; stages; process events; cleanup | requests race with the worker; helpers signal from their own loop; fallback; cleanup on every path | the package is not lost, no installation without consent, the result is true, the worker ends |
| **Sidecar transport** `core/api/protocol.py`, `transport.py`, `http.py` | input buffer, main-thread loop, event bus with ring and subscribers | dispatch, pump, emit, subscribe, replay | which thread serves what; a bounded queue; subscribe and replay are two steps | requests served in the order their thread has; no event lost but by a full queue |
| **Relay and client** `desktop/src-tauri/src/sidecar.rs`, `desktop/src/lib/rpc.ts`, `SidecarGuard` | pending requests, ids, time-outs, activity and failure counters | call, answer, time out, restart of page or sidecar | late answers, two time-outs, reuse of ids, end of the sidecar | an answer reaches the call it answers; every call ends; the counters are right |
| **Convert page** `desktop/src/pages/Convert.tsx` | its own queue of files, report, result band, wizard; the batch tab | drop, remove, cancel, approve; install, graph, export; batch add, start, clear | a loop of listeners, timers and refs written by rendering; events that name no file; the batch queue emits the same ones | one conversion at a time, each outcome on its file, each answer to its pipeline, the queue drains |
| **Other pages** `Security`, `Tools`, `Compare`, `Reports`, `Export`, `Plugins`, `Settings`, `Fleet`, `Updates`, `Installed`, `Browse` | spinners, results, lists, forms, toasts | one call or several per button, events that end them | answers out of order, pages left and opened again, events that name no call, two pages on one service | what is shown answers the question, waits end, the page at rest agrees with the sidecar |
| **Scheduler and settings** `handlers_queue.py` (328 ff.), `core/http_api/meta.py`, `core/profiles.py` | settings file per profile, last run | get, set, tick, switch of profile | load-modify-save from several threads, with no lock | the form agrees with the file, the active profile exists; the stamp of the last run is not safe (section 4) |
| **History** `core/history_db.py` | a table | add, list, clear, restore | clear with an undo is four calls of two actors | no record lost or doubled |
| **PyQt window** `core/queue_manager.py`, `ui/main_window.py` | items and an index, one thread, timers, dialogs that run the event loop | add, start, approve, cancel, clear, next | the index while the list changes; starts from timers and dialogs while a thread runs | one conversion at a time, each item its own result |
| Retry, security, malware, intake, compatibility | none | pure checks, a loop of one thread | - | - |
| Privileged helper, external tools behind rehearsal and snapshots | external | wrappers | - | - |
| Offline cache, delta index, upstream, secrets | files | sequential read and write | - | - |
| Reports, SBOM, provenance, signing, CLI | none of their own | - | - | - |

How they interact: the desktop (or an HTTP client) sends JSON-RPC requests to the
sidecar.  `_route_request` serves the methods in `_MAIN_THREAD_METHODS` on the main
thread (among them `pipeline.*`) and every other on a thread of its own (among them
`queue.*`).  `queue.start` spawns a dispatcher thread, which makes one pipeline per
item and runs it on a thread; the pipeline calls back into the queue through
`finished`, on the pipeline's thread.  `pipeline.start` keeps its pipeline in
`transport._pipeline`, where the other `pipeline.*` requests find it.

A page of the desktop calls through `call()` of `rpc.ts` and the relay in the Rust
shell.  Work that takes long is answered at once (`started`), goes on in a thread of
the sidecar and ends with an event (`finished`, `security_done`, `export_done`, ...)
that reaches every listener and says neither which call nor which page it answers.
A page that is left removes its listeners and forgets its state; its calls and its
threads go on.

The hazards of this code, each at its line, are listed in `PROJECT.json` with the
properties that cover them.

## 2. Modules

| module | what it is |
|---|---|
| `JobQueue` | what the batch queue promises a client: a job waits, is taken, ends once, and only a restart takes unfinished work back |
| `BatchQueue` | the queue, its threads and its table; implements `JobQueue` |
| `BatchQueueProofs` | theorems about `BatchQueue` |
| `MCBatchQueue` | its TLC instances (four configurations) |
| `Pipeline` | the pipeline, its helpers and the requests |
| `PipelineProofs` | theorems about `Pipeline` |
| `MCPipeline` | its TLC instances (five configurations) |
| `Rpc` | `call()`, the relay, the sidecar behind them; implements `RpcContract` |
| `RpcContract` | what `call()` promises: worked on at most once, told once, answered only if worked on |
| `RpcProofs` | theorems about `Rpc` |
| `MCRpc` | its TLC instance |
| `EventBus` | the event stream: ring, subscribers' queues, replay |
| `ConvertPage` | the page's own queue of files, its loop, its dialogs, the main thread of the sidecar, the pipeline as the page sees it, a batch beside it |
| `ConvertPageProofs` | theorems about `ConvertPage` |
| `ConvertActions` | the result band (install, graph, export) and the repository wizard |
| `BatchTab` | the batch tab over the handlers of the queue |
| `SecurityPage`, `ToolsPage`, `SnapshotCards`, `ReportsPage`, `ExportPage` | the pages of checks, tools (and comparison), the two cards of the snapshot service, reports, exports |
| `PluginsPage`, `BrowsePage`, `InstalledPage` | plugins, AUR, history with clear and undo |
| `SettingsPage`, `ProfilesCard`, `CloudSync`, `UpdatesPage` | settings with top bar and palette, profiles and D-Bus, backups on settings and fleet page, schedule and delta timer |
| `UpdatesPageProofs` | theorems about `UpdatesPage` |
| `QtQueue` | the queue of the PyQt window and the window that drives it |
| `Panels` | `EventBus`, `QtQueue` and all pages but two, each instantiated once over common variables |
| `PanelsProofs`, `MorePanelsProofs` | theorems about these instances, in two parts |
| `Pages` | `Panels`, and with it `ConvertPage`, `UpdatesPage` and a second instance of `Rpc` |
| `Desktop` | all of them as one specification, and what is to be shown of the desktop |
| `DesktopProofs` | theorems about `Desktop` |
| `MCDesktop` | the TLC instance of `Desktop` (two configurations) |

### BatchQueue

A step is what a thread does between two points where another can interfere: the
body of a `with _queue_lock` block, or one access to a variable the lock does not
cover.  So `queue.remove` and `queue.clear` are two steps (`RemoveBegin`/`RemoveEnd`:
the memory, then the row), `queue.start` is three (`StartBegin` reads the pending
items, `StartCheck` reads `_queue_running`, `StartSet` sets it), `queue.cancel` is two,
the dispatcher is `Scan`, `SortBatch`, `Mark`, `Launch`, `Join`, `Finish`, and a pipeline
thread is `StartInstall` (it goes on to pacman), `Pop` (the registry) and `Settle` (the
status and the row).  `StartInstall` is open to every pipeline, also of a convert-only batch: a
report that says PASS passes the gate by itself (`pipeline.py:721`).  Writing the row is
part of the step that changes the item, because `_set_item` and `handle_queue_add` do it
under the lock; `Upsert` and `Delete` have an alternative in which the write fails and is
swallowed.  `Restart` is a death at any point followed by `restore_queue`.  The row of a
restored item keeps the status it had: `restore_queue` writes nothing.  The sort compares
ids as text (`TextBefore`).  The pipeline itself is reduced to its outcome.

`queue.remove` takes any id, also one that has not been handed out yet (`RemoveArgs` bounds
them): its row may then be deleted when the id has been.

`exposed` and `stranded` are history variables: ids written while a `queue.clear` or a removal
of theirs was between its two halves or whose write failed, and ids whose pipeline could not be built.
They name the exceptions the code does have, so that the properties can say that there
are no others.

Bounds (constants): `MaxItems` ids, and a budget of crashes, of inputs that vanish, of
failing writes and of pipelines that cannot be built.

### Pipeline

`pc` is where the worker is; each stage of `_run_pipeline` (or of `_run_intake_route`) is
one action that reads the flags where the code does.  A helper is a record: which one,
its own `_cancelled`, its process, and the phase of an rpm conversion.  The rest follows
the attributes of `ConversionPipeline`.  `_wait_for_decision` is four labels (`check`,
`connect`, `wait`, `decide`), because the signal emitted between the test and the
connection is lost.  `cancel()` is two steps (`Cancel` sets the flag and wakes the gate,
`CancelHelper` reaches the helper).  `run`'s `finally` is `History`, `Cleanup`, `Emit`.
The label `hung` is the worker in a loop nobody quits: a helper that fails before its
process is started emits `finished` within `convert()` or `install()`, before `loop.exec`.

Abstracted: a package is where it is (`none`, `temp`, `kept`, `gone`), a report is its
verdict, a check fails or does not, the intake route's build is one step, a process runs,
succeeds or fails; a killed `pkexec` may have gone on as root and completed.  `installed`
and `consent` are history.  The mode without PyQt is not modelled.

The constants give the inputs; the parameters of `pipeline.start` and of `queue.start`
(`install`), the presence of debtap and the setting `dry_run` are chosen at `Start`.

### Rpc

A call is a model value.  `call()` takes the next id, waits, and ends by a response, an
error, or its own time-out (60 s; 150 s for `LongCalls`); the relay registers a sender
under the id, writes the request, and is answered or gives up after 120 s.  Of time only
the order of these limits is kept.  `Return` is the relay's reader: it takes the sender
of the response's id from the table.  `Die` ends the sidecar, and the end of its output
fails whatever is registered.  `Reload` starts the page again: its ids start from one,
its promises are gone, the relay's table and the sidecar's work are not.

### ConvertPage

React renders after handlers: `seen` is what was rendered last, and `queueRef`,
`runningRef` and the disabled buttons go by it.  Every handler (`AddPath`, `RemoveItem`, `Decide`,
`AskCancel`, `AnswerCancel`, `OnFinished` and so on) is one action, a timer of
`startNext` is in `ticks`, requests wait in `main` for the sidecar's main thread, events in
`bus` for the listeners.  The signals of a pipeline wait in `posted` until the main thread
processes its Qt events (`Signal`): its lambdas send the event, and one of them dismisses
the pipeline, since `startNext` asks for no installation (`Convert.tsx:129`,
`handlers_pipeline.py:75-79`).  So a report needs no answer, and one the user gives while the
dialog is open only says the same earlier; a clean report, or a failure before it, goes to its end with
no gate at all (`Finish`).  The files of `Late` may have their `pipeline.start` time out in the
client (`StartTimesOut`): the page marks them as failed, and the sidecar starts them all the same.  `RenderFirst` says that drops, clicks and timers find the page
rendered; React schedules a render within the same frame, a timer takes 300 ms.  `Batch`
adds items of the sidecar's batch queue, whose `finished` the page takes for its own.

### The other pages

Each has the page's state as its variables, one action per handler, and `jobs`: a
call or a thread of the sidecar, with the phase it is in (asked, looked, acted, answered),
so that two requests interleave at each access to a shared file or list, and their
answers come in any order.  `visit` numbers the times a page was opened: an answer to an
earlier visit sets nothing, while its event reaches the listeners of the present one.
A call that times out in the client (`TimesOut`) is a refusal for its handler and nothing for the
sidecar: the job goes on with nobody to answer to (`visit` 0, or `unheard`), writes what it writes
and sends its event.
What is said is abstracted: a result is the call it answers, a list is a set, a setting one of
two values.  Where a module takes `Ordered`, `Calm`, `Serial`, `Patient` or the like, its comment
says which conduct of user, sidecar and network that stands for.

### EventBus and QtQueue

`EventBus` publishes events by number; a stream subscribes, copies the ring, writes the copy,
and goes on with its queue, each a step.  `QtQueue` runs on Qt's main thread: timers and
queued signals are delivered one by one, but a dialog runs the event loop itself, so that
`dialogs` may be open while timers fire.  A second start while a thread runs is `crashed`:
the attribute was the only reference to a running `QThread`.

### Desktop

The pages interact with the sidecar and hardly with one another.  A behaviour is that of
one `subject`, chosen in the initial state; the variables
of the others stand still (`Frame`), so that a run's state space is the sum of theirs
and not the product.  Variables of the same name are one variable.  A subject is
`calm` or `rough`: a calm one shows what the page promises while calls succeed where the
page's module lets that be said, and are served in their order; a rough one lets them fail and
overtake, and pages be left and opened again, and shows that no wait is left behind.
`Desktop` instantiates `Pages` twice, `CalmPages` and `RoughPages`; its constants that bound or
name something for both are functions of `FALSE` (calm) and `TRUE` (rough).  Its properties join what is
asked of several pages under one name each.  `Panels` is apart from `Pages` for the provers,
which carry every definition in sight through every step.
Pages that do share something are in one module: `SnapshotCards` (two pages, one
service), `CloudSync` (settings and fleet page), `SettingsPage` (page, top bar,
palette), `ReportsPage` and `ExportPage` (cards that share an event), `ConvertPage` (page and
batch).

## 3. Runs

| run | shows | bounds |
|---|---|---|
| `batch_queue` | safety of the queue and the refinement of `JobQueue` | two items, one requester, one client that awaits each `queue.start`, two dispatchers (one may outlive its loop through pipelines it did not join), one crash, one vanished input, one pipeline that cannot be built |
| `batch_queue_live` | the table follows the memory, and liveness | two items, two priorities, one failing write |
| `two_starters` | *violated*: overlapping `queue.start` requests have two pipelines in pacman at the same time | two starters, batches that install |
| `clear_race` | *violated*: an item added within a `queue.clear` loses its row | - |
| `pipeline` | safety and termination of a pipeline | one pipeline, every kind of input and every combination of parameters |
| `silent_install` | *violated*: convert-only and a clean report installs | - |
| `lost_package` | *violated*: the intake route loses its package | - |
| `lost_decision` | *violated*: a decision between test and connection is lost | - |
| `no_fallback` | *violated*: a native conversion that fails early hangs instead of falling back | - |
| `rpc` | safety of calls and relay, and the refinement of `RpcContract` | three calls, one of them with the long limit; one death of the sidecar, one restart of the page |
| `desktop` | safety of every page, of the event stream and of the PyQt window, calm and rough | two files, profiles, plugins, records or packages where there are any; three to six calls; one or two visits (three for the comparison and the snapshot cards) |
| `desktop_live` | the queue of files drains, decisions arrive, the run of all checks and every call end | the rough instance of `convert`, with starts that time out, the one beside a batch, that of `security` on one visit, and two calls; no file is refused, since a refusal stalls the queue (section 4) |

Why these are enough: two items are the least that can be in one batch, in two batches
or in two dispatchers, and nothing in the code relates three items except the sort.  One
dispatcher more than starters covers the threads a failed launch leaves behind.  Pipelines
share only `transport._pipeline`, so one shows all that concerns a pipeline alone; the
theorems below are for any number of them.

Three calls are the least with which a response follows two failures in a row
(`GuardTruthful`).  On a page one call may overtake a second and a third be asked after both;
an answer of an earlier visit needs two visits; the event ring and the queue of a stream
hold two, so that both overflow within five events.  Four conversions of the PyQt
window are two batches of one and two files, and one again.

`CHECK_DEADLOCK FALSE` is set because all of them may come to rest: a queue with
`MaxItems` items handed out and its budgets spent, a pipeline that has ended, a page whose user
does no more.

What the passing properties say, beyond types:

* `OneWorkerPerItem`: no item is converted twice at once, as long as the client awaits
  `queue.start`.  `InstallsSerial`: two pipelines of the queue, whatever batch they are of and whatever
  let them install, are in pacman together in two cases only: as items of one batch that was not
  asked to install and that had several clean reports (`parallel` 2 to 4), or once an
  exception has cut a batch short and left its pipelines to the next one (`stranded`).
  `OneInstallAtATime`, without these exceptions, is what the comment at `handlers_queue.py:262`
  says; the code does not keep it (`two_starters`).
* `RunningIsOwned`: an item shown as running is on its way, or was stranded by a failed
  launch.  `RegistryExact`: `queue.cancel` finds exactly what runs.
* `NoIdCollision`: after a restart, new ids never hit a row of unfinished work.
* `MemoryIsSaved`, `NoZombieRows`: the table holds what the memory holds, and a late
  worker does not revive a removed item.  The run has no crash; the theorems have.
* `ImplementsJobQueue`: the client's view of every item follows the abstract life cycle.
* `BatchEnds`, `PendingIsPicked`, `RunningSettles`: a batch ends, an item added before the
  last scan is picked up, and what was picked up gets its final status.
* `ConvertedIsKept`: whatever happens, the package of a `.deb` or `.rpm` is not deleted with
  the temporary directory and the result says where it is.
* `InstallNeedsConsent`, `TruthfulResult`: installation and its report.
* `BatchPipelineEnds`: a batch pipeline ends without anybody's help, or hangs in `hung`.
* `OwnAnswer`: until the page is reloaded, a call is settled by the response to its own request.
  `WaitsAreRegistered`: the relay waits for what its table
  holds, so that neither its time-out nor the reader finds a sender gone or forgotten.
  `ActivityTruthful`, `GuardTruthful`: the top bar's line and the warning that the sidecar is
  gone say what is so.  `ImplementsContract`: nothing is worked on twice, and no answer is made up.
* `OwnOutcome`, `AnswerReaches`: events, answers and the lambda that dismisses, none of which names a
  file, go to the right one: on the convert page with no batch beside it, its starts answered
  in time, and rendered before it is used; in the PyQt window for a user who adds and clears when
  all is done and cancels when no other file waits.
* `OwnAnswers`: what a page shows as the answer to its last question is that.  Of the summary of the
  reports page always; of checks, tools, comparison, AUR and cross-check on the first visit, while
  no call or check outlives its time-out; of the AUR moreover without the enter key during a
  search, and with information in the order asked for.
* `OneAtATime`: an installation of the band is not begun twice, always; nor is a conversion, on the
  conditions of `AnswerReaches`; nor an evented check, a transfer of the fleet page used by itself, a
  build from the AUR, on one visit and while nothing outlives its time-out; and an undo doubles
  no record, if changes of the history do not overlap and succeed.
* `RestIsTruthful`: when all calls are answered, the page shows what the sidecar has, if lists and looks
  succeed and are answered in their order; settings and schedule moreover with one writer
  at a time, the history as in `OneAtATime`, the profiles card on one visit.
* `NothingLost`: a stream of events has no gap that a full queue does not explain, always; a record of
  the history is in the table, on its way back or on offer, if changes do not overlap,
  none is added during one, and calls succeed.
* `ActiveExists`, `NoClearWhileRunning`: the active profile exists, on one visit of its card; the batch tab
  never clears or adds under a working dispatcher, while its calls are served in their order and
  `queue.start` is answered in time.
* `WaitsEnd`: a page waits only for what is under way, whatever failed, overtook or was left
  behind (the rough instances).
* `QueueDrains`, `DecisionArrives`, `RunAllEnds`, `CallsEnd`: what waits comes to its end, the first two
  because files dropped are finite in number: there is a time when none waits.  These two hold on a
  page rendered before it is used, with starts that time out; the first also beside a batch; the
  second but for a pipeline that another start has replaced.

Fairness: threads that can run do run (`WF` of each thread's step), a started process
ends, a queued call is delivered.  No request of a client is fair, no fault is fair.  In
`BatchQueue` a pipeline thread is assumed to end; `Pipeline` shows when that is not so
(`hung`), and a dispatcher would then wait in `Join`.  In `ConvertPage` three threads are fair, each as a whole: the
page's (`Render`, `Tick`, `Deliver`), the sidecar's main thread (`Handle`, `Signal`) and those of the
conversions (`Work`).  Nothing is asked of the user: a conversion the page starts dismisses itself.  In
`SecurityPage` handleRunAll goes on when what it awaits has come or its 180 s have passed, and
direct checks are answered.  In `Rpc` only the time-outs, the writing of a request and the
reader are fair: the sidecar may never answer, and calls end all the same.

## 4. What does not hold

The six runs marked *violated* check one such claim each.  Modelling the pages showed more,
with the instances of `Desktop` under other constants; they are why the calm instances are
what they are, and the conditions of section 3.

* `rpc.ts:14`: a reloaded page counts its ids from one, so that the answer to a call of the
  old page can settle one of the new (`OwnAnswer` excepts it).  `Tools.tsx:192` allows a rehearsal
  150 s, the relay gives up after 120.
* Pipeline: a cancellation that comes after the last look at the flag (`pipeline.py:729`) and before
  `install()` clears the helper's own (`installer.py:99`) is forgotten by the helper: pacman runs.
* Batch queue: convert-only items whose reports are clean install, several of one batch at the
  same time (`silent_install`, `InstallsSerial`).  `queue.cancel` may meet a registry that changes
  while it iterates (`handlers_queue.py:290`), which is an exception in Python and not in the model.
  In the model an input that has vanished does not come back.
  After a restart the row of a restored item may still say `running` while the
  memory says `pending` (`handlers_queue.py:96` writes nothing).  A `queue.clear` with
  `status="running"` then deletes the rows of items that wait (`MemoryIsSaved`), one with
  `status="pending"` leaves the row of an item it clears, which comes back (`NoZombieRows`).
  The desktop clears with no status (`Convert.tsx:431`), as `ClearArgs` does.  A write that
  fails and is swallowed may leave `running` in the row of an item that has ended, so that a
  restart takes finished work back: `ImplementsJobQueue` is claimed for a table that takes
  what is written (`MaxWriteFaults = 0`).
* Convert page: `Convert.tsx:158` "Mark the currently-running queue item" marks a row of
  the page's queue when an item of the batch ends (`handlers_queue.py:177`), and the report of a
  batch item may cover that of the page's own.  A refused `pipeline.start` stalls the queue until something
  else is dropped.  Two timers that fire before a render start two conversions
  (`RenderFirst`).  A `pipeline.start` that times out in the client (`Convert.tsx:130`) and starts all
  the same runs beside the next one, which takes its place in `transport._pipeline`: it can no longer be
  reached, and waits for ever if it has a report.  A `queue.start` that times out
  (`:400-402`) leaves a dispatcher that the batch tab does not know of, and clears under.
  The graph of an earlier package may be shown for the next (`:555`).
* Security page: `Security.tsx:166-168` runs the checks one after the other, but after the
  180 s of one have passed its thread goes on beside the next, whose result its event becomes; and so
  does the thread of a check, or of a tool, whose call timed out.
* Caches and events: `lib/cache.ts:1` says stale-while-revalidate, nothing revalidates.
  Exports share one event, so that of two under way the first to end ends both cards.
* Settings: without a lock in `http_api/meta.py:41` two settings changed at the same time may become
  one; the mark of unsaved changes compares with what was loaded before an import;
  `lib/lang.ts:3` keeps the language it read first while the top bar writes another; the top bar
  takes the theme when it is mounted; a save goes to the profile that is active then.  A
  deletion on one visit and a switch on the next may make an active profile that does not
  exist (`profiles.py:74`).  The D-Bus card stays busy if a start fails to answer
  (`Settings.tsx:343`).
* Scheduler: an interval set while a tick saves may lose the tick's stamp (`handlers_queue.py:358`), so
  that the task runs twice, and a stamp does not say that the task ran.
* Updates page: the event of a cross-check that was left behind by an earlier visit ends the
  check of a later one, and its report is shown as that one's.
* History: a record added between the fetch and the clearing is lost, as are those above
  10000; `clear_history` swallows errors, so that an undo may double what is still there; if
  its answer is lost there is no undo; two overlapping clears both undone double the
  rows; an undo from an earlier visit does not refresh the list; restored rows have lost
  two columns.
* AUR: the enter key searches during a search; the information of one package may appear under
  the name of another; a build may be begun beside one from an earlier visit.
* Event stream: events between subscription and copy come twice, and after newer ones if the
  ring has turned over; a full queue loses events without a word.
* PyQt window: `queue_manager.py:3` "one at a time" does not hold: a dropped file in the pause
  between two, the address dialog, or Ctrl+N start a second conversion, which drops the running thread
  and ends the program.  Clearing shifts the indexes under a running item.  A report left
  open after a cancellation answers the next file's pipeline.

## 5. Proofs

`PipelineProofs` (for any set of pipelines, any inputs):

* `TypeCorrect`: `TypeOK`, action by action.
* `KeepsConverted`: `ConvertedIsKept`.  It is not inductive: that the result names the
  package at the end needs that, from the moment there is a package, `preserve`, `result` and
  the temporary directory agree (`InHand`) until the cleanup settles it (`Settled`).
  `KeptInv` adds that the directory exists between `tools` and the cleanup, that `build` is
  not reached by a `.deb` or `.rpm`, and that a pipeline that is `off` has no package.
* `InstallInvariant`, from which `InstallsWithConsent` and `TellsTheTruth`: an installation is
  agreed to before it starts and the agreement is not withdrawn; the installer, once made,
  is the helper to the end; a process only runs in `exec`; a helper's own cancellation implies
  the pipeline's; success and installation imply each other as `TruthfulResult` says.

These assume `KindsAssumption` (the inputs are among the kinds the code has).

`BatchQueueProofs` (for any number of items, paths, requests and dispatchers, and any
budget of faults):

* `TypeCorrect`: `TypeOK`.  It needs `PosInv`: a dispatcher in `mark` or `launch` is at an
  item of its batch, which holds because `sort` is only reached with a non-empty snapshot.
* `DispatchInvariant`, under the hypothesis `OneStarter` (no two `queue.start` requests are
  served at the same time; the run `two_starters` shows what happens without it).  A thread
  that is about to set `_queue_running` finds it false, and it is true while a dispatcher is
  on, so at most one is (`OneOn`).  What a dispatcher has taken and not launched, no pipeline
  works on (`AheadFree`): a scan only takes pending items, an id some pipeline works on is not
  pending again before a restart (`WorkedTaken`), and the ids of a batch differ (`RankedIs`,
  from the order of the sort).  Every pipeline is behind the position of its dispatcher
  (`Behind`), and a dispatcher that installs takes one item (`BatchOk`).
* From it: `ConvertedOnce` (`OneWorkerPerItem`), `InstallsAreSerial` (`InstallsSerial`, with its two
  exceptions: another dispatcher's pipelines are there only if an exception cut its batch short,
  and a batch that was asked to install has one), `CancelReachesAll` (`RegistryExact`).

These assume `BoundsAssumption` and `NamesAssumption`.  The hypothesis `OneStarter` is about
the client: the handler does not enforce it; the desktop page disables its start button
(`batchRunning`, `Convert.tsx:390`) before it sends `queue.start`.

The second part of the module is about the table and about what a client sees:

* `TableInvariant`, with no hypothesis: what is in memory has an id up to `_queue_seq` (`QueueOld`),
  what is being removed is out of memory unless its id was handed out meanwhile (`RemoveGone`), and a
  row beyond `_queue_seq` is of finished work, which a restart does not bring back.  From it `IdsDoNotCollide` (`NoIdCollision`).
* `SavedInvariant`, if `queue.clear` is not asked for pending or running items by status
  (`WholeClears`; section 4 says what happens otherwise): to `MemoryIsSaved` and `NoZombieRows`,
  which say of the table what is to be proved, it adds that a removal under way deletes no row of
  an item in memory but such a one, nor does a clear that has emptied the memory, unless
  the item was added meanwhile (`ClearHarmless`).
  Then `MemoryStaysSaved` (`MemoryIsSaved`) and `RemovedStaysRemoved` (`NoZombieRows`), with any
  number of requests, failing writes and restarts.
* `RunningHasOwner` (`RunningIsOwned`), with no hypothesis; it is inductive.
* `StatusInvariant` and `QueueIsAJobQueue` (`ImplementsJobQueue`), under `OneClient`: one
  `queue.start` at a time and no failing write.  Each step of the queue maps to a step of
  `JobQueue` or to a stutter.  What has to be known for that is that an item a dispatcher has
  taken and not launched is pending (`AheadPending`), that one a pipeline works on is running or was
  removed (`WorkedRunning`), and that the row of an item that has ended says so
  (`RowsAgree`), so that a restart takes back unfinished work only.

`RpcProofs` (for any finite set of calls, any of them long):

* `TypeCorrect` (`TypeOK`), `ActivityIsTruthful` (`ActivityTruthful`): the counter of `rpc.ts` equals the number
  of calls that wait, for which the cardinality of that set is followed through every action.
* `GuardIsTruthful` (`GuardTruthful`), `WaitsRegistered` (`WaitsAreRegistered`).
* `AnswersAreOwn` (`OwnAnswer`).  It is not inductive: nothing in it says where a response
  comes from.  `OwnInv` adds that nothing is registered, sent or answered for a call that has
  not been made (`NothingEarly`), that before a reload no two calls have one id (`IdsOnce`), and
  that what the relay hands over is the response to some request (`ValueIsReal`) and to the right
  one (`ValueIsOwn`).
* `ContractImplemented` (`ImplementsContract`): `Init` maps to the contract's, and every step to one of its steps
  or to a stutter.

These assume `CallsAssumption` (the calls are finite in number, and "no call" is none of them).

`ConvertPageProofs` (for any files, any of them refused, any number of drops and requests),
under `Alone`: no batch runs, no start times out (`Late`), and the page is rendered before drops, clicks
and timers find it (`RenderFirst`); section 4 says what happens without.  Of the user nothing is
assumed.

* `PageInvariant`: the page is in one of four phases (nothing is converted; a request to start
  is on its way; a pipeline works or waits; one has ended and its event is on its way), and in
  each the queue, what was rendered of it, timers, requests, signals, events and report agree on
  which file it is; a mark in the queue is the outcome of its file.  None of the three
  properties below is inductive by itself: `onFinished` marks the row that says `running`, which
  is the right one only as long as there is one such row and one pipeline.
* From it `OutcomeIsOwn`, `OneAtATime` (`OneConversion`), `AnswersReach`, `TypeCorrect`.

`UpdatesPageProofs` (for any intervals, times, calls, visits):

* `PageInvariant`, with no hypothesis but `UpdatesAssumption`, calls failing, overtaking and
  left behind included: from it `TypeCorrect`, `WaitsHaveAnEnd` (`WaitsEnd`) and, if calls are answered
  one by one and in time (`Serial`), `ReportIsOwn` (`OwnReport`).
* `FileInvariant`, under `AloneAndSerial` (the settings page saves nothing, and what writes the
  schedule comes one after the other; section 4 says what happens without): what a writer has
  loaded and not saved yet is what the file has, and no two have; and the last call that
  concerns the card brings it up to date.  From it `CardIsTruthful`.

`PanelsProofs` and `MorePanelsProofs` (the instances of `Panels`, for any values of its constants
that satisfy `PanelsAssumption`).  Each part takes one instance.  The first module has the event
stream, the PyQt window, the band of the convert page, the fleet page, the batch tab, the profiles,
the AUR and the reports; the second has the others.

* Event stream: `StreamInvariant`.  The ring holds the last events published, in their order.  What a
  stream has written, the rest of its copy and its queue, put one after the other (`Tale`), are
  every event from the first on but those a full queue dropped, and ascend but for what
  came twice because it was published between subscription and copy (`between`).
  From it `NoEventIsMissed` (`NoGap`), `EventsKeepTheirOrder` (`OrderKept`), `BusTypeCorrect`.
* PyQt window: `QtTypeCorrect` and `NoFileIsForgotten` (`NeverStalls`), for any user: a timer or a
  question follows each conversion that ended (`Followed`, which counts them), and every action
  that takes one away looks for the next file.  `PatientInvariant`, for a user who adds and clears
  when all is done and cancels only when no other file waits (`PatientUser`; section 4 says what
  happens to others): there is a thread, a timer or a question, and never two of them; a report
  on the screen is that of the thread, or of one that was cancelled, and then no file waits; the
  thread's index is that of its file.  From it `OneAtATime`, `OutcomeIsOwn`, `AnswersReach`.
  A filter of the list is written as the positions that are kept, in their order (`InOrder`),
  because the provers cannot expand `SelectSeq`.
* Installed page: `HistoryInvariant`, under `CalmUse` (one change at a time, calls that succeed): a
  record is in exactly one place, the table, an undo on offer, or the call that carries it from
  one to the other (`Copies`, `Carries`), and in some place from its recording until the user
  lets it go; a list that was asked for after the last change is what the table has.  From it
  `NothingIsLost`, `NothingComesTwice`, `ListIsTruthful`, `InstalledTypeCorrect`.  `SkeletonsEnd`
  (`SpinnersEnd`) holds whatever fails, overtakes or is left behind.
* Security page: `ChecksAreOwn` (`SequentialChecks`, `OwnResult`) and `SpinnerIsExact`
  (`LoadingExact`), on one visit and if no call and no check outlives its time-out (`SecurityOnce`): the step of
  handleRunAll, the listener and the thread agree on the check that runs, and there is one of
  each.  `SecurityRests` (`NoStuckLoading`) without these hypotheses.
* Tools and comparison: `ToolsAnswer`, `CompareAnswer` (`OwnAnswerShown`) on one visit and if no call times
  out, because an event that was left behind is heard on the next visit, and by the next call; `ToolsRest`, `CompareRest` on any.
* AUR: `BrowseKeeps` (`OneBuild`, `OwnResults`) on one visit, without the enter key during a search, and
  with calls that succeed in time and in order (`BrowseOnce`): builds and searches cannot then
  overlap, and what is left to prove is that the buttons keep them apart.  `BrowseRests` for any.
* Fleet page: `TransfersAlone` (`OneTransfer`) if the card on the settings page is not used beside it
  and on one visit (`FleetOnce`); `CloudRests` without.
* Reports, export and the band of the convert page: `SummaryIsCurrent`, `ReportsRest`, `ExportRests`,
  `OneInstallation`, `ActionsRest`, with no hypothesis.  A spinner has a call or an event to end it
  and the page listens for that event, across the visits and the cards that share it.
* Batch tab: `BatchInvariant` (`ClearsAtRest`), if calls are served in their order and succeed in time: of a start that is
  asked for, the dispatcher, and the event of its end there is one at most (`OneRun`), and the tab
  knows of it (`TabKnows`).  On the same condition `BatchTrue` (`ListTruthful`); `BatchWaitsEnd` also if calls
  fail or time out.
* What a page shows at rest: `SnapshotsTrue`, `PluginsTrue`, `CardsTrue` (profiles and D-Bus; one
  visit, since a change of an earlier one brings no list to the next), `SettingsTrue` (`PageAlone`:
  the top bar does not write meanwhile, and an import sets every key), `TopbarTrue` (one writer, one call at a time).
  Their common argument: the last list, status or file that is under way will show
  what there is when it is answered, and if none is under way the page shows it; so each change must
  be followed by a list, and what has looked already must not be overtaken by a change without
  one.  `CardsActiveExists` (`ActiveExists`), and `SnapshotsRest`, `PluginsRest`, `SettingsRest`,
  `CardsRest` for waits, whatever fails and overtakes.

`DesktopProofs`: what the run `desktop` checks, as theorems of `Desktop`.

* The instances that the theorems are about are the desktop's own, definition by definition
  (`SameConvert` and so on).  The choice of a subject is made in the initial state and stays
  (`ChoiceStays`), so a behaviour of the desktop is one of the page it chose, or never concerns that
  page (`ConvertRuns` and so on); with that a page's invariant is the desktop's.
* What a theorem assumes of user, sidecar and network is in the calm instances it is about, and section 3
  names it: the convert page alone, in time and rendered first; the patient user of the PyQt window;
  calls that succeed, in order and in time; one change of the history at a time.  These are not
  hypotheses in the statement of the theorems but values `CalmPages` gives to `RenderFirst`, `Late`,
  `Patient`, `Ordered`, `Calm`, `Serial`, `CanExpire`.  `OutcomesAreOwn`, `AnswersReach`, `NothingIsLost`
  and `ClearsOnlyAtRest` need no more than that and `DesktopAssumption`.  `AnswersAreOwn`, `NothingRunsTwice`,
  `RestShowsTheTruth`, `ActiveProfileExists` and `WaitsComeToAnEnd` moreover have as hypotheses that some
  of the calm pages are opened once (`Once`), that the calm fleet page transfers alone, that calm
  imports are complete.  The run takes the same values; section 4 says what happens otherwise.

They assume `DesktopAssumption`.  Of constants it says, beyond their kind, that `None` and the
names a page uses for itself (`default`, `__audit__`, `fleet`, ...) are not names of what a user
installs or creates.

Only model-checked: the liveness properties (`BatchEnds`, `PendingIsPicked`, `RunningSettles`,
`BatchPipelineEnds`, `QueueDrains`, `DecisionArrives`, `RunAllEnds`, `CallsEnd`), which are out of
the prover's reach, as is `ENABLED`; `PagesTypeOK`, of which the types of the PyQt window, the event stream,
the convert page, the updates page and the calm installed page are proved; and the order in which
`queue.start` sorts, of which the proofs use only that it is an order.

## 6. Plan

1. The convert page beside a batch, and with starts that time out: what of its `PageInvariant` is left
   when `finished` events come that are not its own, and when two pipelines run.
2. Second visits: which of the answers of an earlier visit can be told apart by what the
   sidecar sends today, and what a call number in the events would make provable.
3. The batch tab with `queue.*` calls that overtake each other: each has a thread of its own.
4. The types of the remaining pages, whose counts the rough instances bound by their calls only.

## 7. Not modelled

See `components` in `PROJECT.json`.  The pure checks and the generators of documents have no state
that steps can interleave on; the wrappers of external tools would be models of those
tools; the sequential file stores (index files, secrets, caches) are read and written
by one thread.  The framing of the sidecar's input, the mode without PyQt and a second
pipeline in `transport._pipeline` are left out of modelled components, each for its state
space.  The texts of the desktop (`lib/i18n.ts`), its types (`lib/types.ts`) and the layout of its
pages have no behaviour.
