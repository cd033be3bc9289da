--------------------------- MODULE DesktopProofs ---------------------------
(***************************************************************************)
(* What the runs of the desktop check, for every value of its constants.   *)
(* The theorems about its pages are in modules of their own: here they     *)
(* become theorems about the desktop, first those about the calm pages,    *)
(* which hold on the conditions that calm stands for and each theorem      *)
(* names, then what the rough ones keep, whose calls fail and overtake     *)
(* each other.                                                             *)
(***************************************************************************)
EXTENDS Desktop, TLAPS

\* The calm pages, with their proofs
ConvertT   == INSTANCE ConvertPageProofs WITH
    Paths <- Droppable[FALSE], Late <- IF FALSE THEN Droppable[FALSE] ELSE {},
    Refusable <- Refusable[FALSE], Batch <- {},
    MaxDrops <- Jobs[FALSE]["convert"], MaxRequests <- 1, RenderFirst <- TRUE
UpdatesT   == INSTANCE UpdatesPageProofs WITH
    Serial <- ~FALSE, Others <- FALSE, Intervals <- Intervals[FALSE], MaxTime <- MaxTime[FALSE],
    MaxJobs <- Jobs[FALSE]["updates"], MaxVisits <- Visits[FALSE]["updates"]
CalmProofs == INSTANCE MorePanelsProofs WITH
    Rough <- FALSE, Jobs <- Jobs[FALSE], Visits <- Visits[FALSE], Packages <- Packages[FALSE],
    SomeProfiles <- SomeProfiles[FALSE], Imports <- Imports[FALSE],
    CloudPages <- CloudPages[FALSE], MaxItems <- MaxItems[FALSE], MaxShift <- MaxShift[FALSE],
    Records <- Records[FALSE]

Chosen(s) == subject = s
IsCalm(s) == subject = s /\ ~rough

-----------------------------------------------------------------------------
(* The pages that the theorems are about are those of the desktop *)

LEMMA SameConvert ==
  /\ (CalmPages!Convert!ConvertPageAssumption <=> ConvertT!ConvertPageAssumption)
  /\ (CalmPages!Convert!Init <=> ConvertT!Init)
  /\ (CalmPages!Convert!Next <=> ConvertT!Next)
  /\ CalmPages!Convert!vars = ConvertT!vars
  /\ (CalmPages!Convert!OwnOutcome <=> ConvertT!OwnOutcome)
  /\ (CalmPages!Convert!AnswerReaches <=> ConvertT!AnswerReaches)
  /\ (CalmPages!Convert!OneConversion <=> ConvertT!OneConversion)
  BY Zenon DEF
    CalmPages!Convert!Cardinality, ConvertT!Cardinality,
    CalmPages!Convert!ConvertPageAssumption, ConvertT!ConvertPageAssumption,
    CalmPages!Convert!page, ConvertT!page, CalmPages!Convert!sidecar, ConvertT!sidecar,
    CalmPages!Convert!vars, ConvertT!vars, CalmPages!Convert!pipelines, ConvertT!pipelines,
    CalmPages!Convert!Conversions, ConvertT!Conversions, CalmPages!Convert!Init,
    ConvertT!Init, CalmPages!Convert!Marked, ConvertT!Marked, CalmPages!Convert!FirstOf,
    ConvertT!FirstOf, CalmPages!Convert!StartNext, ConvertT!StartNext,
    CalmPages!Convert!Rendered, ConvertT!Rendered, CalmPages!Convert!Settled,
    ConvertT!Settled, CalmPages!Convert!Render, ConvertT!Render, CalmPages!Convert!AddPath,
    ConvertT!AddPath, CalmPages!Convert!Tick, ConvertT!Tick, CalmPages!Convert!ClickStart,
    ConvertT!ClickStart, CalmPages!Convert!RemoveItem, ConvertT!RemoveItem,
    CalmPages!Convert!SendWord, ConvertT!SendWord, CalmPages!Convert!Decide,
    ConvertT!Decide, CalmPages!Convert!AskCancel, ConvertT!AskCancel,
    CalmPages!Convert!AnswerCancel, ConvertT!AnswerCancel, CalmPages!Convert!OnRefused,
    ConvertT!OnRefused, CalmPages!Convert!StartTimesOut, ConvertT!StartTimesOut,
    CalmPages!Convert!OnReady, ConvertT!OnReady, CalmPages!Convert!OnFinished,
    ConvertT!OnFinished, CalmPages!Convert!Deliver, ConvertT!Deliver,
    CalmPages!Convert!Active, ConvertT!Active, CalmPages!Convert!Event, ConvertT!Event,
    CalmPages!Convert!HandleStart, ConvertT!HandleStart, CalmPages!Convert!Told,
    ConvertT!Told, CalmPages!Convert!HandleWord, ConvertT!HandleWord,
    CalmPages!Convert!Handle, ConvertT!Handle, CalmPages!Convert!Signal, ConvertT!Signal,
    CalmPages!Convert!Emit, ConvertT!Emit, CalmPages!Convert!Ready, ConvertT!Ready,
    CalmPages!Convert!Finish, ConvertT!Finish, CalmPages!Convert!BatchStart,
    ConvertT!BatchStart, CalmPages!Convert!Work, ConvertT!Work, CalmPages!Convert!Next,
    ConvertT!Next, CalmPages!Convert!OwnOutcome, ConvertT!OwnOutcome,
    CalmPages!Convert!OneConversion, ConvertT!OneConversion,
    CalmPages!Convert!AnswerReaches, ConvertT!AnswerReaches

LEMMA SameQt ==
  /\ (CalmPages!Qt!QtQueueAssumption <=> CalmProofs!Qt!QtQueueAssumption)
  /\ (CalmPages!Qt!Init <=> CalmProofs!Qt!Init)
  /\ (CalmPages!Qt!Next <=> CalmProofs!Qt!Next)
  /\ CalmPages!Qt!vars = CalmProofs!Qt!vars
  /\ (CalmPages!Qt!OwnOutcome <=> CalmProofs!Qt!OwnOutcome)
  /\ (CalmPages!Qt!AnswerReaches <=> CalmProofs!Qt!AnswerReaches)
  /\ (CalmPages!Qt!OneConversion <=> CalmProofs!Qt!OneConversion)
  /\ (CalmPages!Qt!NeverStalls <=> CalmProofs!Qt!NeverStalls)
  BY Zenon DEF
    CalmPages!Qt!Cardinality, CalmProofs!Qt!Cardinality, CalmPages!Qt!Range,
    CalmProofs!Qt!Range, CalmPages!Qt!Last, CalmProofs!Qt!Last, CalmPages!Qt!Front,
    CalmProofs!Qt!Front, CalmPages!Qt!Files, CalmProofs!Qt!Files, CalmPages!Qt!vars,
    CalmProofs!Qt!vars, CalmPages!Qt!Thread, CalmProofs!Qt!Thread,
    CalmPages!Qt!QtQueueAssumption, CalmProofs!Qt!QtQueueAssumption, CalmPages!Qt!Init,
    CalmProofs!Qt!Init, CalmPages!Qt!PendingIn, CalmProofs!Qt!PendingIn,
    CalmPages!Qt!AtRest, CalmProofs!Qt!AtRest, CalmPages!Qt!StartNext,
    CalmProofs!Qt!StartNext, CalmPages!Qt!InOrder, CalmProofs!Qt!InOrder,
    CalmPages!Qt!OnFilesDropped, CalmProofs!Qt!OnFilesDropped, CalmPages!Qt!Drop,
    CalmProofs!Qt!Drop, CalmPages!Qt!Download, CalmProofs!Qt!Download,
    CalmPages!Qt!TimerFires, CalmProofs!Qt!TimerFires, CalmPages!Qt!ResetUi,
    CalmProofs!Qt!ResetUi, CalmPages!Qt!Runs, CalmProofs!Qt!Runs, CalmPages!Qt!Report,
    CalmProofs!Qt!Report, CalmPages!Qt!EndsWith, CalmProofs!Qt!EndsWith,
    CalmPages!Qt!Fails, CalmProofs!Qt!Fails, CalmPages!Qt!IsDecided,
    CalmProofs!Qt!IsDecided, CalmPages!Qt!OnCancel, CalmProofs!Qt!OnCancel,
    CalmPages!Qt!OnCompatibilityReady, CalmProofs!Qt!OnCompatibilityReady,
    CalmPages!Qt!AnswerReport, CalmProofs!Qt!AnswerReport, CalmPages!Qt!Later,
    CalmProofs!Qt!Later, CalmPages!Qt!OnPipelineFinished, CalmProofs!Qt!OnPipelineFinished,
    CalmPages!Qt!AnswerLaunch, CalmProofs!Qt!AnswerLaunch, CalmPages!Qt!Next,
    CalmProofs!Qt!Next, CalmPages!Qt!OneConversion, CalmProofs!Qt!OneConversion,
    CalmPages!Qt!OwnOutcome, CalmProofs!Qt!OwnOutcome, CalmPages!Qt!AnswerReaches,
    CalmProofs!Qt!AnswerReaches, CalmPages!Qt!NeverStalls, CalmProofs!Qt!NeverStalls

LEMMA SameSecurity ==
  /\ (CalmPages!Security!SecurityAssumption <=> CalmProofs!Security!SecurityAssumption)
  /\ (CalmPages!Security!Init <=> CalmProofs!Security!Init)
  /\ (CalmPages!Security!Next <=> CalmProofs!Security!Next)
  /\ CalmPages!Security!vars = CalmProofs!Security!vars
  /\ (CalmPages!Security!SequentialChecks <=> CalmProofs!Security!SequentialChecks)
  /\ (CalmPages!Security!OwnResult <=> CalmProofs!Security!OwnResult)
  /\ (CalmPages!Security!LoadingExact <=> CalmProofs!Security!LoadingExact)
  BY Zenon DEF
    CalmPages!Security!Cardinality, CalmProofs!Security!Cardinality,
    CalmPages!Security!SecurityAssumption, CalmProofs!Security!SecurityAssumption,
    CalmPages!Security!vars, CalmProofs!Security!vars, CalmPages!Security!Checks,
    CalmProofs!Security!Checks, CalmPages!Security!Blank, CalmProofs!Security!Blank,
    CalmPages!Security!Init, CalmProofs!Security!Init, CalmPages!Security!Tone,
    CalmProofs!Security!Tone, CalmPages!Security!TabContent,
    CalmProofs!Security!TabContent, CalmPages!Security!SelectTab,
    CalmProofs!Security!SelectTab, CalmPages!Security!SetPath, CalmProofs!Security!SetPath,
    CalmPages!Security!Room, CalmProofs!Security!Room, CalmPages!Security!Issue,
    CalmProofs!Security!Issue, CalmPages!Security!requirePath,
    CalmProofs!Security!requirePath, CalmPages!Security!Press, CalmProofs!Security!Press,
    CalmPages!Security!PressAll, CalmProofs!Security!PressAll, CalmPages!Security!Advanced,
    CalmProofs!Security!Advanced, CalmPages!Security!NextCheck,
    CalmProofs!Security!NextCheck, CalmPages!Security!Bind, CalmProofs!Security!Bind,
    CalmPages!Security!Expire, CalmProofs!Security!Expire, CalmPages!Security!EndRun,
    CalmProofs!Security!EndRun, CalmPages!Security!ResultOf, CalmProofs!Security!ResultOf,
    CalmPages!Security!Respond, CalmProofs!Security!Respond, CalmPages!Security!TimesOut,
    CalmProofs!Security!TimesOut, CalmPages!Security!Done, CalmProofs!Security!Done,
    CalmPages!Security!Reopen, CalmProofs!Security!Reopen, CalmPages!Security!GoOn,
    CalmProofs!Security!GoOn, CalmPages!Security!Next, CalmProofs!Security!Next,
    CalmPages!Security!OwnResult, CalmProofs!Security!OwnResult,
    CalmPages!Security!Working, CalmProofs!Security!Working,
    CalmPages!Security!LoadingExact, CalmProofs!Security!LoadingExact,
    CalmPages!Security!SequentialChecks, CalmProofs!Security!SequentialChecks

LEMMA SameTools ==
  /\ (CalmPages!Tools!ToolsAssumption <=> CalmProofs!Tools!ToolsAssumption)
  /\ (CalmPages!Tools!Init <=> CalmProofs!Tools!Init)
  /\ (CalmPages!Tools!Next <=> CalmProofs!Tools!Next)
  /\ CalmPages!Tools!vars = CalmProofs!Tools!vars
  /\ (CalmPages!Tools!OwnAnswerShown <=> CalmProofs!Tools!OwnAnswerShown)
  BY Zenon DEF
    CalmPages!Tools!ToolsAssumption, CalmProofs!Tools!ToolsAssumption,
    CalmPages!Tools!Tools, CalmProofs!Tools!Tools, CalmPages!Tools!vars,
    CalmProofs!Tools!vars, CalmPages!Tools!Quiet, CalmProofs!Tools!Quiet,
    CalmPages!Tools!Nobody, CalmProofs!Tools!Nobody, CalmPages!Tools!Init,
    CalmProofs!Tools!Init, CalmPages!Tools!Open, CalmProofs!Tools!Open,
    CalmPages!Tools!Leave, CalmProofs!Tools!Leave, CalmPages!Tools!Card,
    CalmProofs!Tools!Card, CalmPages!Tools!Submit, CalmProofs!Tools!Submit,
    CalmPages!Tools!handleRpm, CalmProofs!Tools!handleRpm, CalmPages!Tools!handleAbi,
    CalmProofs!Tools!handleAbi, CalmPages!Tools!handleAudit, CalmProofs!Tools!handleAudit,
    CalmPages!Tools!handleScan, CalmProofs!Tools!handleScan, CalmPages!Tools!handleAttest,
    CalmProofs!Tools!handleAttest, CalmPages!Tools!handlePublish,
    CalmProofs!Tools!handlePublish, CalmPages!Tools!handleRehearse,
    CalmProofs!Tools!handleRehearse, CalmPages!Tools!handleCompare,
    CalmProofs!Tools!handleCompare, CalmPages!Tools!Settle, CalmProofs!Tools!Settle,
    CalmPages!Tools!Done, CalmProofs!Tools!Done, CalmPages!Tools!Respond,
    CalmProofs!Tools!Respond, CalmPages!Tools!TimesOut, CalmProofs!Tools!TimesOut,
    CalmPages!Tools!Next, CalmProofs!Tools!Next, CalmPages!Tools!OwnAnswerShown,
    CalmProofs!Tools!OwnAnswerShown

LEMMA SameCompare ==
  /\ (CalmPages!Compare!ToolsAssumption <=> CalmProofs!Compare!ToolsAssumption)
  /\ (CalmPages!Compare!Init <=> CalmProofs!Compare!Init)
  /\ (CalmPages!Compare!Next <=> CalmProofs!Compare!Next)
  /\ CalmPages!Compare!vars = CalmProofs!Compare!vars
  /\ (CalmPages!Compare!OwnAnswerShown <=> CalmProofs!Compare!OwnAnswerShown)
  BY Zenon DEF
    CalmPages!Compare!ToolsAssumption, CalmProofs!Compare!ToolsAssumption,
    CalmPages!Compare!Tools, CalmProofs!Compare!Tools, CalmPages!Compare!vars,
    CalmProofs!Compare!vars, CalmPages!Compare!Quiet, CalmProofs!Compare!Quiet,
    CalmPages!Compare!Nobody, CalmProofs!Compare!Nobody, CalmPages!Compare!Init,
    CalmProofs!Compare!Init, CalmPages!Compare!Open, CalmProofs!Compare!Open,
    CalmPages!Compare!Leave, CalmProofs!Compare!Leave, CalmPages!Compare!Card,
    CalmProofs!Compare!Card, CalmPages!Compare!Submit, CalmProofs!Compare!Submit,
    CalmPages!Compare!handleRpm, CalmProofs!Compare!handleRpm, CalmPages!Compare!handleAbi,
    CalmProofs!Compare!handleAbi, CalmPages!Compare!handleAudit,
    CalmProofs!Compare!handleAudit, CalmPages!Compare!handleScan,
    CalmProofs!Compare!handleScan, CalmPages!Compare!handleAttest,
    CalmProofs!Compare!handleAttest, CalmPages!Compare!handlePublish,
    CalmProofs!Compare!handlePublish, CalmPages!Compare!handleRehearse,
    CalmProofs!Compare!handleRehearse, CalmPages!Compare!handleCompare,
    CalmProofs!Compare!handleCompare, CalmPages!Compare!Settle, CalmProofs!Compare!Settle,
    CalmPages!Compare!Done, CalmProofs!Compare!Done, CalmPages!Compare!Respond,
    CalmProofs!Compare!Respond, CalmPages!Compare!TimesOut, CalmProofs!Compare!TimesOut,
    CalmPages!Compare!Next, CalmProofs!Compare!Next, CalmPages!Compare!OwnAnswerShown,
    CalmProofs!Compare!OwnAnswerShown

LEMMA SameReports ==
  /\ (CalmPages!Reports!Init <=> CalmProofs!Reports!Init)
  /\ (CalmPages!Reports!Next <=> CalmProofs!Reports!Next)
  /\ CalmPages!Reports!vars = CalmProofs!Reports!vars
  /\ (CalmPages!Reports!WrappedIsCurrent <=> CalmProofs!Reports!WrappedIsCurrent)
  /\ (CalmPages!Reports!SpinnersEnd <=> CalmProofs!Reports!SpinnersEnd)
  /\ (CalmPages!Reports!NeverBlank <=> CalmProofs!Reports!NeverBlank)
  BY Zenon DEF
    CalmPages!Reports!Kinds, CalmProofs!Reports!Kinds, CalmPages!Reports!Threaded,
    CalmProofs!Reports!Threaded, CalmPages!Reports!health, CalmProofs!Reports!health,
    CalmPages!Reports!vars, CalmProofs!Reports!vars, CalmPages!Reports!Nothing,
    CalmProofs!Reports!Nothing, CalmPages!Reports!AtRest, CalmProofs!Reports!AtRest,
    CalmPages!Reports!Closed, CalmProofs!Reports!Closed, CalmPages!Reports!NoError,
    CalmProofs!Reports!NoError, CalmPages!Reports!Init, CalmProofs!Reports!Init,
    CalmPages!Reports!HealthCard, CalmProofs!Reports!HealthCard,
    CalmPages!Reports!Exportable, CalmProofs!Reports!Exportable,
    CalmPages!Reports!BenchmarkCard, CalmProofs!Reports!BenchmarkCard,
    CalmPages!Reports!RollbackCard, CalmProofs!Reports!RollbackCard,
    CalmPages!Reports!Doctor, CalmProofs!Reports!Doctor, CalmPages!Reports!WrappedView,
    CalmProofs!Reports!WrappedView, CalmPages!Reports!Call, CalmProofs!Reports!Call,
    CalmPages!Reports!cacheGet, CalmProofs!Reports!cacheGet, CalmPages!Reports!Open,
    CalmProofs!Reports!Open, CalmPages!Reports!Leave, CalmProofs!Reports!Leave,
    CalmPages!Reports!Refresh, CalmProofs!Reports!Refresh, CalmPages!Reports!Expire,
    CalmProofs!Reports!Expire, CalmPages!Reports!Submit, CalmProofs!Reports!Submit,
    CalmPages!Reports!handleBenchmark, CalmProofs!Reports!handleBenchmark,
    CalmPages!Reports!handleVerifyRollback, CalmProofs!Reports!handleVerifyRollback,
    CalmPages!Reports!runDoctor, CalmProofs!Reports!runDoctor,
    CalmPages!Reports!OpenWrapped, CalmProofs!Reports!OpenWrapped,
    CalmPages!Reports!CloseWrapped, CalmProofs!Reports!CloseWrapped,
    CalmPages!Reports!Here, CalmProofs!Reports!Here, CalmPages!Reports!HealthAnswer,
    CalmProofs!Reports!HealthAnswer, CalmPages!Reports!ThreadDone,
    CalmProofs!Reports!ThreadDone, CalmPages!Reports!Refused, CalmProofs!Reports!Refused,
    CalmPages!Reports!DoctorAnswer, CalmProofs!Reports!DoctorAnswer,
    CalmPages!Reports!WrappedAnswer, CalmProofs!Reports!WrappedAnswer,
    CalmPages!Reports!Next, CalmProofs!Reports!Next, CalmPages!Reports!NeverBlank,
    CalmProofs!Reports!NeverBlank, CalmPages!Reports!SpinnersEnd,
    CalmProofs!Reports!SpinnersEnd, CalmPages!Reports!WrappedIsCurrent,
    CalmProofs!Reports!WrappedIsCurrent

LEMMA SameCards ==
  /\ (CalmPages!Cards!ProfilesAssumption <=> CalmProofs!Cards!ProfilesAssumption)
  /\ (CalmPages!Cards!Init <=> CalmProofs!Cards!Init)
  /\ (CalmPages!Cards!Next <=> CalmProofs!Cards!Next)
  /\ CalmPages!Cards!vars = CalmProofs!Cards!vars
  /\ (CalmPages!Cards!ActiveExists <=> CalmProofs!Cards!ActiveExists)
  /\ (CalmPages!Cards!CardsTruthful <=> CalmProofs!Cards!CardsTruthful)
  BY Zenon DEF
    CalmPages!Cards!Cardinality, CalmProofs!Cards!Cardinality,
    CalmPages!Cards!ProfilesAssumption, CalmProofs!Cards!ProfilesAssumption,
    CalmPages!Cards!Profiles, CalmProofs!Cards!Profiles, CalmPages!Cards!Changes,
    CalmProofs!Cards!Changes, CalmPages!Cards!page, CalmProofs!Cards!page,
    CalmPages!Cards!disk, CalmProofs!Cards!disk, CalmPages!Cards!vars,
    CalmProofs!Cards!vars, CalmPages!Cards!Init, CalmProofs!Cards!Init,
    CalmPages!Cards!Request, CalmProofs!Cards!Request, CalmPages!Cards!Room,
    CalmProofs!Cards!Room, CalmPages!Cards!Call, CalmProofs!Cards!Call,
    CalmPages!Cards!Open, CalmProofs!Cards!Open, CalmPages!Cards!Leave,
    CalmProofs!Cards!Leave, CalmPages!Cards!SelectTab, CalmProofs!Cards!SelectTab,
    CalmPages!Cards!Card, CalmProofs!Cards!Card, CalmPages!Cards!Row, CalmProofs!Cards!Row,
    CalmPages!Cards!Change, CalmProofs!Cards!Change, CalmPages!Cards!handleCreateProfile,
    CalmProofs!Cards!handleCreateProfile, CalmPages!Cards!handleSwitchProfile,
    CalmProofs!Cards!handleSwitchProfile, CalmPages!Cards!handleDeleteProfile,
    CalmProofs!Cards!handleDeleteProfile, CalmPages!Cards!confirmDeleteProfile,
    CalmProofs!Cards!confirmDeleteProfile, CalmPages!Cards!CancelDelete,
    CalmProofs!Cards!CancelDelete, CalmPages!Cards!DbusOffers, CalmProofs!Cards!DbusOffers,
    CalmPages!Cards!handleDbusStart, CalmProofs!Cards!handleDbusStart, CalmPages!Cards!To,
    CalmProofs!Cards!To, CalmPages!Cards!Accepts, CalmProofs!Cards!Accepts,
    CalmPages!Cards!Look, CalmProofs!Cards!Look, CalmPages!Cards!Act, CalmProofs!Cards!Act,
    CalmPages!Cards!Read, CalmProofs!Cards!Read, CalmPages!Cards!Start,
    CalmProofs!Cards!Start, CalmPages!Cards!Here, CalmProofs!Cards!Here,
    CalmPages!Cards!Changed, CalmProofs!Cards!Changed, CalmPages!Cards!Listed,
    CalmProofs!Cards!Listed, CalmPages!Cards!Looked, CalmProofs!Cards!Looked,
    CalmPages!Cards!DbusDone, CalmProofs!Cards!DbusDone, CalmPages!Cards!DbusRefused,
    CalmProofs!Cards!DbusRefused, CalmPages!Cards!Next, CalmProofs!Cards!Next,
    CalmPages!Cards!ActiveExists, CalmProofs!Cards!ActiveExists,
    CalmPages!Cards!CardsTruthful, CalmProofs!Cards!CardsTruthful

LEMMA SameCloud ==
  /\ (CalmPages!Cloud!CloudAssumption <=> CalmProofs!Cloud!CloudAssumption)
  /\ (CalmPages!Cloud!Init <=> CalmProofs!Cloud!Init)
  /\ (CalmPages!Cloud!Next <=> CalmProofs!Cloud!Next)
  /\ CalmPages!Cloud!vars = CalmProofs!Cloud!vars
  /\ (CalmPages!Cloud!OneTransfer <=> CalmProofs!Cloud!OneTransfer)
  BY Zenon DEF
    CalmPages!Cloud!CloudAssumption, CalmProofs!Cloud!CloudAssumption,
    CalmPages!Cloud!Transfers, CalmProofs!Cloud!Transfers, CalmPages!Cloud!Direct,
    CalmProofs!Cloud!Direct, CalmPages!Cloud!vars, CalmProofs!Cloud!vars,
    CalmPages!Cloud!Init, CalmProofs!Cloud!Init, CalmPages!Cloud!Call,
    CalmProofs!Cloud!Call, CalmPages!Cloud!OpenFleet, CalmProofs!Cloud!OpenFleet,
    CalmPages!Cloud!FleetCard, CalmProofs!Cloud!FleetCard, CalmPages!Cloud!RefreshFleet,
    CalmProofs!Cloud!RefreshFleet, CalmPages!Cloud!FleetSync, CalmProofs!Cloud!FleetSync,
    CalmPages!Cloud!OpenSettings, CalmProofs!Cloud!OpenSettings, CalmPages!Cloud!EditUrl,
    CalmProofs!Cloud!EditUrl, CalmPages!Cloud!CloudTab, CalmProofs!Cloud!CloudTab,
    CalmPages!Cloud!runSyncCall, CalmProofs!Cloud!runSyncCall, CalmPages!Cloud!Leave,
    CalmProofs!Cloud!Leave, CalmPages!Cloud!Here, CalmProofs!Cloud!Here,
    CalmPages!Cloud!Begin, CalmProofs!Cloud!Begin, CalmPages!Cloud!SyncDone,
    CalmProofs!Cloud!SyncDone, CalmPages!Cloud!Respond, CalmProofs!Cloud!Respond,
    CalmPages!Cloud!Looked, CalmProofs!Cloud!Looked, CalmPages!Cloud!Next,
    CalmProofs!Cloud!Next, CalmPages!Cloud!OneTransfer, CalmProofs!Cloud!OneTransfer

LEMMA SameUpdates ==
  /\ (CalmPages!Updates!UpdatesAssumption <=> UpdatesT!UpdatesAssumption)
  /\ (CalmPages!Updates!Init <=> UpdatesT!Init)
  /\ (CalmPages!Updates!Next <=> UpdatesT!Next)
  /\ CalmPages!Updates!vars = UpdatesT!vars
  /\ (CalmPages!Updates!OwnReport <=> UpdatesT!OwnReport)
  /\ (CalmPages!Updates!CardTruthful <=> UpdatesT!CardTruthful)
  BY Zenon DEF
    CalmPages!Updates!Cardinality, UpdatesT!Cardinality,
    CalmPages!Updates!UpdatesAssumption, UpdatesT!UpdatesAssumption,
    CalmPages!Updates!Never, UpdatesT!Never, CalmPages!Updates!page, UpdatesT!page,
    CalmPages!Updates!side, UpdatesT!side, CalmPages!Updates!vars, UpdatesT!vars,
    CalmPages!Updates!Writes, UpdatesT!Writes, CalmPages!Updates!Asks, UpdatesT!Asks,
    CalmPages!Updates!Init, UpdatesT!Init, CalmPages!Updates!Request, UpdatesT!Request,
    CalmPages!Updates!Room, UpdatesT!Room, CalmPages!Updates!Call, UpdatesT!Call,
    CalmPages!Updates!KeepJobs, UpdatesT!KeepJobs, CalmPages!Updates!Open, UpdatesT!Open,
    CalmPages!Updates!Leave, UpdatesT!Leave, CalmPages!Updates!ScheduleCard,
    UpdatesT!ScheduleCard, CalmPages!Updates!ScheduleSet, UpdatesT!ScheduleSet,
    CalmPages!Updates!handleScheduleToggle, UpdatesT!handleScheduleToggle,
    CalmPages!Updates!handleScheduleInterval, UpdatesT!handleScheduleInterval,
    CalmPages!Updates!handleScheduleRun, UpdatesT!handleScheduleRun,
    CalmPages!Updates!RefreshDelta, UpdatesT!RefreshDelta, CalmPages!Updates!DeltaCard,
    UpdatesT!DeltaCard, CalmPages!Updates!handleEnable, UpdatesT!handleEnable,
    CalmPages!Updates!AskDisable, UpdatesT!AskDisable, CalmPages!Updates!AnswerDisable,
    UpdatesT!AnswerDisable, CalmPages!Updates!handleCrossCheck, UpdatesT!handleCrossCheck,
    CalmPages!Updates!InTurn, UpdatesT!InTurn, CalmPages!Updates!To, UpdatesT!To,
    CalmPages!Updates!Load, UpdatesT!Load, CalmPages!Updates!Save, UpdatesT!Save,
    CalmPages!Updates!Work, UpdatesT!Work, CalmPages!Updates!Due, UpdatesT!Due,
    CalmPages!Updates!TickLoads, UpdatesT!TickLoads, CalmPages!Updates!TickSaves,
    UpdatesT!TickSaves, CalmPages!Updates!Hour, UpdatesT!Hour,
    CalmPages!Updates!SettingsLoad, UpdatesT!SettingsLoad, CalmPages!Updates!SettingsSave,
    UpdatesT!SettingsSave, CalmPages!Updates!Answered, UpdatesT!Answered,
    CalmPages!Updates!Here, UpdatesT!Here, CalmPages!Updates!GotSchedule,
    UpdatesT!GotSchedule, CalmPages!Updates!Changed, UpdatesT!Changed,
    CalmPages!Updates!GotDelta, UpdatesT!GotDelta, CalmPages!Updates!DeltaChanged,
    UpdatesT!DeltaChanged, CalmPages!Updates!CrossCheckDone, UpdatesT!CrossCheckDone,
    CalmPages!Updates!CrossCheckRefused, UpdatesT!CrossCheckRefused,
    CalmPages!Updates!TimesOut, UpdatesT!TimesOut, CalmPages!Updates!Unheard,
    UpdatesT!Unheard, CalmPages!Updates!Next, UpdatesT!Next,
    CalmPages!Updates!CardTruthful, UpdatesT!CardTruthful, CalmPages!Updates!OwnReport,
    UpdatesT!OwnReport

LEMMA SameActions ==
  /\ (CalmPages!Actions!Init <=> CalmProofs!Actions!Init)
  /\ (CalmPages!Actions!Next <=> CalmProofs!Actions!Next)
  /\ CalmPages!Actions!vars = CalmProofs!Actions!vars
  /\ (CalmPages!Actions!OneBandInstall <=> CalmProofs!Actions!OneBandInstall)
  /\ (CalmPages!Actions!WaitsEnd <=> CalmProofs!Actions!WaitsEnd)
  BY Zenon DEF
    CalmPages!Actions!conversion, CalmProofs!Actions!conversion, CalmPages!Actions!wizard,
    CalmProofs!Actions!wizard, CalmPages!Actions!band, CalmProofs!Actions!band,
    CalmPages!Actions!vars, CalmProofs!Actions!vars, CalmPages!Actions!Steps,
    CalmProofs!Actions!Steps, CalmPages!Actions!Init, CalmProofs!Actions!Init,
    CalmPages!Actions!StartNext, CalmProofs!Actions!StartNext, CalmPages!Actions!Finished,
    CalmProofs!Actions!Finished, CalmPages!Actions!SelectTab, CalmProofs!Actions!SelectTab,
    CalmPages!Actions!Band, CalmProofs!Actions!Band, CalmPages!Actions!Call,
    CalmProofs!Actions!Call, CalmPages!Actions!handleInstall,
    CalmProofs!Actions!handleInstall, CalmPages!Actions!handleShowGraph,
    CalmProofs!Actions!handleShowGraph, CalmPages!Actions!handleOciExport,
    CalmProofs!Actions!handleOciExport, CalmPages!Actions!handleOpenFolder,
    CalmProofs!Actions!handleOpenFolder, CalmPages!Actions!Wizard,
    CalmProofs!Actions!Wizard, CalmPages!Actions!EditUrl, CalmProofs!Actions!EditUrl,
    CalmPages!Actions!handleGenerate, CalmProofs!Actions!handleGenerate,
    CalmPages!Actions!At, CalmProofs!Actions!At, CalmPages!Actions!Begin,
    CalmProofs!Actions!Begin, CalmPages!Actions!SourceProgress,
    CalmProofs!Actions!SourceProgress, CalmPages!Actions!GraphDone,
    CalmProofs!Actions!GraphDone, CalmPages!Actions!InstallDone,
    CalmProofs!Actions!InstallDone, CalmPages!Actions!SourceDone,
    CalmProofs!Actions!SourceDone, CalmPages!Actions!Unheard, CalmProofs!Actions!Unheard,
    CalmPages!Actions!Refused, CalmProofs!Actions!Refused, CalmPages!Actions!Next,
    CalmProofs!Actions!Next, CalmPages!Actions!Installs, CalmProofs!Actions!Installs,
    CalmPages!Actions!OneBandInstall, CalmProofs!Actions!OneBandInstall,
    CalmPages!Actions!WaitsEnd, CalmProofs!Actions!WaitsEnd

LEMMA SameBatchList ==
  /\ (CalmPages!BatchList!Init <=> CalmProofs!BatchList!Init)
  /\ (CalmPages!BatchList!Next <=> CalmProofs!BatchList!Next)
  /\ CalmPages!BatchList!vars = CalmProofs!BatchList!vars
  /\ (CalmPages!BatchList!ClearsAtRest <=> CalmProofs!BatchList!ClearsAtRest)
  /\ (CalmPages!BatchList!ListTruthful <=> CalmProofs!BatchList!ListTruthful)
  BY Zenon DEF
    CalmPages!BatchList!Cardinality, CalmProofs!BatchList!Cardinality,
    CalmPages!BatchList!Ids, CalmProofs!BatchList!Ids, CalmPages!BatchList!Priorities,
    CalmProofs!BatchList!Priorities, CalmPages!BatchList!page, CalmProofs!BatchList!page,
    CalmPages!BatchList!queue, CalmProofs!BatchList!queue, CalmPages!BatchList!vars,
    CalmProofs!BatchList!vars, CalmPages!BatchList!Changes, CalmProofs!BatchList!Changes,
    CalmPages!BatchList!Queued, CalmProofs!BatchList!Queued, CalmPages!BatchList!Nothing,
    CalmProofs!BatchList!Nothing, CalmPages!BatchList!Init, CalmProofs!BatchList!Init,
    CalmPages!BatchList!Request, CalmProofs!BatchList!Request, CalmPages!BatchList!Room,
    CalmProofs!BatchList!Room, CalmPages!BatchList!Call, CalmProofs!BatchList!Call,
    CalmPages!BatchList!OpenTab, CalmProofs!BatchList!OpenTab,
    CalmPages!BatchList!CloseTab, CalmProofs!BatchList!CloseTab, CalmPages!BatchList!Tab,
    CalmProofs!BatchList!Tab, CalmPages!BatchList!Refresh, CalmProofs!BatchList!Refresh,
    CalmPages!BatchList!SetInstall, CalmProofs!BatchList!SetInstall,
    CalmPages!BatchList!handleBatchAdd, CalmProofs!BatchList!handleBatchAdd,
    CalmPages!BatchList!handleBatchStart, CalmProofs!BatchList!handleBatchStart,
    CalmPages!BatchList!Row, CalmProofs!BatchList!Row,
    CalmPages!BatchList!handleBatchPriority, CalmProofs!BatchList!handleBatchPriority,
    CalmPages!BatchList!handleBatchRemove, CalmProofs!BatchList!handleBatchRemove,
    CalmPages!BatchList!handleBatchCancel, CalmProofs!BatchList!handleBatchCancel,
    CalmPages!BatchList!handleBatchClearRequest,
    CalmProofs!BatchList!handleBatchClearRequest, CalmPages!BatchList!handleBatchClear,
    CalmProofs!BatchList!handleBatchClear, CalmPages!BatchList!With,
    CalmProofs!BatchList!With, CalmPages!BatchList!Without, CalmProofs!BatchList!Without,
    CalmPages!BatchList!Pending, CalmProofs!BatchList!Pending, CalmPages!BatchList!Running,
    CalmProofs!BatchList!Running, CalmPages!BatchList!Turn, CalmProofs!BatchList!Turn,
    CalmPages!BatchList!Answer, CalmProofs!BatchList!Answer, CalmPages!BatchList!QueueList,
    CalmProofs!BatchList!QueueList, CalmPages!BatchList!QueueChange,
    CalmProofs!BatchList!QueueChange, CalmPages!BatchList!QueueStart,
    CalmProofs!BatchList!QueueStart, CalmPages!BatchList!QueueCancel,
    CalmProofs!BatchList!QueueCancel, CalmPages!BatchList!Before,
    CalmProofs!BatchList!Before, CalmPages!BatchList!Wave, CalmProofs!BatchList!Wave,
    CalmPages!BatchList!ItemEnds, CalmProofs!BatchList!ItemEnds,
    CalmPages!BatchList!RunEnds, CalmProofs!BatchList!RunEnds,
    CalmPages!BatchList!QueueDone, CalmProofs!BatchList!QueueDone,
    CalmPages!BatchList!Answered, CalmProofs!BatchList!Answered,
    CalmPages!BatchList!Listed, CalmProofs!BatchList!Listed, CalmPages!BatchList!Changed,
    CalmProofs!BatchList!Changed, CalmPages!BatchList!Started,
    CalmProofs!BatchList!Started, CalmPages!BatchList!TimesOut,
    CalmProofs!BatchList!TimesOut, CalmPages!BatchList!Next, CalmProofs!BatchList!Next,
    CalmPages!BatchList!ListTruthful, CalmProofs!BatchList!ListTruthful,
    CalmPages!BatchList!ClearsAtRest, CalmProofs!BatchList!ClearsAtRest

LEMMA SameInstalled ==
  /\ (CalmPages!Installed!InstalledAssumption <=> CalmProofs!Installed!InstalledAssumption)
  /\ (CalmPages!Installed!Init <=> CalmProofs!Installed!Init)
  /\ (CalmPages!Installed!Next <=> CalmProofs!Installed!Next)
  /\ CalmPages!Installed!vars = CalmProofs!Installed!vars
  /\ (CalmPages!Installed!NothingLost <=> CalmProofs!Installed!NothingLost)
  /\ (CalmPages!Installed!NothingTwice <=> CalmProofs!Installed!NothingTwice)
  /\ (CalmPages!Installed!ListTruthful <=> CalmProofs!Installed!ListTruthful)
  BY Zenon DEF
    CalmPages!Installed!Cardinality, CalmProofs!Installed!Cardinality,
    CalmPages!Installed!InstalledAssumption, CalmProofs!Installed!InstalledAssumption,
    CalmPages!Installed!vars, CalmProofs!Installed!vars, CalmPages!Installed!Zero,
    CalmProofs!Installed!Zero, CalmPages!Installed!Init, CalmProofs!Installed!Init,
    CalmPages!Installed!Changing, CalmProofs!Installed!Changing, CalmPages!Installed!Room,
    CalmProofs!Installed!Room, CalmPages!Installed!Called, CalmProofs!Installed!Called,
    CalmPages!Installed!Open, CalmProofs!Installed!Open, CalmPages!Installed!Leave,
    CalmProofs!Installed!Leave, CalmPages!Installed!load, CalmProofs!Installed!load,
    CalmPages!Installed!Ask, CalmProofs!Installed!Ask, CalmPages!Installed!AskClear,
    CalmProofs!Installed!AskClear, CalmPages!Installed!AskUninstall,
    CalmProofs!Installed!AskUninstall, CalmPages!Installed!Close,
    CalmProofs!Installed!Close, CalmPages!Installed!Cancel, CalmProofs!Installed!Cancel,
    CalmPages!Installed!handleUninstall, CalmProofs!Installed!handleUninstall,
    CalmPages!Installed!handleClear, CalmProofs!Installed!handleClear,
    CalmPages!Installed!handleRestore, CalmProofs!Installed!handleRestore,
    CalmPages!Installed!Lapse, CalmProofs!Installed!Lapse, CalmPages!Installed!add_record,
    CalmProofs!Installed!add_record, CalmPages!Installed!Work, CalmProofs!Installed!Work,
    CalmPages!Installed!Here, CalmProofs!Installed!Here, CalmPages!Installed!Reload,
    CalmProofs!Installed!Reload, CalmPages!Installed!Fetched, CalmProofs!Installed!Fetched,
    CalmPages!Installed!Cleared, CalmProofs!Installed!Cleared,
    CalmPages!Installed!Restored, CalmProofs!Installed!Restored,
    CalmPages!Installed!Listed, CalmProofs!Installed!Listed, CalmPages!Installed!Failed,
    CalmProofs!Installed!Failed, CalmPages!Installed!Respond, CalmProofs!Installed!Respond,
    CalmPages!Installed!Next, CalmProofs!Installed!Next, CalmPages!Installed!NothingLost,
    CalmProofs!Installed!NothingLost, CalmPages!Installed!NothingTwice,
    CalmProofs!Installed!NothingTwice, CalmPages!Installed!ListTruthful,
    CalmProofs!Installed!ListTruthful

LEMMA SameBrowse ==
  /\ (CalmPages!Browse!BrowseAssumption <=> CalmProofs!Browse!BrowseAssumption)
  /\ (CalmPages!Browse!Init <=> CalmProofs!Browse!Init)
  /\ (CalmPages!Browse!Next <=> CalmProofs!Browse!Next)
  /\ CalmPages!Browse!vars = CalmProofs!Browse!vars
  /\ (CalmPages!Browse!OneBuild <=> CalmProofs!Browse!OneBuild)
  /\ (CalmPages!Browse!OwnResults <=> CalmProofs!Browse!OwnResults)
  BY Zenon DEF
    CalmPages!Browse!BrowseAssumption, CalmProofs!Browse!BrowseAssumption,
    CalmPages!Browse!vars, CalmProofs!Browse!vars, CalmPages!Browse!Init,
    CalmProofs!Browse!Init, CalmPages!Browse!Called, CalmProofs!Browse!Called,
    CalmPages!Browse!Open, CalmProofs!Browse!Open, CalmPages!Browse!Leave,
    CalmProofs!Browse!Leave, CalmPages!Browse!doSearch, CalmProofs!Browse!doSearch,
    CalmPages!Browse!handleSearch, CalmProofs!Browse!handleSearch,
    CalmPages!Browse!handleLoadMore, CalmProofs!Browse!handleLoadMore,
    CalmPages!Browse!Listed, CalmProofs!Browse!Listed, CalmPages!Browse!handleInfo,
    CalmProofs!Browse!handleInfo, CalmPages!Browse!handleBuild,
    CalmProofs!Browse!handleBuild, CalmPages!Browse!Progress, CalmProofs!Browse!Progress,
    CalmPages!Browse!SearchDone, CalmProofs!Browse!SearchDone, CalmPages!Browse!InfoDone,
    CalmProofs!Browse!InfoDone, CalmPages!Browse!BuildDone, CalmProofs!Browse!BuildDone,
    CalmPages!Browse!GiveUp, CalmProofs!Browse!GiveUp, CalmPages!Browse!Refused,
    CalmProofs!Browse!Refused, CalmPages!Browse!TimesOut, CalmProofs!Browse!TimesOut,
    CalmPages!Browse!Next, CalmProofs!Browse!Next, CalmPages!Browse!OwnResults,
    CalmProofs!Browse!OwnResults, CalmPages!Browse!OneBuild, CalmProofs!Browse!OneBuild

LEMMA SameSnapshots ==
  /\ (CalmPages!Snapshots!Init <=> CalmProofs!Snapshots!Init)
  /\ (CalmPages!Snapshots!Next <=> CalmProofs!Snapshots!Next)
  /\ CalmPages!Snapshots!vars = CalmProofs!Snapshots!vars
  /\ (CalmPages!Snapshots!CardTruthful <=> CalmProofs!Snapshots!CardTruthful)
  BY Zenon DEF
    CalmPages!Snapshots!Cardinality, CalmProofs!Snapshots!Cardinality,
    CalmPages!Snapshots!Pages, CalmProofs!Snapshots!Pages, CalmPages!Snapshots!Ops,
    CalmProofs!Snapshots!Ops, CalmPages!Snapshots!vars, CalmProofs!Snapshots!vars,
    CalmPages!Snapshots!Init, CalmProofs!Snapshots!Init, CalmPages!Snapshots!Called,
    CalmProofs!Snapshots!Called, CalmPages!Snapshots!Room, CalmProofs!Snapshots!Room,
    CalmPages!Snapshots!Open, CalmProofs!Snapshots!Open, CalmPages!Snapshots!Leave,
    CalmProofs!Snapshots!Leave, CalmPages!Snapshots!Refresh, CalmProofs!Snapshots!Refresh,
    CalmPages!Snapshots!Change, CalmProofs!Snapshots!Change,
    CalmPages!Snapshots!ToolsButton, CalmProofs!Snapshots!ToolsButton,
    CalmPages!Snapshots!ReportsInstall, CalmProofs!Snapshots!ReportsInstall,
    CalmPages!Snapshots!ReportsAskRemove, CalmProofs!Snapshots!ReportsAskRemove,
    CalmPages!Snapshots!ReportsAnswer, CalmProofs!Snapshots!ReportsAnswer,
    CalmPages!Snapshots!Work, CalmProofs!Snapshots!Work, CalmPages!Snapshots!SnapshotDone,
    CalmProofs!Snapshots!SnapshotDone, CalmPages!Snapshots!Refused,
    CalmProofs!Snapshots!Refused, CalmPages!Snapshots!Looked, CalmProofs!Snapshots!Looked,
    CalmPages!Snapshots!Next, CalmProofs!Snapshots!Next, CalmPages!Snapshots!CardTruthful,
    CalmProofs!Snapshots!CardTruthful

LEMMA SamePlugins ==
  /\ (CalmPages!Plugins!PluginsAssumption <=> CalmProofs!Plugins!PluginsAssumption)
  /\ (CalmPages!Plugins!Init <=> CalmProofs!Plugins!Init)
  /\ (CalmPages!Plugins!Next <=> CalmProofs!Plugins!Next)
  /\ CalmPages!Plugins!vars = CalmProofs!Plugins!vars
  /\ (CalmPages!Plugins!ListTruthful <=> CalmProofs!Plugins!ListTruthful)
  BY Zenon DEF
    CalmPages!Plugins!Cardinality, CalmProofs!Plugins!Cardinality,
    CalmPages!Plugins!PluginsAssumption, CalmProofs!Plugins!PluginsAssumption,
    CalmPages!Plugins!Threaded, CalmProofs!Plugins!Threaded, CalmPages!Plugins!Changes,
    CalmProofs!Plugins!Changes, CalmPages!Plugins!vars, CalmProofs!Plugins!vars,
    CalmPages!Plugins!Fresh, CalmProofs!Plugins!Fresh, CalmPages!Plugins!Init,
    CalmProofs!Plugins!Init, CalmPages!Plugins!Called, CalmProofs!Plugins!Called,
    CalmPages!Plugins!Room, CalmProofs!Plugins!Room, CalmPages!Plugins!Open,
    CalmProofs!Plugins!Open, CalmPages!Plugins!Leave, CalmProofs!Plugins!Leave,
    CalmPages!Plugins!LoadAvailable, CalmProofs!Plugins!LoadAvailable,
    CalmPages!Plugins!SelectAvailable, CalmProofs!Plugins!SelectAvailable,
    CalmPages!Plugins!SelectInstalled, CalmProofs!Plugins!SelectInstalled,
    CalmPages!Plugins!RefreshAvailable, CalmProofs!Plugins!RefreshAvailable,
    CalmPages!Plugins!Offers, CalmProofs!Plugins!Offers, CalmPages!Plugins!Begin,
    CalmProofs!Plugins!Begin, CalmPages!Plugins!handleInstall,
    CalmProofs!Plugins!handleInstall, CalmPages!Plugins!handleUninstall,
    CalmProofs!Plugins!handleUninstall, CalmPages!Plugins!handleUpdate,
    CalmProofs!Plugins!handleUpdate, CalmPages!Plugins!handleAudit,
    CalmProofs!Plugins!handleAudit, CalmPages!Plugins!Work, CalmProofs!Plugins!Work,
    CalmPages!Plugins!Here, CalmProofs!Plugins!Here, CalmPages!Plugins!Reload,
    CalmProofs!Plugins!Reload, CalmPages!Plugins!PluginDone, CalmProofs!Plugins!PluginDone,
    CalmPages!Plugins!Respond, CalmProofs!Plugins!Respond, CalmPages!Plugins!Listed,
    CalmProofs!Plugins!Listed, CalmPages!Plugins!Next, CalmProofs!Plugins!Next,
    CalmPages!Plugins!ListTruthful, CalmProofs!Plugins!ListTruthful

LEMMA SameSettings ==
  /\ (CalmPages!Settings!Init <=> CalmProofs!Settings!Init)
  /\ (CalmPages!Settings!Next <=> CalmProofs!Settings!Next)
  /\ CalmPages!Settings!vars = CalmProofs!Settings!vars
  /\ CalmPages!Settings!Settings = CalmProofs!Settings!Settings
  /\ (CalmPages!Settings!DirtyTruthful <=> CalmProofs!Settings!DirtyTruthful)
  /\ (CalmPages!Settings!LanguageAgrees <=> CalmProofs!Settings!LanguageAgrees)
  BY Zenon DEF
    CalmPages!Settings!Cardinality, CalmProofs!Settings!Cardinality,
    CalmPages!Settings!Keys, CalmProofs!Settings!Keys, CalmPages!Settings!Values,
    CalmProofs!Settings!Values, CalmPages!Settings!Settings, CalmProofs!Settings!Settings,
    CalmPages!Settings!DEFAULTS, CalmProofs!Settings!DEFAULTS, CalmPages!Settings!Merged,
    CalmProofs!Settings!Merged, CalmPages!Settings!Some, CalmProofs!Settings!Some,
    CalmPages!Settings!app, CalmProofs!Settings!app, CalmPages!Settings!disk,
    CalmProofs!Settings!disk, CalmPages!Settings!form, CalmProofs!Settings!form,
    CalmPages!Settings!vars, CalmProofs!Settings!vars, CalmPages!Settings!Reads,
    CalmProofs!Settings!Reads, CalmPages!Settings!Request, CalmProofs!Settings!Request,
    CalmPages!Settings!Call, CalmProofs!Settings!Call, CalmPages!Settings!Init,
    CalmProofs!Settings!Init, CalmPages!Settings!May, CalmProofs!Settings!May,
    CalmPages!Settings!toggleLang, CalmProofs!Settings!toggleLang,
    CalmPages!Settings!toggleTheme, CalmProofs!Settings!toggleTheme,
    CalmPages!Settings!setLangCmd, CalmProofs!Settings!setLangCmd,
    CalmPages!Settings!setThemeCmd, CalmProofs!Settings!setThemeCmd,
    CalmPages!Settings!Open, CalmProofs!Settings!Open, CalmPages!Settings!Leave,
    CalmProofs!Settings!Leave, CalmPages!Settings!Form, CalmProofs!Settings!Form,
    CalmPages!Settings!set, CalmProofs!Settings!set, CalmPages!Settings!handleSave,
    CalmProofs!Settings!handleSave, CalmPages!Settings!handleReset,
    CalmProofs!Settings!handleReset, CalmPages!Settings!handleImportFile,
    CalmProofs!Settings!handleImportFile, CalmPages!Settings!handleSwitchProfile,
    CalmProofs!Settings!handleSwitchProfile, CalmPages!Settings!First,
    CalmProofs!Settings!First, CalmPages!Settings!To, CalmProofs!Settings!To,
    CalmPages!Settings!Load, CalmProofs!Settings!Load, CalmPages!Settings!Save,
    CalmProofs!Settings!Save, CalmPages!Settings!Switch, CalmProofs!Settings!Switch,
    CalmPages!Settings!Answered, CalmProofs!Settings!Answered, CalmPages!Settings!Here,
    CalmProofs!Settings!Here, CalmPages!Settings!Fill, CalmProofs!Settings!Fill,
    CalmPages!Settings!Started, CalmProofs!Settings!Started, CalmPages!Settings!Toggled,
    CalmProofs!Settings!Toggled, CalmPages!Settings!Loaded, CalmProofs!Settings!Loaded,
    CalmPages!Settings!SaveDone, CalmProofs!Settings!SaveDone, CalmPages!Settings!Imported,
    CalmProofs!Settings!Imported, CalmPages!Settings!Switched,
    CalmProofs!Settings!Switched, CalmPages!Settings!Next, CalmProofs!Settings!Next,
    CalmPages!Settings!dirty, CalmProofs!Settings!dirty, CalmPages!Settings!DirtyTruthful,
    CalmProofs!Settings!DirtyTruthful, CalmPages!Settings!LanguageAgrees,
    CalmProofs!Settings!LanguageAgrees

LEMMA SameTopbar ==
  /\ (CalmPages!Topbar!Init <=> CalmProofs!Topbar!Init)
  /\ (CalmPages!Topbar!Next <=> CalmProofs!Topbar!Next)
  /\ CalmPages!Topbar!vars = CalmProofs!Topbar!vars
  /\ (CalmPages!Topbar!TogglesPersist <=> CalmProofs!Topbar!TogglesPersist)
  BY Zenon DEF
    CalmPages!Topbar!Cardinality, CalmProofs!Topbar!Cardinality, CalmPages!Topbar!Keys,
    CalmProofs!Topbar!Keys, CalmPages!Topbar!Values, CalmProofs!Topbar!Values,
    CalmPages!Topbar!Settings, CalmProofs!Topbar!Settings, CalmPages!Topbar!DEFAULTS,
    CalmProofs!Topbar!DEFAULTS, CalmPages!Topbar!Merged, CalmProofs!Topbar!Merged,
    CalmPages!Topbar!Some, CalmProofs!Topbar!Some, CalmPages!Topbar!app,
    CalmProofs!Topbar!app, CalmPages!Topbar!disk, CalmProofs!Topbar!disk,
    CalmPages!Topbar!form, CalmProofs!Topbar!form, CalmPages!Topbar!vars,
    CalmProofs!Topbar!vars, CalmPages!Topbar!Reads, CalmProofs!Topbar!Reads,
    CalmPages!Topbar!Request, CalmProofs!Topbar!Request, CalmPages!Topbar!Call,
    CalmProofs!Topbar!Call, CalmPages!Topbar!Init, CalmProofs!Topbar!Init,
    CalmPages!Topbar!May, CalmProofs!Topbar!May, CalmPages!Topbar!toggleLang,
    CalmProofs!Topbar!toggleLang, CalmPages!Topbar!toggleTheme,
    CalmProofs!Topbar!toggleTheme, CalmPages!Topbar!setLangCmd,
    CalmProofs!Topbar!setLangCmd, CalmPages!Topbar!setThemeCmd,
    CalmProofs!Topbar!setThemeCmd, CalmPages!Topbar!Open, CalmProofs!Topbar!Open,
    CalmPages!Topbar!Leave, CalmProofs!Topbar!Leave, CalmPages!Topbar!Form,
    CalmProofs!Topbar!Form, CalmPages!Topbar!set, CalmProofs!Topbar!set,
    CalmPages!Topbar!handleSave, CalmProofs!Topbar!handleSave,
    CalmPages!Topbar!handleReset, CalmProofs!Topbar!handleReset,
    CalmPages!Topbar!handleImportFile, CalmProofs!Topbar!handleImportFile,
    CalmPages!Topbar!handleSwitchProfile, CalmProofs!Topbar!handleSwitchProfile,
    CalmPages!Topbar!First, CalmProofs!Topbar!First, CalmPages!Topbar!To,
    CalmProofs!Topbar!To, CalmPages!Topbar!Load, CalmProofs!Topbar!Load,
    CalmPages!Topbar!Save, CalmProofs!Topbar!Save, CalmPages!Topbar!Switch,
    CalmProofs!Topbar!Switch, CalmPages!Topbar!Answered, CalmProofs!Topbar!Answered,
    CalmPages!Topbar!Here, CalmProofs!Topbar!Here, CalmPages!Topbar!Fill,
    CalmProofs!Topbar!Fill, CalmPages!Topbar!Started, CalmProofs!Topbar!Started,
    CalmPages!Topbar!Toggled, CalmProofs!Topbar!Toggled, CalmPages!Topbar!Loaded,
    CalmProofs!Topbar!Loaded, CalmPages!Topbar!SaveDone, CalmProofs!Topbar!SaveDone,
    CalmPages!Topbar!Imported, CalmProofs!Topbar!Imported, CalmPages!Topbar!Switched,
    CalmProofs!Topbar!Switched, CalmPages!Topbar!Next, CalmProofs!Topbar!Next,
    CalmPages!Topbar!TogglesPersist, CalmProofs!Topbar!TogglesPersist

LEMMA SameExport ==
  /\ (CalmPages!Export!Init <=> CalmProofs!Export!Init)
  /\ (CalmPages!Export!Next <=> CalmProofs!Export!Next)
  /\ CalmPages!Export!vars = CalmProofs!Export!vars
  /\ (CalmPages!Export!SpinnersEnd <=> CalmProofs!Export!SpinnersEnd)
  /\ (CalmPages!Export!NoRetryWhileBusy <=> CalmProofs!Export!NoRetryWhileBusy)
  BY Zenon DEF
    CalmPages!Export!Cards, CalmProofs!Export!Cards, CalmPages!Export!list,
    CalmProofs!Export!list, CalmPages!Export!vars, CalmProofs!Export!vars,
    CalmPages!Export!Init, CalmProofs!Export!Init, CalmPages!Export!Call,
    CalmProofs!Export!Call, CalmPages!Export!loadFlatpak, CalmProofs!Export!loadFlatpak,
    CalmPages!Export!Open, CalmProofs!Export!Open, CalmPages!Export!Leave,
    CalmProofs!Export!Leave, CalmPages!Export!Refresh, CalmProofs!Export!Refresh,
    CalmPages!Export!Select, CalmProofs!Export!Select, CalmPages!Export!resultBadge,
    CalmProofs!Export!resultBadge, CalmPages!Export!AppimageCard,
    CalmProofs!Export!AppimageCard, CalmPages!Export!FlatpakCard,
    CalmProofs!Export!FlatpakCard, CalmPages!Export!OciCard, CalmProofs!Export!OciCard,
    CalmPages!Export!subscribeExportDone, CalmProofs!Export!subscribeExportDone,
    CalmPages!Export!Submit, CalmProofs!Export!Submit, CalmPages!Export!handleAppimage,
    CalmProofs!Export!handleAppimage, CalmPages!Export!handleFlatpak,
    CalmProofs!Export!handleFlatpak, CalmPages!Export!handleOci,
    CalmProofs!Export!handleOci, CalmPages!Export!handleOciExport,
    CalmProofs!Export!handleOciExport, CalmPages!Export!ExportDone,
    CalmProofs!Export!ExportDone, CalmPages!Export!ExportFailed,
    CalmProofs!Export!ExportFailed, CalmPages!Export!Refused, CalmProofs!Export!Refused,
    CalmPages!Export!Listed, CalmProofs!Export!Listed, CalmPages!Export!Next,
    CalmProofs!Export!Next, CalmPages!Export!SpinnersEnd, CalmProofs!Export!SpinnersEnd,
    CalmPages!Export!NoRetryWhileBusy, CalmProofs!Export!NoRetryWhileBusy

LEMMA SameBus ==
  /\ (CalmPages!Bus!EventBusAssumption <=> CalmProofs!Bus!EventBusAssumption)
  /\ (CalmPages!Bus!Init <=> CalmProofs!Bus!Init)
  /\ (CalmPages!Bus!Next <=> CalmProofs!Bus!Next)
  /\ CalmPages!Bus!vars = CalmProofs!Bus!vars
  /\ (CalmPages!Bus!NoGap <=> CalmProofs!Bus!NoGap)
  /\ (CalmPages!Bus!OrderKept <=> CalmProofs!Bus!OrderKept)
  BY Zenon DEF
    CalmPages!Bus!EventBusAssumption, CalmProofs!Bus!EventBusAssumption,
    CalmPages!Bus!vars, CalmProofs!Bus!vars, CalmPages!Bus!Events, CalmProofs!Bus!Events,
    CalmPages!Bus!Init, CalmProofs!Bus!Init, CalmPages!Bus!Subscribed,
    CalmProofs!Bus!Subscribed, CalmPages!Bus!Publish, CalmProofs!Bus!Publish,
    CalmPages!Bus!Subscribe, CalmProofs!Bus!Subscribe, CalmPages!Bus!Copy,
    CalmProofs!Bus!Copy, CalmPages!Bus!Replay, CalmProofs!Bus!Replay, CalmPages!Bus!Stream,
    CalmProofs!Bus!Stream, CalmPages!Bus!Close, CalmProofs!Bus!Close, CalmPages!Bus!Next,
    CalmProofs!Bus!Next, CalmPages!Bus!InSeq, CalmProofs!Bus!InSeq, CalmPages!Bus!NoGap,
    CalmProofs!Bus!NoGap, CalmPages!Bus!OrderKept, CalmProofs!Bus!OrderKept

-----------------------------------------------------------------------------
(* What a page keeps the desktop keeps: its behaviours with this page for  *)
(* their subject are those of the page, and in all others it never is.     *)

\* A step leaves the choice as it is.
LEMMA ChoiceStays == [Next]_vars => UNCHANGED <<subject, rough>>
  BY DEF Next, Frame, vars

LEMMA ConvertRuns == Spec => (IsCalm("convert") /\ ConvertT!Spec) \/ []~IsCalm("convert")
<1>1. /\ Init /\ IsCalm("convert") => ConvertT!Init
      /\ IsCalm("convert") /\ [Next]_vars => IsCalm("convert")' /\ [ConvertT!Next]_(ConvertT!vars)
      /\ ~IsCalm("convert") /\ [Next]_vars => ~IsCalm("convert")'
  BY SameConvert, ChoiceStays
     DEF Init, Next, vars, IsCalm, Of, Either,
         ConvertT!vars, ConvertT!page, ConvertT!sidecar
<1> QED BY <1>1, PTL DEF Spec, ConvertT!Spec

LEMMA QtRuns == Spec => (IsCalm("qt") /\ CalmProofs!Qt!Spec) \/ []~IsCalm("qt")
<1>1. /\ Init /\ IsCalm("qt") => CalmProofs!Qt!Init
      /\ IsCalm("qt") /\ [Next]_vars => IsCalm("qt")' /\ [CalmProofs!Qt!Next]_(CalmProofs!Qt!vars)
      /\ ~IsCalm("qt") /\ [Next]_vars => ~IsCalm("qt")'
  BY SameQt, ChoiceStays
     DEF Init, Next, vars, IsCalm, Of, Either,
         CalmProofs!Qt!vars
<1> QED BY <1>1, PTL DEF Spec, CalmProofs!Qt!Spec

LEMMA SecurityRuns ==
    Spec => (IsCalm("security") /\ CalmProofs!Security!Spec) \/ []~IsCalm("security")
<1>1. /\ Init /\ IsCalm("security") => CalmProofs!Security!Init
      /\ IsCalm("security") /\ [Next]_vars
         => IsCalm("security")' /\ [CalmProofs!Security!Next]_(CalmProofs!Security!vars)
      /\ ~IsCalm("security") /\ [Next]_vars => ~IsCalm("security")'
  BY SameSecurity, ChoiceStays
     DEF Init, Next, vars, IsCalm, Of, Either,
         CalmProofs!Security!vars
<1> QED BY <1>1, PTL DEF Spec, CalmProofs!Security!Spec

LEMMA ToolsRuns == Spec => (IsCalm("tools") /\ CalmProofs!Tools!Spec) \/ []~IsCalm("tools")
<1>1. /\ Init /\ IsCalm("tools") => CalmProofs!Tools!Init
      /\ IsCalm("tools") /\ [Next]_vars
         => IsCalm("tools")' /\ [CalmProofs!Tools!Next]_(CalmProofs!Tools!vars)
      /\ ~IsCalm("tools") /\ [Next]_vars => ~IsCalm("tools")'
  BY SameTools, ChoiceStays
     DEF Init, Next, vars, IsCalm, Of, Either,
         CalmProofs!Tools!vars
<1> QED BY <1>1, PTL DEF Spec, CalmProofs!Tools!Spec

LEMMA CompareRuns == Spec => (IsCalm("compare") /\ CalmProofs!Compare!Spec) \/ []~IsCalm("compare")
<1>1. /\ Init /\ IsCalm("compare") => CalmProofs!Compare!Init
      /\ IsCalm("compare") /\ [Next]_vars
         => IsCalm("compare")' /\ [CalmProofs!Compare!Next]_(CalmProofs!Compare!vars)
      /\ ~IsCalm("compare") /\ [Next]_vars => ~IsCalm("compare")'
  BY SameCompare, ChoiceStays
     DEF Init, Next, vars, IsCalm, Of, Either,
         CalmProofs!Compare!vars
<1> QED BY <1>1, PTL DEF Spec, CalmProofs!Compare!Spec

LEMMA ReportsRuns == Spec => (Chosen("reports") /\ CalmProofs!Reports!Spec) \/ []~Chosen("reports")
<1>1. /\ Init /\ Chosen("reports") => CalmProofs!Reports!Init
      /\ Chosen("reports") /\ [Next]_vars
         => Chosen("reports")' /\ [CalmProofs!Reports!Next]_(CalmProofs!Reports!vars)
      /\ ~Chosen("reports") /\ [Next]_vars => ~Chosen("reports")'
  BY SameReports, ChoiceStays
     DEF Init, Next, vars, Chosen, Of, Either,
         CalmProofs!Reports!vars, CalmProofs!Reports!health
<1> QED BY <1>1, PTL DEF Spec, CalmProofs!Reports!Spec

LEMMA CardsRuns == Spec => (IsCalm("profiles") /\ CalmProofs!Cards!Spec) \/ []~IsCalm("profiles")
<1>1. /\ Init /\ IsCalm("profiles") => CalmProofs!Cards!Init
      /\ IsCalm("profiles") /\ [Next]_vars
         => IsCalm("profiles")' /\ [CalmProofs!Cards!Next]_(CalmProofs!Cards!vars)
      /\ ~IsCalm("profiles") /\ [Next]_vars => ~IsCalm("profiles")'
  BY SameCards, ChoiceStays
     DEF Init, Next, vars, IsCalm, Of, Either,
         CalmProofs!Cards!vars
<1> QED BY <1>1, PTL DEF Spec, CalmProofs!Cards!Spec

LEMMA CloudRuns == Spec => (IsCalm("cloud") /\ CalmProofs!Cloud!Spec) \/ []~IsCalm("cloud")
<1>1. /\ Init /\ IsCalm("cloud") => CalmProofs!Cloud!Init
      /\ IsCalm("cloud") /\ [Next]_vars
         => IsCalm("cloud")' /\ [CalmProofs!Cloud!Next]_(CalmProofs!Cloud!vars)
      /\ ~IsCalm("cloud") /\ [Next]_vars => ~IsCalm("cloud")'
  BY SameCloud, ChoiceStays
     DEF Init, Next, vars, IsCalm, Of, Either,
         CalmProofs!Cloud!vars
<1> QED BY <1>1, PTL DEF Spec, CalmProofs!Cloud!Spec

LEMMA UpdatesRuns == Spec => (IsCalm("updates") /\ UpdatesT!Spec) \/ []~IsCalm("updates")
<1>1. /\ Init /\ IsCalm("updates") => UpdatesT!Init
      /\ IsCalm("updates") /\ [Next]_vars => IsCalm("updates")' /\ [UpdatesT!Next]_(UpdatesT!vars)
      /\ ~IsCalm("updates") /\ [Next]_vars => ~IsCalm("updates")'
  BY SameUpdates, ChoiceStays
     DEF Init, Next, vars, IsCalm, Of, Either,
         UpdatesT!vars
<1> QED BY <1>1, PTL DEF Spec, UpdatesT!Spec

LEMMA ActionsRuns == Spec => (Chosen("actions") /\ CalmProofs!Actions!Spec) \/ []~Chosen("actions")
<1>1. /\ Init /\ Chosen("actions") => CalmProofs!Actions!Init
      /\ Chosen("actions") /\ [Next]_vars
         => Chosen("actions")' /\ [CalmProofs!Actions!Next]_(CalmProofs!Actions!vars)
      /\ ~Chosen("actions") /\ [Next]_vars => ~Chosen("actions")'
  BY SameActions, ChoiceStays
     DEF Init, Next, vars, Chosen, Of, Either,
         CalmProofs!Actions!vars
<1> QED BY <1>1, PTL DEF Spec, CalmProofs!Actions!Spec

LEMMA BatchListRuns == Spec => (IsCalm("batch") /\ CalmProofs!BatchList!Spec) \/ []~IsCalm("batch")
<1>1. /\ Init /\ IsCalm("batch") => CalmProofs!BatchList!Init
      /\ IsCalm("batch") /\ [Next]_vars
         => IsCalm("batch")' /\ [CalmProofs!BatchList!Next]_(CalmProofs!BatchList!vars)
      /\ ~IsCalm("batch") /\ [Next]_vars => ~IsCalm("batch")'
  BY SameBatchList, ChoiceStays
     DEF Init, Next, vars, IsCalm, Of, Either,
         CalmProofs!BatchList!vars
<1> QED BY <1>1, PTL DEF Spec, CalmProofs!BatchList!Spec

LEMMA InstalledRuns ==
    Spec => (IsCalm("installed") /\ CalmProofs!Installed!Spec) \/ []~IsCalm("installed")
<1>1. /\ Init /\ IsCalm("installed") => CalmProofs!Installed!Init
      /\ IsCalm("installed") /\ [Next]_vars
         => IsCalm("installed")' /\ [CalmProofs!Installed!Next]_(CalmProofs!Installed!vars)
      /\ ~IsCalm("installed") /\ [Next]_vars => ~IsCalm("installed")'
  BY SameInstalled, ChoiceStays
     DEF Init, Next, vars, IsCalm, Of, Either,
         CalmProofs!Installed!vars
<1> QED BY <1>1, PTL DEF Spec, CalmProofs!Installed!Spec

LEMMA BrowseRuns == Spec => (IsCalm("browse") /\ CalmProofs!Browse!Spec) \/ []~IsCalm("browse")
<1>1. /\ Init /\ IsCalm("browse") => CalmProofs!Browse!Init
      /\ IsCalm("browse") /\ [Next]_vars
         => IsCalm("browse")' /\ [CalmProofs!Browse!Next]_(CalmProofs!Browse!vars)
      /\ ~IsCalm("browse") /\ [Next]_vars => ~IsCalm("browse")'
  BY SameBrowse, ChoiceStays
     DEF Init, Next, vars, IsCalm, Of, Either,
         CalmProofs!Browse!vars
<1> QED BY <1>1, PTL DEF Spec, CalmProofs!Browse!Spec

LEMMA SnapshotsRuns ==
    Spec => (IsCalm("snapshots") /\ CalmProofs!Snapshots!Spec) \/ []~IsCalm("snapshots")
<1>1. /\ Init /\ IsCalm("snapshots") => CalmProofs!Snapshots!Init
      /\ IsCalm("snapshots") /\ [Next]_vars
         => IsCalm("snapshots")' /\ [CalmProofs!Snapshots!Next]_(CalmProofs!Snapshots!vars)
      /\ ~IsCalm("snapshots") /\ [Next]_vars => ~IsCalm("snapshots")'
  BY SameSnapshots, ChoiceStays
     DEF Init, Next, vars, IsCalm, Of, Either,
         CalmProofs!Snapshots!vars
<1> QED BY <1>1, PTL DEF Spec, CalmProofs!Snapshots!Spec

LEMMA PluginsRuns == Spec => (IsCalm("plugins") /\ CalmProofs!Plugins!Spec) \/ []~IsCalm("plugins")
<1>1. /\ Init /\ IsCalm("plugins") => CalmProofs!Plugins!Init
      /\ IsCalm("plugins") /\ [Next]_vars
         => IsCalm("plugins")' /\ [CalmProofs!Plugins!Next]_(CalmProofs!Plugins!vars)
      /\ ~IsCalm("plugins") /\ [Next]_vars => ~IsCalm("plugins")'
  BY SamePlugins, ChoiceStays
     DEF Init, Next, vars, IsCalm, Of, Either,
         CalmProofs!Plugins!vars
<1> QED BY <1>1, PTL DEF Spec, CalmProofs!Plugins!Spec

LEMMA SettingsRuns ==
    Spec => (IsCalm("settings") /\ CalmProofs!Settings!Spec) \/ []~IsCalm("settings")
<1>1. /\ Init /\ IsCalm("settings") => CalmProofs!Settings!Init
      /\ IsCalm("settings") /\ [Next]_vars
         => IsCalm("settings")' /\ [CalmProofs!Settings!Next]_(CalmProofs!Settings!vars)
      /\ ~IsCalm("settings") /\ [Next]_vars => ~IsCalm("settings")'
  BY SameSettings, ChoiceStays
     DEF Init, Next, vars, IsCalm, Of, Either,
         CalmProofs!Settings!vars
<1> QED BY <1>1, PTL DEF Spec, CalmProofs!Settings!Spec

LEMMA TopbarRuns == Spec => (Chosen("topbar") /\ CalmProofs!Topbar!Spec) \/ []~Chosen("topbar")
<1>1. /\ Init /\ Chosen("topbar") => CalmProofs!Topbar!Init
      /\ Chosen("topbar") /\ [Next]_vars
         => Chosen("topbar")' /\ [CalmProofs!Topbar!Next]_(CalmProofs!Topbar!vars)
      /\ ~Chosen("topbar") /\ [Next]_vars => ~Chosen("topbar")'
  BY SameTopbar, ChoiceStays
     DEF Init, Next, vars, Chosen, Of, Either,
         CalmProofs!Topbar!vars
<1> QED BY <1>1, PTL DEF Spec, CalmProofs!Topbar!Spec

LEMMA ExportRuns == Spec => (Chosen("export") /\ CalmProofs!Export!Spec) \/ []~Chosen("export")
<1>1. /\ Init /\ Chosen("export") => CalmProofs!Export!Init
      /\ Chosen("export") /\ [Next]_vars
         => Chosen("export")' /\ [CalmProofs!Export!Next]_(CalmProofs!Export!vars)
      /\ ~Chosen("export") /\ [Next]_vars => ~Chosen("export")'
  BY SameExport, ChoiceStays
     DEF Init, Next, vars, Chosen, Of, Either,
         CalmProofs!Export!vars, CalmProofs!Export!list
<1> QED BY <1>1, PTL DEF Spec, CalmProofs!Export!Spec

LEMMA BusRuns == Spec => (Chosen("bus") /\ CalmProofs!Bus!Spec) \/ []~Chosen("bus")
<1>1. /\ Init /\ Chosen("bus") => CalmProofs!Bus!Init
      /\ Chosen("bus") /\ [Next]_vars
         => Chosen("bus")' /\ [CalmProofs!Bus!Next]_(CalmProofs!Bus!vars)
      /\ ~Chosen("bus") /\ [Next]_vars => ~Chosen("bus")'
  BY SameBus, ChoiceStays
     DEF Init, Next, vars, Chosen, Of, Either,
         CalmProofs!Bus!vars
<1> QED BY <1>1, PTL DEF Spec, CalmProofs!Bus!Spec

-----------------------------------------------------------------------------
(* The theorems *)

\* Opened once: what an earlier visit has left behind is heard by the next.
Once(S) == \A s \in S : Visits[FALSE][s] <= 1

\* The mark on a file and the package on offer are the outcome of that file's
\* conversion, for any files and bounds: on the convert page, if no batch runs,
\* no pipeline.start times out in the client and React renders between events; in
\* the PyQt window, if the user adds, downloads and clears only when all is done.
THEOREM OutcomesAreOwn == Spec => []OwnOutcome
<1>1. ConvertT!Spec => []ConvertT!OwnOutcome
  BY SameConvert, DesktopAssumption, ConvertT!OutcomeIsOwn
     DEF ConvertT!Alone, CalmPages!PagesAssumption, CalmPages!PanelsAssumption
<1>2. CalmProofs!Qt!Spec => []CalmProofs!Qt!OwnOutcome
  BY SameQt, DesktopAssumption, CalmProofs!OutcomeIsOwn
     DEF CalmProofs!PatientUser, CalmPages!PagesAssumption, CalmPages!PanelsAssumption
<1>3. /\ ConvertT!OwnOutcome \/ ~IsCalm("convert")
      /\ CalmProofs!Qt!OwnOutcome \/ ~IsCalm("qt")
      => OwnOutcome
  BY SameConvert, SameQt DEF OwnOutcome, InCalm, IsCalm
<1> QED BY <1>1, <1>2, <1>3, ConvertRuns, QtRuns, PTL

\* No conversion waits for a decision where none can reach it, and the answer
\* to a compatibility report goes to the conversion that wrote it: on the same
\* conditions, and in the PyQt window if nothing is cancelled while others wait.
THEOREM AnswersReach == Spec => []AnswerReaches
<1>1. ConvertT!Spec => []ConvertT!AnswerReaches
  BY SameConvert, DesktopAssumption, ConvertT!AnswersReach
     DEF ConvertT!Alone, CalmPages!PagesAssumption, CalmPages!PanelsAssumption
<1>2. CalmProofs!Qt!Spec => []CalmProofs!Qt!AnswerReaches
  BY SameQt, DesktopAssumption, CalmProofs!AnswersReach
     DEF CalmProofs!PatientUser, CalmPages!PagesAssumption, CalmPages!PanelsAssumption
<1>3. /\ ConvertT!AnswerReaches \/ ~IsCalm("convert")
      /\ CalmProofs!Qt!AnswerReaches \/ ~IsCalm("qt")
      => AnswerReaches
  BY SameConvert, SameQt DEF AnswerReaches, InCalm, IsCalm
<1> QED BY <1>1, <1>2, <1>3, ConvertRuns, QtRuns, PTL

\* What a page shows as the answer to its last question is that: on its first
\* visit, if no call and no check outlives its time-out, and on the AUR page if
\* the enter key starts no second search and information comes in the order
\* asked for.  The summary of the reports page is current without condition.
THEOREM AnswersAreOwn ==
    Once({"security", "tools", "compare", "browse"}) => (Spec => []OwnAnswers)
<1> SUFFICES ASSUME Once({"security", "tools", "compare", "browse"}) PROVE Spec => []OwnAnswers
  OBVIOUS
<1>1. CalmPages!PagesAssumption
  BY DesktopAssumption
<1>2. CalmProofs!SecurityOnce /\ CalmProofs!ToolsOnce /\ CalmProofs!CompareOnce
      /\ CalmProofs!BrowseOnce
  BY <1>1, SameSecurity, SameTools, SameCompare, SameBrowse
     DEF Once, CalmPages!PagesAssumption, CalmPages!PanelsAssumption, CalmProofs!SecurityOnce,
         CalmProofs!ToolsOnce,
         CalmProofs!CompareOnce, CalmProofs!BrowseOnce
<1>3. UpdatesT!UpdatesAssumption
  BY <1>1, SameUpdates DEF CalmPages!PagesAssumption, CalmPages!PanelsAssumption
<1>4. /\ CalmProofs!Security!Spec => []CalmProofs!Security!OwnResult
      /\ CalmProofs!Browse!Spec => []CalmProofs!Browse!OwnResults
  <2>1. /\ CalmProofs!Security!Spec
           => [](CalmProofs!Security!SequentialChecks /\ CalmProofs!Security!OwnResult)
        /\ CalmProofs!Browse!Spec
           => [](CalmProofs!Browse!OneBuild /\ CalmProofs!Browse!OwnResults)
    BY <1>2, CalmProofs!ChecksAreOwn, CalmProofs!BrowseKeeps
  <2> QED BY <2>1, PTL
<1>5. /\ CalmProofs!Tools!Spec => []CalmProofs!Tools!OwnAnswerShown
      /\ CalmProofs!Compare!Spec => []CalmProofs!Compare!OwnAnswerShown
      /\ CalmProofs!Reports!Spec => []CalmProofs!Reports!WrappedIsCurrent
      /\ UpdatesT!Spec => []UpdatesT!OwnReport
  BY <1>2, <1>3, CalmProofs!ToolsAnswer, CalmProofs!CompareAnswer, CalmProofs!SummaryIsCurrent,
     UpdatesT!ReportIsOwn
<1>6. /\ CalmProofs!Security!OwnResult \/ ~IsCalm("security")
      /\ CalmProofs!Tools!OwnAnswerShown \/ ~IsCalm("tools")
      /\ CalmProofs!Compare!OwnAnswerShown \/ ~IsCalm("compare")
      /\ CalmProofs!Browse!OwnResults \/ ~IsCalm("browse")
      /\ CalmProofs!Reports!WrappedIsCurrent \/ ~Chosen("reports")
      /\ UpdatesT!OwnReport \/ ~IsCalm("updates")
      => OwnAnswers
  BY SameSecurity, SameTools, SameCompare, SameBrowse, SameReports, SameUpdates
     DEF OwnAnswers, InCalm, On, Chosen, IsCalm
<1> QED BY <1>4, <1>5, <1>6, SecurityRuns, ToolsRuns, CompareRuns, BrowseRuns, ReportsRuns,
           UpdatesRuns, PTL

\* What must not run twice does not: one installation from the band without
\* condition; one conversion on the conditions of AnswersReach; one check of a
\* kind, one build and one transfer of the fleet page on the first visit, if no
\* call and no check outlives its time-out; and no record comes back twice, if
\* the changes of the history do not overlap and succeed.
THEOREM NothingRunsTwice ==
    Once({"security", "cloud", "browse"}) /\ CloudPages[FALSE] = {"fleet"}
    => (Spec => []OneAtATime)
<1> SUFFICES ASSUME Once({"security", "cloud", "browse"}), CloudPages[FALSE] = {"fleet"}
             PROVE  Spec => []OneAtATime
  OBVIOUS
<1>1. CalmPages!PagesAssumption
  BY DesktopAssumption
<1>2. CalmProofs!SecurityOnce /\ CalmProofs!FleetOnce /\ CalmProofs!BrowseOnce
  BY <1>1, SameSecurity, SameCloud, SameBrowse
     DEF Once, CalmPages!PagesAssumption, CalmPages!PanelsAssumption, CalmProofs!SecurityOnce,
         CalmProofs!FleetOnce,
         CalmProofs!BrowseOnce
<1>3. ConvertT!Alone /\ CalmProofs!PatientUser /\ CalmProofs!CalmUse
  BY <1>1, SameConvert, SameQt, SameInstalled
     DEF CalmPages!PagesAssumption, CalmPages!PanelsAssumption, ConvertT!Alone,
         CalmProofs!PatientUser, CalmProofs!CalmUse
<1>4. /\ CalmProofs!Security!Spec => []CalmProofs!Security!SequentialChecks
      /\ CalmProofs!Browse!Spec => []CalmProofs!Browse!OneBuild
  <2>1. /\ CalmProofs!Security!Spec
           => [](CalmProofs!Security!SequentialChecks /\ CalmProofs!Security!OwnResult)
        /\ CalmProofs!Browse!Spec
           => [](CalmProofs!Browse!OneBuild /\ CalmProofs!Browse!OwnResults)
    BY <1>2, CalmProofs!ChecksAreOwn, CalmProofs!BrowseKeeps
  <2> QED BY <2>1, PTL
<1>5. /\ ConvertT!Spec => []ConvertT!OneConversion
      /\ CalmProofs!Qt!Spec => []CalmProofs!Qt!OneConversion
      /\ CalmProofs!Cloud!Spec => []CalmProofs!Cloud!OneTransfer
      /\ CalmProofs!Actions!Spec => []CalmProofs!Actions!OneBandInstall
      /\ CalmProofs!Installed!Spec => []CalmProofs!Installed!NothingTwice
  BY <1>2, <1>3, ConvertT!OneAtATime, CalmProofs!OneAtATime, CalmProofs!TransfersAlone,
     CalmProofs!OneInstallation, CalmProofs!NothingComesTwice
<1>6. /\ ConvertT!OneConversion \/ ~IsCalm("convert")
      /\ CalmProofs!Qt!OneConversion \/ ~IsCalm("qt")
      /\ CalmProofs!Security!SequentialChecks \/ ~IsCalm("security")
      /\ CalmProofs!Cloud!OneTransfer \/ ~IsCalm("cloud")
      /\ CalmProofs!Actions!OneBandInstall \/ ~Chosen("actions")
      /\ CalmProofs!Browse!OneBuild \/ ~IsCalm("browse")
      /\ CalmProofs!Installed!NothingTwice \/ ~IsCalm("installed")
      => OneAtATime
  BY SameConvert, SameQt, SameSecurity, SameCloud, SameActions, SameBrowse, SameInstalled
     DEF OneAtATime, InCalm, On, Chosen, IsCalm
<1> QED BY <1>4, <1>5, <1>6, ConvertRuns, QtRuns, SecurityRuns, CloudRuns, ActionsRuns,
           BrowseRuns, InstalledRuns, PTL

\* No event of a stream is lost without a queue that was full, nor out of its
\* order, whoever subscribes when; and no record of the history is lost, if no
\* change of it overlaps another, none is added during one, and all succeed.
THEOREM NothingIsLost == Spec => []NothingLost
<1>1. CalmProofs!Installed!Spec => []CalmProofs!Installed!NothingLost
  BY SameInstalled, DesktopAssumption, CalmProofs!NothingIsLost
     DEF CalmProofs!CalmUse, CalmPages!PagesAssumption, CalmPages!PanelsAssumption
<1>2. CalmProofs!Bus!EventBusAssumption
  BY SameBus, DesktopAssumption DEF CalmPages!PagesAssumption, CalmPages!PanelsAssumption
<1>3. /\ CalmProofs!Bus!Spec => []CalmProofs!Bus!NoGap
      /\ CalmProofs!Bus!Spec => []CalmProofs!Bus!OrderKept
  BY <1>2, CalmProofs!NoEventIsMissed, CalmProofs!EventsKeepTheirOrder
<1>4. /\ CalmProofs!Installed!NothingLost \/ ~IsCalm("installed")
      /\ (CalmProofs!Bus!NoGap /\ CalmProofs!Bus!OrderKept) \/ ~Chosen("bus")
      => NothingLost
  BY SameInstalled, SameBus DEF NothingLost, InCalm, On, Chosen, IsCalm
<1> QED BY <1>1, <1>3, <1>4, InstalledRuns, BusRuns, PTL

\* When all calls are answered a page shows what the sidecar has, if its calls
\* succeed and are answered in their order; settings and schedule moreover if one
\* call at a time writes their file.
THEOREM RestShowsTheTruth ==
    Once({"profiles"}) /\ Imports[FALSE] \subseteq CalmPages!Settings!Settings
    => (Spec => []RestIsTruthful)
<1> SUFFICES ASSUME Once({"profiles"}), Imports[FALSE] \subseteq CalmPages!Settings!Settings
             PROVE  Spec => []RestIsTruthful
  OBVIOUS
<1>1. CalmPages!PagesAssumption /\ CalmPages!PanelsAssumption
  BY DesktopAssumption DEF CalmPages!PagesAssumption
<1>2. /\ CalmProofs!Plugins!PluginsAssumption /\ CalmProofs!PageAlone
      /\ CalmProofs!Cards!ProfilesAssumption /\ Visits[FALSE]["profiles"] <= 1
      /\ UpdatesT!AloneAndSerial /\ CalmProofs!CalmUse
  BY <1>1, SamePlugins, SameSettings, SameCards, SameUpdates, SameInstalled
     DEF Once, CalmPages!PagesAssumption, CalmPages!PanelsAssumption, CalmProofs!PageAlone,
         UpdatesT!AloneAndSerial, CalmProofs!CalmUse
<1>3. CalmProofs!Settings!Spec
        => []CalmProofs!Settings!DirtyTruthful /\ []CalmProofs!Settings!LanguageAgrees
  <2>1. CalmProofs!Settings!Spec
          => [](CalmProofs!Settings!DirtyTruthful /\ CalmProofs!Settings!LanguageAgrees)
    BY <1>2, CalmProofs!SettingsTrue
  <2> QED BY <2>1, PTL
<1>4. /\ CalmProofs!Snapshots!Spec => []CalmProofs!Snapshots!CardTruthful
      /\ CalmProofs!Plugins!Spec => []CalmProofs!Plugins!ListTruthful
      /\ CalmProofs!Topbar!Spec => []CalmProofs!Topbar!TogglesPersist
      /\ CalmProofs!Cards!Spec => []CalmProofs!Cards!CardsTruthful
      /\ UpdatesT!Spec => []UpdatesT!CardTruthful
      /\ CalmProofs!BatchList!Spec => []CalmProofs!BatchList!ListTruthful
      /\ CalmProofs!Installed!Spec => []CalmProofs!Installed!ListTruthful
  BY <1>2, CalmProofs!SnapshotsTrue, CalmProofs!PluginsTrue, CalmProofs!TopbarTrue,
     CalmProofs!CardsTrue, UpdatesT!CardIsTruthful, CalmProofs!BatchTrue, CalmProofs!ListIsTruthful
<1>5. /\ CalmProofs!Snapshots!CardTruthful \/ ~IsCalm("snapshots")
      /\ CalmProofs!Plugins!ListTruthful \/ ~IsCalm("plugins")
      /\ (CalmProofs!Settings!DirtyTruthful /\ CalmProofs!Settings!LanguageAgrees)
         \/ ~IsCalm("settings")
      /\ CalmProofs!Topbar!TogglesPersist \/ ~Chosen("topbar")
      /\ CalmProofs!Cards!CardsTruthful \/ ~IsCalm("profiles")
      /\ UpdatesT!CardTruthful \/ ~IsCalm("updates")
      /\ CalmProofs!BatchList!ListTruthful \/ ~IsCalm("batch")
      /\ CalmProofs!Installed!ListTruthful \/ ~IsCalm("installed")
      => RestIsTruthful
  BY SameSnapshots, SamePlugins, SameSettings, SameTopbar, SameCards, SameUpdates, SameBatchList,
     SameInstalled
     DEF RestIsTruthful, InCalm, On, Chosen, IsCalm
<1> QED BY <1>3, <1>4, <1>5, SnapshotsRuns, PluginsRuns, SettingsRuns, TopbarRuns, CardsRuns,
           UpdatesRuns, BatchListRuns, InstalledRuns, PTL

\* What a page waits for is under way: the pages that WaitsEnd takes calm (the
\* checks, on one visit) or that are modelled in one way only.
CalmWaitsEnd ==
    /\ InCalm("security", CalmPages!Security!LoadingExact)
    /\ On("reports", CalmPages!Reports!SpinnersEnd /\ CalmPages!Reports!NeverBlank)
    /\ On("export", CalmPages!Export!SpinnersEnd /\ CalmPages!Export!NoRetryWhileBusy)
    /\ On("actions", CalmPages!Actions!WaitsEnd)
    /\ InCalm("qt", CalmPages!Qt!NeverStalls)
THEOREM CalmWaits == Once({"security"}) => (Spec => []CalmWaitsEnd)
<1> SUFFICES ASSUME Once({"security"}) PROVE Spec => []CalmWaitsEnd
  OBVIOUS
<1>1. CalmProofs!SecurityOnce /\ CalmProofs!Qt!QtQueueAssumption
  BY DesktopAssumption, SameSecurity, SameQt
     DEF Once, CalmProofs!SecurityOnce, CalmPages!PagesAssumption, CalmPages!PanelsAssumption
<1>2. /\ CalmProofs!Security!Spec => []CalmProofs!Security!LoadingExact
      /\ CalmProofs!Actions!Spec => []CalmProofs!Actions!WaitsEnd
      /\ CalmProofs!Qt!Spec => []CalmProofs!Qt!NeverStalls
      /\ CalmProofs!Reports!Spec
           => [](CalmProofs!Reports!SpinnersEnd /\ CalmProofs!Reports!NeverBlank)
      /\ CalmProofs!Export!Spec
           => [](CalmProofs!Export!SpinnersEnd /\ CalmProofs!Export!NoRetryWhileBusy)
  BY <1>1, CalmProofs!SpinnerIsExact, CalmProofs!ActionsRest, CalmProofs!NoFileIsForgotten,
     CalmProofs!ReportsRest, CalmProofs!ExportRests
<1>3. /\ CalmProofs!Security!LoadingExact \/ ~IsCalm("security")
      /\ CalmProofs!Actions!WaitsEnd \/ ~Chosen("actions")
      /\ CalmProofs!Qt!NeverStalls \/ ~IsCalm("qt")
      /\ (CalmProofs!Reports!SpinnersEnd /\ CalmProofs!Reports!NeverBlank) \/ ~Chosen("reports")
      /\ (CalmProofs!Export!SpinnersEnd /\ CalmProofs!Export!NoRetryWhileBusy)
         \/ ~Chosen("export")
      => CalmWaitsEnd
  BY SameSecurity, SameActions, SameQt, SameReports, SameExport
     DEF CalmWaitsEnd, InCalm, On, Chosen, IsCalm
<1> QED BY <1>2, <1>3, SecurityRuns, ActionsRuns, QtRuns, ReportsRuns, ExportRuns, PTL

\* The active profile exists.
THEOREM ActiveProfileExists == Once({"profiles"}) => (Spec => []ActiveExists)
<1> SUFFICES ASSUME Once({"profiles"}) PROVE Spec => []ActiveExists
  OBVIOUS
<1>1. CalmProofs!Cards!Spec => []CalmProofs!Cards!ActiveExists
  BY SameCards, DesktopAssumption, CalmProofs!CardsActiveExists
     DEF Once, CalmPages!PagesAssumption, CalmPages!PanelsAssumption
<1>2. CalmProofs!Cards!ActiveExists \/ ~IsCalm("profiles") => ActiveExists
  BY SameCards DEF ActiveExists, InCalm, IsCalm
<1> QED BY <1>1, <1>2, CardsRuns, PTL

\* The batch tab never clears or adds under a working dispatcher, if its calls
\* are served in their order, and queue.start is answered before the client gives
\* up on it.
THEOREM ClearsOnlyAtRest == Spec => NoClearWhileRunning
<1>1. CalmProofs!BatchList!Spec => []CalmProofs!BatchInv
  BY CalmProofs!BatchInvariant
<1>2. CalmProofs!BatchInv \/ ~IsCalm("batch")
      => (InCalm("batch", CalmPages!BatchList!ClearsAtRest))
  BY SameBatchList, CalmProofs!BatchClears DEF InCalm, IsCalm
<1> QED BY <1>1, <1>2, BatchListRuns, PTL DEF NoClearWhileRunning

-----------------------------------------------------------------------------
(* The rough pages that the theorems are about are those of the desktop *)

\* The rough pages, with their proofs
RoughProofs   == INSTANCE MorePanelsProofs WITH
    Rough <- TRUE, Jobs <- Jobs[TRUE], Visits <- Visits[TRUE], Packages <- Packages[TRUE],
    SomeProfiles <- SomeProfiles[TRUE], Imports <- Imports[TRUE],
    CloudPages <- CloudPages[TRUE], MaxItems <- MaxItems[TRUE], MaxShift <- MaxShift[TRUE],
    Records <- Records[TRUE]
RoughUpdatesT == INSTANCE UpdatesPageProofs WITH
    Serial <- ~TRUE, Others <- TRUE, Intervals <- Intervals[TRUE], MaxTime <- MaxTime[TRUE],
    MaxJobs <- Jobs[TRUE]["updates"], MaxVisits <- Visits[TRUE]["updates"]

IsRough(s) == subject = s /\ rough

LEMMA SameRoughSecurity ==
  /\ (RoughPages!Security!SecurityAssumption <=> RoughProofs!Security!SecurityAssumption)
  /\ (RoughPages!Security!Init <=> RoughProofs!Security!Init)
  /\ (RoughPages!Security!Next <=> RoughProofs!Security!Next)
  /\ RoughPages!Security!vars = RoughProofs!Security!vars
  /\ (RoughPages!Security!NoStuckLoading <=> RoughProofs!Security!NoStuckLoading)
  BY Zenon DEF
    RoughPages!Security!Cardinality, RoughProofs!Security!Cardinality,
    RoughPages!Security!SecurityAssumption, RoughProofs!Security!SecurityAssumption,
    RoughPages!Security!vars, RoughProofs!Security!vars, RoughPages!Security!Checks,
    RoughProofs!Security!Checks, RoughPages!Security!Blank, RoughProofs!Security!Blank,
    RoughPages!Security!Init, RoughProofs!Security!Init, RoughPages!Security!TabContent,
    RoughProofs!Security!TabContent, RoughPages!Security!SelectTab,
    RoughProofs!Security!SelectTab, RoughPages!Security!SetPath,
    RoughProofs!Security!SetPath, RoughPages!Security!Room, RoughProofs!Security!Room,
    RoughPages!Security!Issue, RoughProofs!Security!Issue, RoughPages!Security!requirePath,
    RoughProofs!Security!requirePath, RoughPages!Security!Press,
    RoughProofs!Security!Press, RoughPages!Security!PressAll,
    RoughProofs!Security!PressAll, RoughPages!Security!Advanced,
    RoughProofs!Security!Advanced, RoughPages!Security!NextCheck,
    RoughProofs!Security!NextCheck, RoughPages!Security!Bind, RoughProofs!Security!Bind,
    RoughPages!Security!Expire, RoughProofs!Security!Expire, RoughPages!Security!EndRun,
    RoughProofs!Security!EndRun, RoughPages!Security!ResultOf,
    RoughProofs!Security!ResultOf, RoughPages!Security!Respond,
    RoughProofs!Security!Respond, RoughPages!Security!TimesOut,
    RoughProofs!Security!TimesOut, RoughPages!Security!Done, RoughProofs!Security!Done,
    RoughPages!Security!Reopen, RoughProofs!Security!Reopen, RoughPages!Security!GoOn,
    RoughProofs!Security!GoOn, RoughPages!Security!Next, RoughProofs!Security!Next,
    RoughPages!Security!Working, RoughProofs!Security!Working,
    RoughPages!Security!NoStuckLoading, RoughProofs!Security!NoStuckLoading

LEMMA SameRoughTools ==
  /\ (RoughPages!Tools!Init <=> RoughProofs!Tools!Init)
  /\ (RoughPages!Tools!Next <=> RoughProofs!Tools!Next)
  /\ RoughPages!Tools!vars = RoughProofs!Tools!vars
  /\ (RoughPages!Tools!NoStuckBusy <=> RoughProofs!Tools!NoStuckBusy)
  BY Zenon DEF
    RoughPages!Tools!Tools, RoughProofs!Tools!Tools, RoughPages!Tools!vars,
    RoughProofs!Tools!vars, RoughPages!Tools!Quiet, RoughProofs!Tools!Quiet,
    RoughPages!Tools!Nobody, RoughProofs!Tools!Nobody, RoughPages!Tools!Init,
    RoughProofs!Tools!Init, RoughPages!Tools!Open, RoughProofs!Tools!Open,
    RoughPages!Tools!Leave, RoughProofs!Tools!Leave, RoughPages!Tools!Card,
    RoughProofs!Tools!Card, RoughPages!Tools!Submit, RoughProofs!Tools!Submit,
    RoughPages!Tools!handleRpm, RoughProofs!Tools!handleRpm, RoughPages!Tools!handleAbi,
    RoughProofs!Tools!handleAbi, RoughPages!Tools!handleAudit,
    RoughProofs!Tools!handleAudit, RoughPages!Tools!handleScan,
    RoughProofs!Tools!handleScan, RoughPages!Tools!handleAttest,
    RoughProofs!Tools!handleAttest, RoughPages!Tools!handlePublish,
    RoughProofs!Tools!handlePublish, RoughPages!Tools!handleRehearse,
    RoughProofs!Tools!handleRehearse, RoughPages!Tools!handleCompare,
    RoughProofs!Tools!handleCompare, RoughPages!Tools!Settle, RoughProofs!Tools!Settle,
    RoughPages!Tools!Done, RoughProofs!Tools!Done, RoughPages!Tools!Respond,
    RoughProofs!Tools!Respond, RoughPages!Tools!TimesOut, RoughProofs!Tools!TimesOut,
    RoughPages!Tools!Next, RoughProofs!Tools!Next, RoughPages!Tools!NoStuckBusy,
    RoughProofs!Tools!NoStuckBusy

LEMMA SameRoughCompare ==
  /\ (RoughPages!Compare!Init <=> RoughProofs!Compare!Init)
  /\ (RoughPages!Compare!Next <=> RoughProofs!Compare!Next)
  /\ RoughPages!Compare!vars = RoughProofs!Compare!vars
  /\ (RoughPages!Compare!NoStuckBusy <=> RoughProofs!Compare!NoStuckBusy)
  BY Zenon DEF
    RoughPages!Compare!Tools, RoughProofs!Compare!Tools, RoughPages!Compare!vars,
    RoughProofs!Compare!vars, RoughPages!Compare!Quiet, RoughProofs!Compare!Quiet,
    RoughPages!Compare!Nobody, RoughProofs!Compare!Nobody, RoughPages!Compare!Init,
    RoughProofs!Compare!Init, RoughPages!Compare!Open, RoughProofs!Compare!Open,
    RoughPages!Compare!Leave, RoughProofs!Compare!Leave, RoughPages!Compare!Card,
    RoughProofs!Compare!Card, RoughPages!Compare!Submit, RoughProofs!Compare!Submit,
    RoughPages!Compare!handleRpm, RoughProofs!Compare!handleRpm,
    RoughPages!Compare!handleAbi, RoughProofs!Compare!handleAbi,
    RoughPages!Compare!handleAudit, RoughProofs!Compare!handleAudit,
    RoughPages!Compare!handleScan, RoughProofs!Compare!handleScan,
    RoughPages!Compare!handleAttest, RoughProofs!Compare!handleAttest,
    RoughPages!Compare!handlePublish, RoughProofs!Compare!handlePublish,
    RoughPages!Compare!handleRehearse, RoughProofs!Compare!handleRehearse,
    RoughPages!Compare!handleCompare, RoughProofs!Compare!handleCompare,
    RoughPages!Compare!Settle, RoughProofs!Compare!Settle, RoughPages!Compare!Done,
    RoughProofs!Compare!Done, RoughPages!Compare!Respond, RoughProofs!Compare!Respond,
    RoughPages!Compare!TimesOut, RoughProofs!Compare!TimesOut, RoughPages!Compare!Next,
    RoughProofs!Compare!Next, RoughPages!Compare!NoStuckBusy,
    RoughProofs!Compare!NoStuckBusy

LEMMA SameRoughInstalled ==
  /\ (RoughPages!Installed!Init <=> RoughProofs!Installed!Init)
  /\ (RoughPages!Installed!Next <=> RoughProofs!Installed!Next)
  /\ RoughPages!Installed!vars = RoughProofs!Installed!vars
  /\ (RoughPages!Installed!SpinnersEnd <=> RoughProofs!Installed!SpinnersEnd)
  BY Zenon DEF
    RoughPages!Installed!Cardinality, RoughProofs!Installed!Cardinality,
    RoughPages!Installed!vars, RoughProofs!Installed!vars, RoughPages!Installed!Zero,
    RoughProofs!Installed!Zero, RoughPages!Installed!Init, RoughProofs!Installed!Init,
    RoughPages!Installed!Changing, RoughProofs!Installed!Changing,
    RoughPages!Installed!Room, RoughProofs!Installed!Room, RoughPages!Installed!Called,
    RoughProofs!Installed!Called, RoughPages!Installed!Open, RoughProofs!Installed!Open,
    RoughPages!Installed!Leave, RoughProofs!Installed!Leave, RoughPages!Installed!load,
    RoughProofs!Installed!load, RoughPages!Installed!Ask, RoughProofs!Installed!Ask,
    RoughPages!Installed!AskClear, RoughProofs!Installed!AskClear,
    RoughPages!Installed!AskUninstall, RoughProofs!Installed!AskUninstall,
    RoughPages!Installed!Close, RoughProofs!Installed!Close, RoughPages!Installed!Cancel,
    RoughProofs!Installed!Cancel, RoughPages!Installed!handleUninstall,
    RoughProofs!Installed!handleUninstall, RoughPages!Installed!handleClear,
    RoughProofs!Installed!handleClear, RoughPages!Installed!handleRestore,
    RoughProofs!Installed!handleRestore, RoughPages!Installed!Lapse,
    RoughProofs!Installed!Lapse, RoughPages!Installed!add_record,
    RoughProofs!Installed!add_record, RoughPages!Installed!Work,
    RoughProofs!Installed!Work, RoughPages!Installed!Here, RoughProofs!Installed!Here,
    RoughPages!Installed!Reload, RoughProofs!Installed!Reload,
    RoughPages!Installed!Fetched, RoughProofs!Installed!Fetched,
    RoughPages!Installed!Cleared, RoughProofs!Installed!Cleared,
    RoughPages!Installed!Restored, RoughProofs!Installed!Restored,
    RoughPages!Installed!Listed, RoughProofs!Installed!Listed, RoughPages!Installed!Failed,
    RoughProofs!Installed!Failed, RoughPages!Installed!Respond,
    RoughProofs!Installed!Respond, RoughPages!Installed!Next, RoughProofs!Installed!Next,
    RoughPages!Installed!SpinnersEnd, RoughProofs!Installed!SpinnersEnd

LEMMA SameRoughBrowse ==
  /\ (RoughPages!Browse!Init <=> RoughProofs!Browse!Init)
  /\ (RoughPages!Browse!Next <=> RoughProofs!Browse!Next)
  /\ RoughPages!Browse!vars = RoughProofs!Browse!vars
  /\ (RoughPages!Browse!WaitsEnd <=> RoughProofs!Browse!WaitsEnd)
  BY Zenon DEF
    RoughPages!Browse!vars, RoughProofs!Browse!vars, RoughPages!Browse!Init,
    RoughProofs!Browse!Init, RoughPages!Browse!Called, RoughProofs!Browse!Called,
    RoughPages!Browse!Open, RoughProofs!Browse!Open, RoughPages!Browse!Leave,
    RoughProofs!Browse!Leave, RoughPages!Browse!doSearch, RoughProofs!Browse!doSearch,
    RoughPages!Browse!handleSearch, RoughProofs!Browse!handleSearch,
    RoughPages!Browse!handleLoadMore, RoughProofs!Browse!handleLoadMore,
    RoughPages!Browse!Listed, RoughProofs!Browse!Listed, RoughPages!Browse!handleInfo,
    RoughProofs!Browse!handleInfo, RoughPages!Browse!handleBuild,
    RoughProofs!Browse!handleBuild, RoughPages!Browse!Progress,
    RoughProofs!Browse!Progress, RoughPages!Browse!SearchDone,
    RoughProofs!Browse!SearchDone, RoughPages!Browse!InfoDone, RoughProofs!Browse!InfoDone,
    RoughPages!Browse!BuildDone, RoughProofs!Browse!BuildDone, RoughPages!Browse!GiveUp,
    RoughProofs!Browse!GiveUp, RoughPages!Browse!Refused, RoughProofs!Browse!Refused,
    RoughPages!Browse!TimesOut, RoughProofs!Browse!TimesOut, RoughPages!Browse!Next,
    RoughProofs!Browse!Next, RoughPages!Browse!WaitsEnd, RoughProofs!Browse!WaitsEnd

LEMMA SameRoughSnapshots ==
  /\ (RoughPages!Snapshots!Init <=> RoughProofs!Snapshots!Init)
  /\ (RoughPages!Snapshots!Next <=> RoughProofs!Snapshots!Next)
  /\ RoughPages!Snapshots!vars = RoughProofs!Snapshots!vars
  /\ (RoughPages!Snapshots!NoStuckBusy <=> RoughProofs!Snapshots!NoStuckBusy)
  BY Zenon DEF
    RoughPages!Snapshots!Cardinality, RoughProofs!Snapshots!Cardinality,
    RoughPages!Snapshots!Pages, RoughProofs!Snapshots!Pages, RoughPages!Snapshots!Ops,
    RoughProofs!Snapshots!Ops, RoughPages!Snapshots!vars, RoughProofs!Snapshots!vars,
    RoughPages!Snapshots!Init, RoughProofs!Snapshots!Init, RoughPages!Snapshots!Called,
    RoughProofs!Snapshots!Called, RoughPages!Snapshots!Room, RoughProofs!Snapshots!Room,
    RoughPages!Snapshots!Open, RoughProofs!Snapshots!Open, RoughPages!Snapshots!Leave,
    RoughProofs!Snapshots!Leave, RoughPages!Snapshots!Refresh,
    RoughProofs!Snapshots!Refresh, RoughPages!Snapshots!Change,
    RoughProofs!Snapshots!Change, RoughPages!Snapshots!ToolsButton,
    RoughProofs!Snapshots!ToolsButton, RoughPages!Snapshots!ReportsInstall,
    RoughProofs!Snapshots!ReportsInstall, RoughPages!Snapshots!ReportsAskRemove,
    RoughProofs!Snapshots!ReportsAskRemove, RoughPages!Snapshots!ReportsAnswer,
    RoughProofs!Snapshots!ReportsAnswer, RoughPages!Snapshots!Work,
    RoughProofs!Snapshots!Work, RoughPages!Snapshots!SnapshotDone,
    RoughProofs!Snapshots!SnapshotDone, RoughPages!Snapshots!Refused,
    RoughProofs!Snapshots!Refused, RoughPages!Snapshots!Looked,
    RoughProofs!Snapshots!Looked, RoughPages!Snapshots!Next, RoughProofs!Snapshots!Next,
    RoughPages!Snapshots!NoStuckBusy, RoughProofs!Snapshots!NoStuckBusy

LEMMA SameRoughPlugins ==
  /\ (RoughPages!Plugins!PluginsAssumption <=> RoughProofs!Plugins!PluginsAssumption)
  /\ (RoughPages!Plugins!Init <=> RoughProofs!Plugins!Init)
  /\ (RoughPages!Plugins!Next <=> RoughProofs!Plugins!Next)
  /\ RoughPages!Plugins!vars = RoughProofs!Plugins!vars
  /\ (RoughPages!Plugins!SpinnersEnd <=> RoughProofs!Plugins!SpinnersEnd)
  BY Zenon DEF
    RoughPages!Plugins!Cardinality, RoughProofs!Plugins!Cardinality,
    RoughPages!Plugins!PluginsAssumption, RoughProofs!Plugins!PluginsAssumption,
    RoughPages!Plugins!Threaded, RoughProofs!Plugins!Threaded, RoughPages!Plugins!Changes,
    RoughProofs!Plugins!Changes, RoughPages!Plugins!vars, RoughProofs!Plugins!vars,
    RoughPages!Plugins!Fresh, RoughProofs!Plugins!Fresh, RoughPages!Plugins!Init,
    RoughProofs!Plugins!Init, RoughPages!Plugins!Called, RoughProofs!Plugins!Called,
    RoughPages!Plugins!Room, RoughProofs!Plugins!Room, RoughPages!Plugins!Open,
    RoughProofs!Plugins!Open, RoughPages!Plugins!Leave, RoughProofs!Plugins!Leave,
    RoughPages!Plugins!LoadAvailable, RoughProofs!Plugins!LoadAvailable,
    RoughPages!Plugins!SelectAvailable, RoughProofs!Plugins!SelectAvailable,
    RoughPages!Plugins!SelectInstalled, RoughProofs!Plugins!SelectInstalled,
    RoughPages!Plugins!RefreshAvailable, RoughProofs!Plugins!RefreshAvailable,
    RoughPages!Plugins!Offers, RoughProofs!Plugins!Offers, RoughPages!Plugins!Begin,
    RoughProofs!Plugins!Begin, RoughPages!Plugins!handleInstall,
    RoughProofs!Plugins!handleInstall, RoughPages!Plugins!handleUninstall,
    RoughProofs!Plugins!handleUninstall, RoughPages!Plugins!handleUpdate,
    RoughProofs!Plugins!handleUpdate, RoughPages!Plugins!handleAudit,
    RoughProofs!Plugins!handleAudit, RoughPages!Plugins!Work, RoughProofs!Plugins!Work,
    RoughPages!Plugins!Here, RoughProofs!Plugins!Here, RoughPages!Plugins!Reload,
    RoughProofs!Plugins!Reload, RoughPages!Plugins!PluginDone,
    RoughProofs!Plugins!PluginDone, RoughPages!Plugins!Respond,
    RoughProofs!Plugins!Respond, RoughPages!Plugins!Listed, RoughProofs!Plugins!Listed,
    RoughPages!Plugins!Next, RoughProofs!Plugins!Next, RoughPages!Plugins!SpinnersEnd,
    RoughProofs!Plugins!SpinnersEnd

LEMMA SameRoughSettings ==
  /\ (RoughPages!Settings!SettingsAssumption <=> RoughProofs!Settings!SettingsAssumption)
  /\ (RoughPages!Settings!Init <=> RoughProofs!Settings!Init)
  /\ (RoughPages!Settings!Next <=> RoughProofs!Settings!Next)
  /\ RoughPages!Settings!vars = RoughProofs!Settings!vars
  /\ (RoughPages!Settings!SpinnersEnd <=> RoughProofs!Settings!SpinnersEnd)
  BY Zenon DEF
    RoughPages!Settings!Cardinality, RoughProofs!Settings!Cardinality,
    RoughPages!Settings!Keys, RoughProofs!Settings!Keys, RoughPages!Settings!Values,
    RoughProofs!Settings!Values, RoughPages!Settings!Settings,
    RoughProofs!Settings!Settings, RoughPages!Settings!DEFAULTS,
    RoughProofs!Settings!DEFAULTS, RoughPages!Settings!Merged, RoughProofs!Settings!Merged,
    RoughPages!Settings!Some, RoughProofs!Settings!Some,
    RoughPages!Settings!SettingsAssumption, RoughProofs!Settings!SettingsAssumption,
    RoughPages!Settings!app, RoughProofs!Settings!app, RoughPages!Settings!disk,
    RoughProofs!Settings!disk, RoughPages!Settings!form, RoughProofs!Settings!form,
    RoughPages!Settings!vars, RoughProofs!Settings!vars, RoughPages!Settings!Reads,
    RoughProofs!Settings!Reads, RoughPages!Settings!Request, RoughProofs!Settings!Request,
    RoughPages!Settings!Call, RoughProofs!Settings!Call, RoughPages!Settings!Init,
    RoughProofs!Settings!Init, RoughPages!Settings!May, RoughProofs!Settings!May,
    RoughPages!Settings!toggleLang, RoughProofs!Settings!toggleLang,
    RoughPages!Settings!toggleTheme, RoughProofs!Settings!toggleTheme,
    RoughPages!Settings!setLangCmd, RoughProofs!Settings!setLangCmd,
    RoughPages!Settings!setThemeCmd, RoughProofs!Settings!setThemeCmd,
    RoughPages!Settings!Open, RoughProofs!Settings!Open, RoughPages!Settings!Leave,
    RoughProofs!Settings!Leave, RoughPages!Settings!Form, RoughProofs!Settings!Form,
    RoughPages!Settings!set, RoughProofs!Settings!set, RoughPages!Settings!handleSave,
    RoughProofs!Settings!handleSave, RoughPages!Settings!handleReset,
    RoughProofs!Settings!handleReset, RoughPages!Settings!handleImportFile,
    RoughProofs!Settings!handleImportFile, RoughPages!Settings!handleSwitchProfile,
    RoughProofs!Settings!handleSwitchProfile, RoughPages!Settings!First,
    RoughProofs!Settings!First, RoughPages!Settings!To, RoughProofs!Settings!To,
    RoughPages!Settings!Load, RoughProofs!Settings!Load, RoughPages!Settings!Save,
    RoughProofs!Settings!Save, RoughPages!Settings!Switch, RoughProofs!Settings!Switch,
    RoughPages!Settings!Answered, RoughProofs!Settings!Answered, RoughPages!Settings!Here,
    RoughProofs!Settings!Here, RoughPages!Settings!Fill, RoughProofs!Settings!Fill,
    RoughPages!Settings!Started, RoughProofs!Settings!Started, RoughPages!Settings!Toggled,
    RoughProofs!Settings!Toggled, RoughPages!Settings!Loaded, RoughProofs!Settings!Loaded,
    RoughPages!Settings!SaveDone, RoughProofs!Settings!SaveDone,
    RoughPages!Settings!Imported, RoughProofs!Settings!Imported,
    RoughPages!Settings!Switched, RoughProofs!Settings!Switched, RoughPages!Settings!Next,
    RoughProofs!Settings!Next, RoughPages!Settings!SpinnersEnd,
    RoughProofs!Settings!SpinnersEnd

LEMMA SameRoughCards ==
  /\ (RoughPages!Cards!ProfilesAssumption <=> RoughProofs!Cards!ProfilesAssumption)
  /\ (RoughPages!Cards!Init <=> RoughProofs!Cards!Init)
  /\ (RoughPages!Cards!Next <=> RoughProofs!Cards!Next)
  /\ RoughPages!Cards!vars = RoughProofs!Cards!vars
  /\ (RoughPages!Cards!BusyEnds <=> RoughProofs!Cards!BusyEnds)
  BY Zenon DEF
    RoughPages!Cards!Cardinality, RoughProofs!Cards!Cardinality,
    RoughPages!Cards!ProfilesAssumption, RoughProofs!Cards!ProfilesAssumption,
    RoughPages!Cards!Profiles, RoughProofs!Cards!Profiles, RoughPages!Cards!Changes,
    RoughProofs!Cards!Changes, RoughPages!Cards!page, RoughProofs!Cards!page,
    RoughPages!Cards!disk, RoughProofs!Cards!disk, RoughPages!Cards!vars,
    RoughProofs!Cards!vars, RoughPages!Cards!Init, RoughProofs!Cards!Init,
    RoughPages!Cards!Request, RoughProofs!Cards!Request, RoughPages!Cards!Room,
    RoughProofs!Cards!Room, RoughPages!Cards!Call, RoughProofs!Cards!Call,
    RoughPages!Cards!Open, RoughProofs!Cards!Open, RoughPages!Cards!Leave,
    RoughProofs!Cards!Leave, RoughPages!Cards!SelectTab, RoughProofs!Cards!SelectTab,
    RoughPages!Cards!Card, RoughProofs!Cards!Card, RoughPages!Cards!Row,
    RoughProofs!Cards!Row, RoughPages!Cards!Change, RoughProofs!Cards!Change,
    RoughPages!Cards!handleCreateProfile, RoughProofs!Cards!handleCreateProfile,
    RoughPages!Cards!handleSwitchProfile, RoughProofs!Cards!handleSwitchProfile,
    RoughPages!Cards!handleDeleteProfile, RoughProofs!Cards!handleDeleteProfile,
    RoughPages!Cards!confirmDeleteProfile, RoughProofs!Cards!confirmDeleteProfile,
    RoughPages!Cards!CancelDelete, RoughProofs!Cards!CancelDelete,
    RoughPages!Cards!DbusOffers, RoughProofs!Cards!DbusOffers,
    RoughPages!Cards!handleDbusStart, RoughProofs!Cards!handleDbusStart,
    RoughPages!Cards!To, RoughProofs!Cards!To, RoughPages!Cards!Accepts,
    RoughProofs!Cards!Accepts, RoughPages!Cards!Look, RoughProofs!Cards!Look,
    RoughPages!Cards!Act, RoughProofs!Cards!Act, RoughPages!Cards!Read,
    RoughProofs!Cards!Read, RoughPages!Cards!Start, RoughProofs!Cards!Start,
    RoughPages!Cards!Here, RoughProofs!Cards!Here, RoughPages!Cards!Changed,
    RoughProofs!Cards!Changed, RoughPages!Cards!Listed, RoughProofs!Cards!Listed,
    RoughPages!Cards!Looked, RoughProofs!Cards!Looked, RoughPages!Cards!DbusDone,
    RoughProofs!Cards!DbusDone, RoughPages!Cards!DbusRefused,
    RoughProofs!Cards!DbusRefused, RoughPages!Cards!Next, RoughProofs!Cards!Next,
    RoughPages!Cards!BusyEnds, RoughProofs!Cards!BusyEnds

LEMMA SameRoughCloud ==
  /\ (RoughPages!Cloud!Init <=> RoughProofs!Cloud!Init)
  /\ (RoughPages!Cloud!Next <=> RoughProofs!Cloud!Next)
  /\ RoughPages!Cloud!vars = RoughProofs!Cloud!vars
  /\ (RoughPages!Cloud!WaitsEnd <=> RoughProofs!Cloud!WaitsEnd)
  BY Zenon DEF
    RoughPages!Cloud!Transfers, RoughProofs!Cloud!Transfers, RoughPages!Cloud!Direct,
    RoughProofs!Cloud!Direct, RoughPages!Cloud!vars, RoughProofs!Cloud!vars,
    RoughPages!Cloud!Init, RoughProofs!Cloud!Init, RoughPages!Cloud!Call,
    RoughProofs!Cloud!Call, RoughPages!Cloud!OpenFleet, RoughProofs!Cloud!OpenFleet,
    RoughPages!Cloud!FleetCard, RoughProofs!Cloud!FleetCard, RoughPages!Cloud!RefreshFleet,
    RoughProofs!Cloud!RefreshFleet, RoughPages!Cloud!FleetSync,
    RoughProofs!Cloud!FleetSync, RoughPages!Cloud!OpenSettings,
    RoughProofs!Cloud!OpenSettings, RoughPages!Cloud!EditUrl, RoughProofs!Cloud!EditUrl,
    RoughPages!Cloud!CloudTab, RoughProofs!Cloud!CloudTab, RoughPages!Cloud!runSyncCall,
    RoughProofs!Cloud!runSyncCall, RoughPages!Cloud!Leave, RoughProofs!Cloud!Leave,
    RoughPages!Cloud!Here, RoughProofs!Cloud!Here, RoughPages!Cloud!Begin,
    RoughProofs!Cloud!Begin, RoughPages!Cloud!SyncDone, RoughProofs!Cloud!SyncDone,
    RoughPages!Cloud!Respond, RoughProofs!Cloud!Respond, RoughPages!Cloud!Looked,
    RoughProofs!Cloud!Looked, RoughPages!Cloud!Next, RoughProofs!Cloud!Next,
    RoughPages!Cloud!WaitsEnd, RoughProofs!Cloud!WaitsEnd

LEMMA SameRoughUpdates ==
  /\ (RoughPages!Updates!UpdatesAssumption <=> RoughUpdatesT!UpdatesAssumption)
  /\ (RoughPages!Updates!Init <=> RoughUpdatesT!Init)
  /\ (RoughPages!Updates!Next <=> RoughUpdatesT!Next)
  /\ RoughPages!Updates!vars = RoughUpdatesT!vars
  /\ (RoughPages!Updates!WaitsEnd <=> RoughUpdatesT!WaitsEnd)
  BY Zenon DEF
    RoughPages!Updates!Cardinality, RoughUpdatesT!Cardinality,
    RoughPages!Updates!UpdatesAssumption, RoughUpdatesT!UpdatesAssumption,
    RoughPages!Updates!Never, RoughUpdatesT!Never, RoughPages!Updates!page,
    RoughUpdatesT!page, RoughPages!Updates!side, RoughUpdatesT!side,
    RoughPages!Updates!vars, RoughUpdatesT!vars, RoughPages!Updates!Writes,
    RoughUpdatesT!Writes, RoughPages!Updates!Asks, RoughUpdatesT!Asks,
    RoughPages!Updates!Init, RoughUpdatesT!Init, RoughPages!Updates!Request,
    RoughUpdatesT!Request, RoughPages!Updates!Room, RoughUpdatesT!Room,
    RoughPages!Updates!Call, RoughUpdatesT!Call, RoughPages!Updates!KeepJobs,
    RoughUpdatesT!KeepJobs, RoughPages!Updates!Open, RoughUpdatesT!Open,
    RoughPages!Updates!Leave, RoughUpdatesT!Leave, RoughPages!Updates!ScheduleCard,
    RoughUpdatesT!ScheduleCard, RoughPages!Updates!ScheduleSet, RoughUpdatesT!ScheduleSet,
    RoughPages!Updates!handleScheduleToggle, RoughUpdatesT!handleScheduleToggle,
    RoughPages!Updates!handleScheduleInterval, RoughUpdatesT!handleScheduleInterval,
    RoughPages!Updates!handleScheduleRun, RoughUpdatesT!handleScheduleRun,
    RoughPages!Updates!RefreshDelta, RoughUpdatesT!RefreshDelta,
    RoughPages!Updates!DeltaCard, RoughUpdatesT!DeltaCard, RoughPages!Updates!handleEnable,
    RoughUpdatesT!handleEnable, RoughPages!Updates!AskDisable, RoughUpdatesT!AskDisable,
    RoughPages!Updates!AnswerDisable, RoughUpdatesT!AnswerDisable,
    RoughPages!Updates!handleCrossCheck, RoughUpdatesT!handleCrossCheck,
    RoughPages!Updates!InTurn, RoughUpdatesT!InTurn, RoughPages!Updates!To,
    RoughUpdatesT!To, RoughPages!Updates!Load, RoughUpdatesT!Load, RoughPages!Updates!Save,
    RoughUpdatesT!Save, RoughPages!Updates!Work, RoughUpdatesT!Work,
    RoughPages!Updates!Due, RoughUpdatesT!Due, RoughPages!Updates!TickLoads,
    RoughUpdatesT!TickLoads, RoughPages!Updates!TickSaves, RoughUpdatesT!TickSaves,
    RoughPages!Updates!Hour, RoughUpdatesT!Hour, RoughPages!Updates!SettingsLoad,
    RoughUpdatesT!SettingsLoad, RoughPages!Updates!SettingsSave,
    RoughUpdatesT!SettingsSave, RoughPages!Updates!Answered, RoughUpdatesT!Answered,
    RoughPages!Updates!Here, RoughUpdatesT!Here, RoughPages!Updates!GotSchedule,
    RoughUpdatesT!GotSchedule, RoughPages!Updates!Changed, RoughUpdatesT!Changed,
    RoughPages!Updates!GotDelta, RoughUpdatesT!GotDelta, RoughPages!Updates!DeltaChanged,
    RoughUpdatesT!DeltaChanged, RoughPages!Updates!CrossCheckDone,
    RoughUpdatesT!CrossCheckDone, RoughPages!Updates!CrossCheckRefused,
    RoughUpdatesT!CrossCheckRefused, RoughPages!Updates!TimesOut, RoughUpdatesT!TimesOut,
    RoughPages!Updates!Unheard, RoughUpdatesT!Unheard, RoughPages!Updates!Next,
    RoughUpdatesT!Next, RoughPages!Updates!WaitsEnd, RoughUpdatesT!WaitsEnd

LEMMA SameRoughBatchList ==
  /\ (RoughPages!BatchList!Init <=> RoughProofs!BatchList!Init)
  /\ (RoughPages!BatchList!Next <=> RoughProofs!BatchList!Next)
  /\ RoughPages!BatchList!vars = RoughProofs!BatchList!vars
  /\ (RoughPages!BatchList!WaitsEnd <=> RoughProofs!BatchList!WaitsEnd)
  BY Zenon DEF
    RoughPages!BatchList!Cardinality, RoughProofs!BatchList!Cardinality,
    RoughPages!BatchList!Ids, RoughProofs!BatchList!Ids, RoughPages!BatchList!Priorities,
    RoughProofs!BatchList!Priorities, RoughPages!BatchList!page,
    RoughProofs!BatchList!page, RoughPages!BatchList!queue, RoughProofs!BatchList!queue,
    RoughPages!BatchList!vars, RoughProofs!BatchList!vars, RoughPages!BatchList!Changes,
    RoughProofs!BatchList!Changes, RoughPages!BatchList!Queued,
    RoughProofs!BatchList!Queued, RoughPages!BatchList!Nothing,
    RoughProofs!BatchList!Nothing, RoughPages!BatchList!Init, RoughProofs!BatchList!Init,
    RoughPages!BatchList!Request, RoughProofs!BatchList!Request, RoughPages!BatchList!Room,
    RoughProofs!BatchList!Room, RoughPages!BatchList!Call, RoughProofs!BatchList!Call,
    RoughPages!BatchList!OpenTab, RoughProofs!BatchList!OpenTab,
    RoughPages!BatchList!CloseTab, RoughProofs!BatchList!CloseTab,
    RoughPages!BatchList!Tab, RoughProofs!BatchList!Tab, RoughPages!BatchList!Refresh,
    RoughProofs!BatchList!Refresh, RoughPages!BatchList!SetInstall,
    RoughProofs!BatchList!SetInstall, RoughPages!BatchList!handleBatchAdd,
    RoughProofs!BatchList!handleBatchAdd, RoughPages!BatchList!handleBatchStart,
    RoughProofs!BatchList!handleBatchStart, RoughPages!BatchList!Row,
    RoughProofs!BatchList!Row, RoughPages!BatchList!handleBatchPriority,
    RoughProofs!BatchList!handleBatchPriority, RoughPages!BatchList!handleBatchRemove,
    RoughProofs!BatchList!handleBatchRemove, RoughPages!BatchList!handleBatchCancel,
    RoughProofs!BatchList!handleBatchCancel, RoughPages!BatchList!handleBatchClearRequest,
    RoughProofs!BatchList!handleBatchClearRequest, RoughPages!BatchList!handleBatchClear,
    RoughProofs!BatchList!handleBatchClear, RoughPages!BatchList!With,
    RoughProofs!BatchList!With, RoughPages!BatchList!Without,
    RoughProofs!BatchList!Without, RoughPages!BatchList!Pending,
    RoughProofs!BatchList!Pending, RoughPages!BatchList!Running,
    RoughProofs!BatchList!Running, RoughPages!BatchList!Turn, RoughProofs!BatchList!Turn,
    RoughPages!BatchList!Answer, RoughProofs!BatchList!Answer,
    RoughPages!BatchList!QueueList, RoughProofs!BatchList!QueueList,
    RoughPages!BatchList!QueueChange, RoughProofs!BatchList!QueueChange,
    RoughPages!BatchList!QueueStart, RoughProofs!BatchList!QueueStart,
    RoughPages!BatchList!QueueCancel, RoughProofs!BatchList!QueueCancel,
    RoughPages!BatchList!Before, RoughProofs!BatchList!Before, RoughPages!BatchList!Wave,
    RoughProofs!BatchList!Wave, RoughPages!BatchList!ItemEnds,
    RoughProofs!BatchList!ItemEnds, RoughPages!BatchList!RunEnds,
    RoughProofs!BatchList!RunEnds, RoughPages!BatchList!QueueDone,
    RoughProofs!BatchList!QueueDone, RoughPages!BatchList!Answered,
    RoughProofs!BatchList!Answered, RoughPages!BatchList!Listed,
    RoughProofs!BatchList!Listed, RoughPages!BatchList!Changed,
    RoughProofs!BatchList!Changed, RoughPages!BatchList!Started,
    RoughProofs!BatchList!Started, RoughPages!BatchList!TimesOut,
    RoughProofs!BatchList!TimesOut, RoughPages!BatchList!Next, RoughProofs!BatchList!Next,
    RoughPages!BatchList!WaitsEnd, RoughProofs!BatchList!WaitsEnd

LEMMA SameRoughQt ==
  /\ (RoughPages!Qt!QtQueueAssumption <=> RoughProofs!Qt!QtQueueAssumption)
  /\ (RoughPages!Qt!Init <=> RoughProofs!Qt!Init)
  /\ (RoughPages!Qt!Next <=> RoughProofs!Qt!Next)
  /\ RoughPages!Qt!vars = RoughProofs!Qt!vars
  /\ (RoughPages!Qt!NeverStalls <=> RoughProofs!Qt!NeverStalls)
  BY Zenon DEF
    RoughPages!Qt!Cardinality, RoughProofs!Qt!Cardinality, RoughPages!Qt!Range,
    RoughProofs!Qt!Range, RoughPages!Qt!Last, RoughProofs!Qt!Last, RoughPages!Qt!Front,
    RoughProofs!Qt!Front, RoughPages!Qt!Files, RoughProofs!Qt!Files, RoughPages!Qt!vars,
    RoughProofs!Qt!vars, RoughPages!Qt!Thread, RoughProofs!Qt!Thread,
    RoughPages!Qt!QtQueueAssumption, RoughProofs!Qt!QtQueueAssumption, RoughPages!Qt!Init,
    RoughProofs!Qt!Init, RoughPages!Qt!PendingIn, RoughProofs!Qt!PendingIn,
    RoughPages!Qt!AtRest, RoughProofs!Qt!AtRest, RoughPages!Qt!StartNext,
    RoughProofs!Qt!StartNext, RoughPages!Qt!InOrder, RoughProofs!Qt!InOrder,
    RoughPages!Qt!OnFilesDropped, RoughProofs!Qt!OnFilesDropped, RoughPages!Qt!Drop,
    RoughProofs!Qt!Drop, RoughPages!Qt!Download, RoughProofs!Qt!Download,
    RoughPages!Qt!TimerFires, RoughProofs!Qt!TimerFires, RoughPages!Qt!ResetUi,
    RoughProofs!Qt!ResetUi, RoughPages!Qt!Runs, RoughProofs!Qt!Runs, RoughPages!Qt!Report,
    RoughProofs!Qt!Report, RoughPages!Qt!EndsWith, RoughProofs!Qt!EndsWith,
    RoughPages!Qt!Fails, RoughProofs!Qt!Fails, RoughPages!Qt!IsDecided,
    RoughProofs!Qt!IsDecided, RoughPages!Qt!OnCancel, RoughProofs!Qt!OnCancel,
    RoughPages!Qt!OnCompatibilityReady, RoughProofs!Qt!OnCompatibilityReady,
    RoughPages!Qt!AnswerReport, RoughProofs!Qt!AnswerReport, RoughPages!Qt!Later,
    RoughProofs!Qt!Later, RoughPages!Qt!OnPipelineFinished,
    RoughProofs!Qt!OnPipelineFinished, RoughPages!Qt!AnswerLaunch,
    RoughProofs!Qt!AnswerLaunch, RoughPages!Qt!Next, RoughProofs!Qt!Next,
    RoughPages!Qt!NeverStalls, RoughProofs!Qt!NeverStalls

-----------------------------------------------------------------------------
(* What a rough page keeps the desktop keeps *)

LEMMA RoughSecurityRuns ==
    Spec => (IsRough("security") /\ RoughProofs!Security!Spec) \/ []~IsRough("security")
<1>1. /\ Init /\ IsRough("security") => RoughProofs!Security!Init
      /\ IsRough("security") /\ [Next]_vars
         => IsRough("security")' /\ [RoughProofs!Security!Next]_(RoughProofs!Security!vars)
      /\ ~IsRough("security") /\ [Next]_vars => ~IsRough("security")'
  BY SameRoughSecurity, ChoiceStays
     DEF Init, Next, vars, IsRough, Of, Either,
         RoughProofs!Security!vars
<1> QED BY <1>1, PTL DEF Spec, RoughProofs!Security!Spec

LEMMA RoughToolsRuns == Spec => (IsRough("tools") /\ RoughProofs!Tools!Spec) \/ []~IsRough("tools")
<1>1. /\ Init /\ IsRough("tools") => RoughProofs!Tools!Init
      /\ IsRough("tools") /\ [Next]_vars
         => IsRough("tools")' /\ [RoughProofs!Tools!Next]_(RoughProofs!Tools!vars)
      /\ ~IsRough("tools") /\ [Next]_vars => ~IsRough("tools")'
  BY SameRoughTools, ChoiceStays
     DEF Init, Next, vars, IsRough, Of, Either,
         RoughProofs!Tools!vars
<1> QED BY <1>1, PTL DEF Spec, RoughProofs!Tools!Spec

LEMMA RoughCompareRuns ==
    Spec => (IsRough("compare") /\ RoughProofs!Compare!Spec) \/ []~IsRough("compare")
<1>1. /\ Init /\ IsRough("compare") => RoughProofs!Compare!Init
      /\ IsRough("compare") /\ [Next]_vars
         => IsRough("compare")' /\ [RoughProofs!Compare!Next]_(RoughProofs!Compare!vars)
      /\ ~IsRough("compare") /\ [Next]_vars => ~IsRough("compare")'
  BY SameRoughCompare, ChoiceStays
     DEF Init, Next, vars, IsRough, Of, Either,
         RoughProofs!Compare!vars
<1> QED BY <1>1, PTL DEF Spec, RoughProofs!Compare!Spec

LEMMA RoughInstalledRuns ==
    Spec => (IsRough("installed") /\ RoughProofs!Installed!Spec) \/ []~IsRough("installed")
<1>1. /\ Init /\ IsRough("installed") => RoughProofs!Installed!Init
      /\ IsRough("installed") /\ [Next]_vars
         => IsRough("installed")' /\ [RoughProofs!Installed!Next]_(RoughProofs!Installed!vars)
      /\ ~IsRough("installed") /\ [Next]_vars => ~IsRough("installed")'
  BY SameRoughInstalled, ChoiceStays
     DEF Init, Next, vars, IsRough, Of, Either,
         RoughProofs!Installed!vars
<1> QED BY <1>1, PTL DEF Spec, RoughProofs!Installed!Spec

LEMMA RoughBrowseRuns ==
    Spec => (IsRough("browse") /\ RoughProofs!Browse!Spec) \/ []~IsRough("browse")
<1>1. /\ Init /\ IsRough("browse") => RoughProofs!Browse!Init
      /\ IsRough("browse") /\ [Next]_vars
         => IsRough("browse")' /\ [RoughProofs!Browse!Next]_(RoughProofs!Browse!vars)
      /\ ~IsRough("browse") /\ [Next]_vars => ~IsRough("browse")'
  BY SameRoughBrowse, ChoiceStays
     DEF Init, Next, vars, IsRough, Of, Either,
         RoughProofs!Browse!vars
<1> QED BY <1>1, PTL DEF Spec, RoughProofs!Browse!Spec

LEMMA RoughSnapshotsRuns ==
    Spec => (IsRough("snapshots") /\ RoughProofs!Snapshots!Spec) \/ []~IsRough("snapshots")
<1>1. /\ Init /\ IsRough("snapshots") => RoughProofs!Snapshots!Init
      /\ IsRough("snapshots") /\ [Next]_vars
         => IsRough("snapshots")' /\ [RoughProofs!Snapshots!Next]_(RoughProofs!Snapshots!vars)
      /\ ~IsRough("snapshots") /\ [Next]_vars => ~IsRough("snapshots")'
  BY SameRoughSnapshots, ChoiceStays
     DEF Init, Next, vars, IsRough, Of, Either,
         RoughProofs!Snapshots!vars
<1> QED BY <1>1, PTL DEF Spec, RoughProofs!Snapshots!Spec

LEMMA RoughPluginsRuns ==
    Spec => (IsRough("plugins") /\ RoughProofs!Plugins!Spec) \/ []~IsRough("plugins")
<1>1. /\ Init /\ IsRough("plugins") => RoughProofs!Plugins!Init
      /\ IsRough("plugins") /\ [Next]_vars
         => IsRough("plugins")' /\ [RoughProofs!Plugins!Next]_(RoughProofs!Plugins!vars)
      /\ ~IsRough("plugins") /\ [Next]_vars => ~IsRough("plugins")'
  BY SameRoughPlugins, ChoiceStays
     DEF Init, Next, vars, IsRough, Of, Either,
         RoughProofs!Plugins!vars
<1> QED BY <1>1, PTL DEF Spec, RoughProofs!Plugins!Spec

LEMMA RoughSettingsRuns ==
    Spec => (IsRough("settings") /\ RoughProofs!Settings!Spec) \/ []~IsRough("settings")
<1>1. /\ Init /\ IsRough("settings") => RoughProofs!Settings!Init
      /\ IsRough("settings") /\ [Next]_vars
         => IsRough("settings")' /\ [RoughProofs!Settings!Next]_(RoughProofs!Settings!vars)
      /\ ~IsRough("settings") /\ [Next]_vars => ~IsRough("settings")'
  BY SameRoughSettings, ChoiceStays
     DEF Init, Next, vars, IsRough, Of, Either,
         RoughProofs!Settings!vars
<1> QED BY <1>1, PTL DEF Spec, RoughProofs!Settings!Spec

LEMMA RoughCardsRuns ==
    Spec => (IsRough("profiles") /\ RoughProofs!Cards!Spec) \/ []~IsRough("profiles")
<1>1. /\ Init /\ IsRough("profiles") => RoughProofs!Cards!Init
      /\ IsRough("profiles") /\ [Next]_vars
         => IsRough("profiles")' /\ [RoughProofs!Cards!Next]_(RoughProofs!Cards!vars)
      /\ ~IsRough("profiles") /\ [Next]_vars => ~IsRough("profiles")'
  BY SameRoughCards, ChoiceStays
     DEF Init, Next, vars, IsRough, Of, Either,
         RoughProofs!Cards!vars
<1> QED BY <1>1, PTL DEF Spec, RoughProofs!Cards!Spec

LEMMA RoughCloudRuns == Spec => (IsRough("cloud") /\ RoughProofs!Cloud!Spec) \/ []~IsRough("cloud")
<1>1. /\ Init /\ IsRough("cloud") => RoughProofs!Cloud!Init
      /\ IsRough("cloud") /\ [Next]_vars
         => IsRough("cloud")' /\ [RoughProofs!Cloud!Next]_(RoughProofs!Cloud!vars)
      /\ ~IsRough("cloud") /\ [Next]_vars => ~IsRough("cloud")'
  BY SameRoughCloud, ChoiceStays
     DEF Init, Next, vars, IsRough, Of, Either,
         RoughProofs!Cloud!vars
<1> QED BY <1>1, PTL DEF Spec, RoughProofs!Cloud!Spec

LEMMA RoughUpdatesRuns ==
    Spec => (IsRough("updates") /\ RoughUpdatesT!Spec) \/ []~IsRough("updates")
<1>1. /\ Init /\ IsRough("updates") => RoughUpdatesT!Init
      /\ IsRough("updates") /\ [Next]_vars
         => IsRough("updates")' /\ [RoughUpdatesT!Next]_(RoughUpdatesT!vars)
      /\ ~IsRough("updates") /\ [Next]_vars => ~IsRough("updates")'
  BY SameRoughUpdates, ChoiceStays
     DEF Init, Next, vars, IsRough, Of, Either,
         RoughUpdatesT!vars
<1> QED BY <1>1, PTL DEF Spec, RoughUpdatesT!Spec

LEMMA RoughBatchListRuns ==
    Spec => (IsRough("batch") /\ RoughProofs!BatchList!Spec) \/ []~IsRough("batch")
<1>1. /\ Init /\ IsRough("batch") => RoughProofs!BatchList!Init
      /\ IsRough("batch") /\ [Next]_vars
         => IsRough("batch")' /\ [RoughProofs!BatchList!Next]_(RoughProofs!BatchList!vars)
      /\ ~IsRough("batch") /\ [Next]_vars => ~IsRough("batch")'
  BY SameRoughBatchList, ChoiceStays
     DEF Init, Next, vars, IsRough, Of, Either,
         RoughProofs!BatchList!vars
<1> QED BY <1>1, PTL DEF Spec, RoughProofs!BatchList!Spec

LEMMA RoughQtRuns == Spec => (IsRough("qt") /\ RoughProofs!Qt!Spec) \/ []~IsRough("qt")
<1>1. /\ Init /\ IsRough("qt") => RoughProofs!Qt!Init
      /\ IsRough("qt") /\ [Next]_vars
         => IsRough("qt")' /\ [RoughProofs!Qt!Next]_(RoughProofs!Qt!vars)
      /\ ~IsRough("qt") /\ [Next]_vars => ~IsRough("qt")'
  BY SameRoughQt, ChoiceStays
     DEF Init, Next, vars, IsRough, Of, Either,
         RoughProofs!Qt!vars
<1> QED BY <1>1, PTL DEF Spec, RoughProofs!Qt!Spec

-----------------------------------------------------------------------------
(* That the pages wait only for what is under way *)

\* Checks, tools, snapshots, the AUR and the history.
ChecksEnd ==
    /\ InRough("security", RoughPages!Security!NoStuckLoading)
    /\ InRough("tools", RoughPages!Tools!NoStuckBusy)
    /\ InRough("compare", RoughPages!Compare!NoStuckBusy)
    /\ InRough("snapshots", RoughPages!Snapshots!NoStuckBusy)
    /\ InRough("browse", RoughPages!Browse!WaitsEnd)
    /\ InRough("installed", RoughPages!Installed!SpinnersEnd)
LEMMA RoughChecks == Spec => []ChecksEnd
<1>1. /\ RoughProofs!Security!SecurityAssumption
  BY DesktopAssumption, SameRoughSecurity
     DEF RoughPages!PagesAssumption, RoughPages!PanelsAssumption
<1>2. /\ RoughProofs!Security!Spec => []RoughProofs!Security!NoStuckLoading
      /\ RoughProofs!Tools!Spec => []RoughProofs!Tools!NoStuckBusy
      /\ RoughProofs!Compare!Spec => []RoughProofs!Compare!NoStuckBusy
      /\ RoughProofs!Snapshots!Spec => []RoughProofs!Snapshots!NoStuckBusy
      /\ RoughProofs!Browse!Spec => []RoughProofs!Browse!WaitsEnd
      /\ RoughProofs!Installed!Spec => []RoughProofs!Installed!SpinnersEnd
  BY <1>1, RoughProofs!SecurityRests, RoughProofs!ToolsRest, RoughProofs!CompareRest,
     RoughProofs!SnapshotsRest, RoughProofs!BrowseRests, RoughProofs!SkeletonsEnd
<1>3. /\ RoughProofs!Security!NoStuckLoading \/ ~IsRough("security")
      /\ RoughProofs!Tools!NoStuckBusy \/ ~IsRough("tools")
      /\ RoughProofs!Compare!NoStuckBusy \/ ~IsRough("compare")
      /\ RoughProofs!Snapshots!NoStuckBusy \/ ~IsRough("snapshots")
      /\ RoughProofs!Browse!WaitsEnd \/ ~IsRough("browse")
      /\ RoughProofs!Installed!SpinnersEnd \/ ~IsRough("installed")
      => ChecksEnd
  BY SameRoughSecurity, SameRoughTools, SameRoughCompare, SameRoughSnapshots, SameRoughBrowse,
     SameRoughInstalled
     DEF ChecksEnd, InRough, IsRough
<1> QED BY <1>2, <1>3, RoughSecurityRuns, RoughToolsRuns, RoughCompareRuns, RoughSnapshotsRuns,
           RoughBrowseRuns, RoughInstalledRuns, PTL

\* Plugins, settings and profiles.
FormsEnd ==
    /\ InRough("plugins", RoughPages!Plugins!SpinnersEnd)
    /\ InRough("settings", RoughPages!Settings!SpinnersEnd)
    /\ InRough("profiles", RoughPages!Cards!BusyEnds)
LEMMA RoughForms == Spec => []FormsEnd
<1>1. /\ RoughProofs!Plugins!PluginsAssumption
      /\ RoughProofs!Settings!SettingsAssumption
      /\ RoughProofs!Cards!ProfilesAssumption
  BY DesktopAssumption, SameRoughPlugins, SameRoughSettings, SameRoughCards
     DEF RoughPages!PagesAssumption, RoughPages!PanelsAssumption
<1>2. /\ RoughProofs!Plugins!Spec => []RoughProofs!Plugins!SpinnersEnd
      /\ RoughProofs!Settings!Spec => []RoughProofs!Settings!SpinnersEnd
      /\ RoughProofs!Cards!Spec => []RoughProofs!Cards!BusyEnds
  BY <1>1, RoughProofs!PluginsRest, RoughProofs!SettingsRest, RoughProofs!CardsRest
<1>3. /\ RoughProofs!Plugins!SpinnersEnd \/ ~IsRough("plugins")
      /\ RoughProofs!Settings!SpinnersEnd \/ ~IsRough("settings")
      /\ RoughProofs!Cards!BusyEnds \/ ~IsRough("profiles")
      => FormsEnd
  BY SameRoughPlugins, SameRoughSettings, SameRoughCards DEF FormsEnd, InRough, IsRough
<1> QED BY <1>2, <1>3, RoughPluginsRuns, RoughSettingsRuns, RoughCardsRuns, PTL

\* Transfers, updates, the batch tab and the PyQt window.
QueuesEnd ==
    /\ InRough("cloud", RoughPages!Cloud!WaitsEnd)
    /\ InRough("updates", RoughPages!Updates!WaitsEnd)
    /\ InRough("batch", RoughPages!BatchList!WaitsEnd)
    /\ InRough("qt", RoughPages!Qt!NeverStalls)
LEMMA RoughQueues == Spec => []QueuesEnd
<1>1. /\ RoughUpdatesT!UpdatesAssumption
      /\ RoughProofs!Qt!QtQueueAssumption
  BY DesktopAssumption, SameRoughUpdates, SameRoughQt
     DEF RoughPages!PagesAssumption, RoughPages!PanelsAssumption
<1>2. /\ RoughProofs!Cloud!Spec => []RoughProofs!Cloud!WaitsEnd
      /\ RoughUpdatesT!Spec => []RoughUpdatesT!WaitsEnd
      /\ RoughProofs!BatchList!Spec => []RoughProofs!BatchList!WaitsEnd
      /\ RoughProofs!Qt!Spec => []RoughProofs!Qt!NeverStalls
  BY <1>1, RoughProofs!CloudRests, RoughUpdatesT!WaitsHaveAnEnd, RoughProofs!BatchWaitsEnd,
     RoughProofs!NoFileIsForgotten
<1>3. /\ RoughProofs!Cloud!WaitsEnd \/ ~IsRough("cloud")
      /\ RoughUpdatesT!WaitsEnd \/ ~IsRough("updates")
      /\ RoughProofs!BatchList!WaitsEnd \/ ~IsRough("batch")
      /\ RoughProofs!Qt!NeverStalls \/ ~IsRough("qt")
      => QueuesEnd
  BY SameRoughCloud, SameRoughUpdates, SameRoughBatchList, SameRoughQt
     DEF QueuesEnd, InRough, IsRough
<1> QED BY <1>2, <1>3, RoughCloudRuns, RoughUpdatesRuns, RoughBatchListRuns, RoughQtRuns, PTL

\* A page waits only for what is under way, whatever failed, overtook or was
\* left behind by an earlier visit.
THEOREM WaitsComeToAnEnd == Once({"security"}) => (Spec => []WaitsEnd)
<1> SUFFICES ASSUME Once({"security"}) PROVE Spec => []WaitsEnd
  OBVIOUS
<1>1. CalmWaitsEnd /\ ChecksEnd /\ FormsEnd /\ QueuesEnd => WaitsEnd
  BY DEF CalmWaitsEnd, ChecksEnd, FormsEnd, QueuesEnd, WaitsEnd, InCalm, InRough,
         On, Under
<1>2. Spec => []CalmWaitsEnd
  BY CalmWaits
<1> QED BY <1>1, <1>2, RoughChecks, RoughForms, RoughQueues, PTL
=============================================================================
