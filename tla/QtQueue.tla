------------------------------- MODULE QtQueue -------------------------------
(***************************************************************************)
(* The queue of the PyQt window (queue_manager.py, main_window.py).  The   *)
(* window keeps the thread of one conversion; a pipeline knows its item by *)
(* its index.  A second start drops the only reference to a QThread that   *)
(* runs, which Qt answers by ending the program.                           *)
(* A report is shown in a dialog that runs the event loop itself, so that  *)
(* timers fire and conversions end under it; its answer goes to the        *)
(* window's current pipeline.                                              *)
(***************************************************************************)
EXTENDS Naturals, FiniteSets, Sequences, SequencesExt

CONSTANTS Adds,    \* what the user adds at once: sequences of files
          Patient, \* the user adds and clears when all is done, and cancels
                   \* only when no other file waits
          MaxRuns, \* bound: conversions
          None

Files == UNION {Range(s) : s \in Adds}

VARIABLES
    entries,  \* QueueManager._items
    thread,   \* _pipeline_thread, with the flags of its pipeline, while it runs
    timers,   \* QTimer.singleShot that have not fired
    reported, \* compatibility_ready that the window has still to handle
    dialogs,  \* open reports, the last on top; None asks whether to launch what
              \* was installed
    approved, \* _install_approved
    accepts,  \* the drop zone does
    crashed,  \* the program ended
    started   \* conversions so far

vars == <<entries, thread, timers, reported, dialogs, approved, accepts, crashed, started>>

Entry  == [file : Files, status : {"pending", "processing", "finished"}, result : Files \cup {None}]
Thread == [file : Files, index : Nat \ {0}, stage : {"working", "waiting", "decided", "failed"},
           decision : {"none", "approved", "dismissed"}, cancelled : BOOLEAN]

\* What the constants have to satisfy
QtQueueAssumption ==
    /\ \A s \in Adds : s \in Seq(Files)
    /\ None \notin Files \cup Thread /\ Patient \in BOOLEAN /\ MaxRuns \in Nat

TypeOK ==
    /\ entries \in Seq(Entry) /\ thread \in Thread \cup {None} /\ timers \in 0..MaxRuns
    /\ reported \in Files \cup {None} /\ dialogs \in Seq(Files \cup {None})
    /\ approved \in BOOLEAN /\ accepts \in BOOLEAN /\ crashed \in BOOLEAN /\ started \in 0..MaxRuns

Init == /\ entries = <<>> /\ thread = None /\ timers = 0 /\ reported = None /\ dialogs = <<>>
        /\ approved = FALSE /\ accepts = TRUE /\ crashed = FALSE /\ started = 0

-----------------------------------------------------------------------------
(* Starting *)

PendingIn(s) == {i \in DOMAIN s : s[i].status = "pending"}
AtRest == thread = None /\ timers = 0 /\ dialogs = <<>>

\* get_next and _start_next_in_queue, of the queue s
StartNext(s) ==
    IF PendingIn(s) = {} THEN entries' = s /\ UNCHANGED <<thread, accepts, crashed, started>>
    ELSE LET i == CHOOSE k \in PendingIn(s) : \A j \in PendingIn(s) : k <= j IN
         /\ started < MaxRuns /\ started' = started + 1
         /\ entries' = [s EXCEPT ![i].status = "processing"]
         /\ crashed' = (thread # None)
         /\ thread' = [file |-> s[i].file, index |-> i, stage |-> "working",
                       decision |-> "none", cancelled |-> FALSE]
         /\ accepts' = FALSE

\* The positions I, in their order
InOrder(I) == {f \in [1..Cardinality(I) -> I] : \A a, b \in DOMAIN f : a < b => f[a] < f[b]}

\* add_files, but what is in the queue already, and _start_next_in_queue
OnFilesDropped(s) ==
    /\ \E new \in InOrder({i \in DOMAIN s : \A k \in DOMAIN entries : entries[k].file # s[i]}) :
           StartNext(entries \o [i \in DOMAIN new |->
                         [file |-> s[new[i]], status |-> "pending", result |-> None]])
    /\ UNCHANGED <<timers, reported, dialogs, approved>>

\* By the drop zone, which a report covers
Drop(s) == /\ ~crashed /\ accepts /\ dialogs = <<>> /\ (Patient => AtRest)
           /\ OnFilesDropped(s)
\* By the dialog for addresses, once its download is done
Download(f) == ~crashed /\ (Patient => AtRest) /\ OnFilesDropped(<<f>>)

TimerFires ==
    /\ ~crashed /\ timers > 0 /\ timers' = timers - 1 /\ StartNext(entries)
    /\ UNCHANGED <<reported, dialogs, approved>>

\* _reset_ui, by its button or its key
ResetUi ==
    /\ ~crashed /\ dialogs = <<>> /\ (Patient => AtRest)
    /\ \E kept \in InOrder({i \in DOMAIN entries : entries[i].status = "processing"}) :
           entries' = [i \in DOMAIN kept |-> entries[kept[i]]]
    /\ accepts' = TRUE
    /\ UNCHANGED <<thread, timers, reported, dialogs, approved, crashed, started>>

-----------------------------------------------------------------------------
(* The pipeline, in its thread *)

Runs(stage) == ~crashed /\ thread # None /\ thread.stage = stage

Report ==
    /\ Runs("working") /\ reported = None /\ reported' = thread.file
    /\ thread' = [thread EXCEPT !.stage = "waiting"]
    /\ UNCHANGED <<entries, timers, dialogs, approved, accepts, crashed, started>>
EndsWith(stage) ==
    /\ thread' = [thread EXCEPT !.stage = stage]
    /\ UNCHANGED <<entries, timers, reported, dialogs, approved, accepts, crashed, started>>
Fails == Runs("working") /\ EndsWith("failed")
\* _wait_for_decision returns; what was approved is installed.
IsDecided ==
    /\ Runs("waiting") /\ (thread.decision # "none" \/ thread.cancelled)
    /\ \E end \in {"decided", "failed"} : EndsWith(end)

-----------------------------------------------------------------------------
(* The window *)

OnCancel ==
    /\ ~crashed /\ thread # None /\ dialogs = <<>> /\ (Patient => PendingIn(entries) = {})
    /\ thread' = [thread EXCEPT !.cancelled = TRUE]
    /\ UNCHANGED <<entries, timers, reported, dialogs, approved, accepts, crashed, started>>

OnCompatibilityReady ==
    /\ ~crashed /\ reported # None /\ reported' = None /\ dialogs' = Append(dialogs, reported)
    /\ UNCHANGED <<entries, thread, timers, approved, accepts, crashed, started>>

\* The report on top is answered or closed; closing it also frees the drop zone.
AnswerReport(decision) ==
    /\ ~crashed /\ dialogs # <<>> /\ Last(dialogs) # None /\ dialogs' = Front(dialogs)
    /\ thread' = IF thread = None THEN None ELSE [thread EXCEPT !.decision = decision]
    /\ accepts' = (accepts \/ decision = "dismissed")
    /\ approved' = (approved \/ decision = "approved")
    /\ UNCHANGED <<entries, timers, reported, crashed, started>>

\* The next item a second later
Later(s) == timers' = IF PendingIn(s) = {} THEN timers ELSE timers + 1

\* mark_finished by index, if there is one; then the question whether to launch
\* what was installed, if it was asked for
OnPipelineFinished ==
    /\ Runs("decided") \/ Runs("failed")
    /\ reported = None /\ thread' = None /\ accepts' = TRUE
    /\ entries' = IF thread.index \notin DOMAIN entries THEN entries
                  ELSE [entries EXCEPT ![thread.index].status = "finished",
                                       ![thread.index].result = thread.file]
    /\ LET success == thread.stage = "decided" /\ thread.decision = "approved" /\ ~thread.cancelled
       IN  /\ approved' = (approved /\ ~success)
           /\ IF success /\ approved THEN dialogs' = Append(dialogs, None) /\ UNCHANGED timers
                                    ELSE Later(entries') /\ UNCHANGED dialogs
    /\ UNCHANGED <<reported, crashed, started>>

AnswerLaunch ==
    /\ ~crashed /\ dialogs # <<>> /\ Last(dialogs) = None /\ dialogs' = Front(dialogs)
    /\ Later(entries)
    /\ UNCHANGED <<entries, thread, reported, approved, accepts, crashed, started>>

-----------------------------------------------------------------------------
Next ==
    \/ TimerFires \/ ResetUi \/ Report \/ Fails \/ IsDecided \/ OnCancel
    \/ OnCompatibilityReady \/ OnPipelineFinished \/ AnswerLaunch
    \/ \E s \in Adds : Drop(s)
    \/ \E f \in Files : Download(f)
    \/ \E d \in {"approved", "dismissed"} : AnswerReport(d)

Spec == Init /\ [][Next]_vars
-----------------------------------------------------------------------------
(* Properties *)

\* No conversion is started while another one runs, for a patient user, as the
\* two properties below.
OneConversion == ~crashed

\* A result is kept with the file it is about, and what is marked as being
\* processed is.
OwnOutcome ==
    \A i \in DOMAIN entries :
        /\ entries[i].result \in {None, entries[i].file}
        /\ entries[i].status = "processing" => thread # None /\ thread.index = i

\* No pipeline gets the answer to the report of another.
AnswerReaches == 
    \A i \in DOMAIN dialogs : dialogs[i] # None /\ thread # None => thread.file = dialogs[i]

\* A file that waits is waited for: by the conversion before it, by a timer or
\* by a question.
NeverStalls ==
    PendingIn(entries) # {} =>
        \/ crashed \/ thread # None \/ timers > 0
        \/ \E i \in DOMAIN dialogs : dialogs[i] = None
=============================================================================
