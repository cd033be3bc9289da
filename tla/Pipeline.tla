------------------------------ MODULE Pipeline ------------------------------
(***************************************************************************)
(* The conversion pipeline: core/pipeline.py with the helpers it drives,   *)
(* core/native_deb_converter.py, core/deb_converter.py (debtap),           *)
(* core/rpm_converter.py and core/installer.py, and the requests that      *)
(* reach it (core/api/handlers_pipeline.py, handlers_queue.py).            *)
(*                                                                         *)
(* A pipeline runs on a thread of its own.  Requests come from the main    *)
(* thread (pipeline.cancel and the like) or from a request thread          *)
(* (queue.cancel), and change the flags the worker reads.  One step is a   *)
(* stage of the worker, one event of a helper's process, or one request;   *)
(* cancel() is two, the flag and the helper.                               *)
(***************************************************************************)
EXTENDS Integers, FiniteSets

CONSTANTS
    Pipelines,  \* the ConversionPipeline objects
    Kinds,      \* the kinds of input: see AllKinds
    Batches,    \* TRUE: made by the batch queue; FALSE: by pipeline.start
    Installs,   \* the values of the `install` parameter
    Debtaps,    \* is debtap installed
    DryRuns,    \* the setting dry_run
    None

AllKinds == {"deb", "rpm", "intake", "unknown"}   \* intake: all other routes

ASSUME KindsAssumption ==
    /\ Kinds \subseteq AllKinds
    /\ Batches \subseteq BOOLEAN
    /\ Installs \subseteq BOOLEAN
    /\ Debtaps \subseteq BOOLEAN
    /\ DryRuns \subseteq BOOLEAN

VARIABLES
    pc,        \* where the worker is
    job,       \* what the pipeline was made for
    cancel,    \* _cancelled: "no", "asked" (the helper is not told), "told"
    decision,  \* _decision_made and _decision_approved
    woken,     \* the queued call of loop.quit in _wait_for_decision
    auto,      \* the queued call of the lambda that dismisses
    report,    \* the verdict of the compatibility checks
    tool,      \* the converter or installer made last
    pkg,       \* where the package is
    result,    \* where result.converted_pkg says it is
    preserve,  \* _preserve_converted_pkg
    temp,      \* the temporary directory exists
    success,   \* result.success
    installed, \* pacman -U has completed
    consent,   \* history: somebody asked for the installation
    slot       \* transport._pipeline, the one pipeline.* requests reach

job_    == <<job, slot>>
gate    == <<decision, woken, auto, consent>>
files   == <<pkg, result, preserve, temp>>
outcome == <<success, installed>>
vars    == <<pc, job_, cancel, gate, report, tool, files, outcome>>

Stages == {"tools", "security", "malware", "analysis", "convert", "build"}
Gate   == {"check", "connect", "wait", "decide"}        \* _wait_for_decision
Helper == {"prepare", "extract", "exec"}                \* convert(), install()
Last   == {"history", "cleanup", "emit", "ended"}       \* run's `finally`
Labels == Stages \cup Gate \cup Helper \cup Last
              \cup {"off", "hung", "finalize", "install"}

Job == [kind : AllKinds, batch : BOOLEAN, install : BOOLEAN,
        debtap : BOOLEAN, dry : BOOLEAN]

Converters == {"native", "debtap", "rpm"}
Tool == [who  : Converters \cup {"none", "installer"},
         stop : BOOLEAN,                               \* its own _cancelled
         proc : {"none", "running", "ok", "failed"},   \* its QProcess
         phase : {"extract", "build"}]                 \* of the rpm converter

TypeOK ==
    /\ pc \in [Pipelines -> Labels]
    /\ job \in [Pipelines -> Job]
    /\ cancel \in [Pipelines -> {"no", "asked", "told"}]
    /\ decision \in [Pipelines -> {"none", "approved", "dismissed"}]
    /\ woken \in [Pipelines -> BOOLEAN]
    /\ auto \in [Pipelines -> BOOLEAN]
    /\ report \in [Pipelines -> {"none", "PASS", "WARNING", "ERROR"}]
    /\ tool \in [Pipelines -> Tool]
    /\ pkg \in [Pipelines -> {"none", "temp", "kept", "gone"}]
    /\ result \in [Pipelines -> {"none", "temp", "kept"}]
    /\ preserve \in [Pipelines -> BOOLEAN]
    /\ temp \in [Pipelines -> BOOLEAN]
    /\ success \in [Pipelines -> BOOLEAN]
    /\ installed \in [Pipelines -> BOOLEAN]
    /\ consent \in [Pipelines -> BOOLEAN]
    /\ slot \in Pipelines \cup {None}

-----------------------------------------------------------------------------
\* The stages of _run_pipeline and _run_intake_route.

Cancelled(p)   == cancel[p] # "no"
Goto(p, label) == pc' = [pc EXCEPT ![p] = label]

\* `if self._cancelled: return` at the head of a stage
Stage(p, label) == pc[p] = label /\ ~Cancelled(p)

\* Leave _run_pipeline for the `finally` of run().
Abort(p) ==
    /\ Goto(p, "history")
    /\ UNCHANGED <<job_, cancel, gate, report, tool, files, outcome>>

Skip(p) ==
    /\ pc[p] \in (Stages \ {"tools", "build"}) \cup {"finalize", "install"}
    /\ Cancelled(p)
    /\ Abort(p)

\* A stage reports an error, or raises and run() catches it.
Fail(p) ==
    /\ \/ pc[p] \in {"tools", "build"}
       \/ \E label \in Stages \cup {"finalize"} : Stage(p, label)
       \/ pc[p] = "prepare" /\ tool[p].who # "native"
    /\ Abort(p)

Advance(p, label) ==
    /\ Goto(p, label)
    /\ UNCHANGED <<job_, cancel, gate, report, tool, files, outcome>>

\* missing_required, the classification, create_temp_dir
Tools(p) ==
    /\ pc[p] = "tools"
    /\ Goto(p, "security")
    /\ temp' = [temp EXCEPT ![p] = TRUE]
    /\ UNCHANGED <<job_, cancel, gate, report, tool, pkg, result, preserve, outcome>>

\* The intake route has no malware scan; an unknown type ends there.
Security(p) ==
    /\ Stage(p, "security")
    /\ job[p].kind # "unknown"
    /\ Advance(p, IF job[p].kind = "intake" THEN "analysis" ELSE "malware")

Malware(p)  == Stage(p, "malware") /\ Advance(p, "analysis")
Analysis(p) == Stage(p, "analysis") /\ Advance(p, "convert")

\* The helper of p gets the state t.
SetTool(p, t) == tool' = [tool EXCEPT ![p] = t]

\* The helper w is made: cancel() can reach it from now on.
New(p, w) ==
    /\ Goto(p, "prepare")
    /\ SetTool(p, [who |-> w, stop |-> FALSE, proc |-> "none", phase |-> "extract"])
    /\ UNCHANGED <<job_, cancel, gate, report, files, outcome>>

Convert(p) ==
    /\ Stage(p, "convert")
    /\ CASE job[p].kind = "deb" -> New(p, "native")
         [] job[p].kind = "rpm" -> New(p, "rpm")
         [] OTHER -> Advance(p, "build")

\* _intake_convert: makepkg cannot be interrupted, the flag is read after it.
Build(p) ==
    /\ pc[p] = "build"
    /\ Goto(p, IF Cancelled(p) THEN "history" ELSE "finalize")
    /\ pkg' = [pkg EXCEPT ![p] = "temp"]
    /\ result' = [result EXCEPT ![p] = IF Cancelled(p) THEN @ ELSE "temp"]
    /\ UNCHANGED <<job_, cancel, gate, report, tool, preserve, temp, outcome>>

-----------------------------------------------------------------------------
\* The helpers: convert() or install() on the worker's thread, then the
\* events of the process in the pipeline's loop.

\* convert() and install() start by clearing the helper's own _cancelled.
Prepare(p) ==
    /\ pc[p] = "prepare"
    /\ LET unpack == tool[p].who = "native" IN
       /\ Goto(p, IF unpack THEN "extract" ELSE "exec")
       /\ SetTool(p, [tool[p] EXCEPT !.stop = FALSE,
                                     !.proc = IF unpack THEN "none" ELSE "running"])
    /\ UNCHANGED <<job_, cancel, gate, report, files, outcome>>

\* The native converter unpacks the archive before it starts makepkg.
Extract(p) ==
    /\ pc[p] = "extract"
    /\ Goto(p, "exec")
    /\ SetTool(p, [tool[p] EXCEPT !.proc = "running"])
    /\ UNCHANGED <<job_, cancel, gate, report, files, outcome>>

\* An error found before the process is started (an input or a tool that is
\* missing, an archive that does not unpack) emits `finished` from within
\* convert(): the pipeline's loop.quit comes before its loop.exec, and the
\* loop that is then entered is never left.
Hang(p) ==
    /\ \/ pc[p] = "prepare" /\ tool[p].who # "debtap"
       \/ pc[p] = "extract"
    /\ Advance(p, "hung")

\* The process ends by itself.
Exit(p, status) ==
    /\ tool[p].proc = "running"
    /\ SetTool(p, [tool[p] EXCEPT !.proc = status])
    /\ installed' = [installed EXCEPT
                       ![p] = @ \/ (tool[p].who = "installer" /\ status = "ok")]
    /\ UNCHANGED <<pc, job_, cancel, gate, report, files, success>>

\* The process of a converter, or of the installer, has ended.
Exited(p) == pc[p] = "exec" /\ tool[p].proc \in {"ok", "failed"}
Good(p)   == tool[p].proc = "ok" /\ ~tool[p].stop

\* _on_extract_finished: the second process of an rpm conversion
NextPhase(p) ==
    /\ tool[p].who = "rpm" /\ Good(p)
    /\ tool[p].phase = "extract"
    /\ SetTool(p, [tool[p] EXCEPT !.phase = "build", !.proc = "running"])
    /\ UNCHANGED <<pc, job_, cancel, gate, report, files, outcome>>

\* _on_makepkg_finished, _on_finished, _on_build_finished: there is a package
Converted(p) ==
    /\ Good(p)
    /\ tool[p].who = "rpm" => tool[p].phase = "build"
    /\ Goto(p, "finalize")
    /\ pkg' = [pkg EXCEPT ![p] = "temp"]
    /\ result' = [result EXCEPT ![p] = "temp"]
    /\ preserve' = [preserve EXCEPT ![p] = TRUE]
    /\ UNCHANGED <<job_, cancel, gate, report, tool, temp, outcome>>

\* A failure, a cancellation, or no package: the native converter is followed
\* by debtap whether or not the pipeline was cancelled.
ConverterFailed(p) ==
    IF tool[p].who = "native" /\ job[p].debtap THEN New(p, "debtap") ELSE Abort(p)

ConverterDone(p) ==
    /\ Exited(p) /\ tool[p].who \in Converters
    /\ \/ NextPhase(p)
       \/ Converted(p)
       \/ ConverterFailed(p)

\* Mutation of InstallerDone: the exit code is not looked at.
InstallerDoneAnyway(p) ==
    /\ Exited(p) /\ tool[p].who = "installer"
    /\ Goto(p, "history")
    /\ success' = [success EXCEPT ![p] = ~tool[p].stop]
    /\ UNCHANGED <<job_, cancel, gate, report, tool, files, installed>>

\* Installer._on_finished and the rest of _do_install
InstallerDone(p) ==
    /\ Exited(p) /\ tool[p].who = "installer"
    /\ Goto(p, "history")
    /\ success' = [success EXCEPT ![p] = Good(p)]
    /\ UNCHANGED <<job_, cancel, gate, report, tool, files, installed>>

-----------------------------------------------------------------------------
\* _finalize_pkg: the checks, the gate, the installation.

\* Mutation of Finalize: the slots of a batch pipeline are queued as well.
FinalizeQueued(p, verdict) ==
    /\ Stage(p, "finalize")
    /\ Goto(p, IF verdict = "PASS" THEN "install" ELSE "check")
    /\ report' = [report EXCEPT ![p] = verdict]
    /\ auto' = [auto EXCEPT ![p] = verdict # "PASS" /\ ~job[p].install]
    /\ UNCHANGED <<job_, cancel, decision, woken, consent, tool, files, outcome>>

\* compatibility_ready is emitted for a WARNING or an ERROR.  The slots of a
\* batch pipeline decide at once, on this thread; the lambda that dismisses a
\* single one is queued to the main thread.
Finalize(p, verdict) ==
    /\ Stage(p, "finalize")
    /\ LET asks    == verdict # "PASS"
           decides == asks /\ job[p].batch IN
       /\ Goto(p, IF asks THEN "check" ELSE "install")
       /\ decision' = [decision EXCEPT
                         ![p] = IF ~decides THEN @
                                ELSE IF job[p].install THEN "approved" ELSE "dismissed"]
       /\ consent' = [consent EXCEPT ![p] = @ \/ (decides /\ job[p].install)]
       /\ auto' = [auto EXCEPT ![p] = asks /\ ~job[p].batch /\ ~job[p].install]
    /\ report' = [report EXCEPT ![p] = verdict]
    /\ UNCHANGED <<job_, cancel, woken, tool, files, outcome>>

\* the test of the loop in _wait_for_decision
GateCheck(p) ==
    /\ pc[p] = "check"
    /\ Advance(p, IF decision[p] # "none" \/ Cancelled(p) THEN "decide" ELSE "connect")

\* a signal emitted before this is lost
GateConnect(p) ==
    /\ pc[p] = "connect"
    /\ Advance(p, "wait")

GateWake(p) ==
    /\ pc[p] = "wait" /\ woken[p]
    /\ Goto(p, "check")
    /\ woken' = [woken EXCEPT ![p] = FALSE]
    /\ UNCHANGED <<job_, cancel, decision, auto, consent, report, tool, files, outcome>>

\* Mutation of Decide: any decision releases the installation.
DecideAnyway(p) ==
    /\ pc[p] = "decide"
    /\ Advance(p, IF Cancelled(p) THEN "history" ELSE "install")

\* A decline is a success when _skip_install_message is set.
Decide(p) ==
    /\ pc[p] = "decide"
    /\ LET go == decision[p] = "approved" /\ ~Cancelled(p) IN
       /\ Goto(p, IF go THEN "install" ELSE "history")
       /\ success' = [success EXCEPT ![p] = ~go /\ ~Cancelled(p) /\ ~job[p].install]
    /\ UNCHANGED <<job_, cancel, gate, report, tool, files, installed>>

DryRun(p) ==
    /\ Goto(p, "history")
    /\ success' = [success EXCEPT ![p] = TRUE]
    /\ UNCHANGED <<job_, cancel, gate, report, tool, files, installed>>

Install(p) ==
    /\ Stage(p, "install")
    /\ IF job[p].dry THEN DryRun(p) ELSE New(p, "installer")

-----------------------------------------------------------------------------
\* run(): the `finally` clause.

\* The row of the history holds the path the package has now.
History(p) == pc[p] = "history" /\ Advance(p, "cleanup")

\* rmtree of the temporary directory, the package being at `place`
RemoveTemp(p, place) ==
    /\ temp' = [temp EXCEPT ![p] = FALSE]
    /\ pkg' = [pkg EXCEPT ![p] = IF place = "temp" THEN "gone" ELSE place]

\* Mutation of Cleanup: a package that was not moved is not spared.
CleanupAnyway(p) ==
    /\ pc[p] = "cleanup"
    /\ Goto(p, "emit")
    /\ RemoveTemp(p, pkg[p])
    /\ UNCHANGED <<job_, cancel, gate, report, tool, result, preserve, outcome>>

\* Mutation of Cleanup: the result follows the package wherever it goes.
CleanupFollows(p) ==
    /\ pc[p] = "cleanup"
    /\ Goto(p, "emit")
    /\ RemoveTemp(p, IF preserve[p] THEN "kept" ELSE pkg[p])
    /\ result' = pkg'
    /\ UNCHANGED <<job_, cancel, gate, report, tool, preserve, outcome>>

\* _preserve_pkg moves the package out, or fails and keeps the directory.
Cleanup(p) ==
    /\ pc[p] = "cleanup"
    /\ Goto(p, "emit")
    /\ IF preserve[p] /\ result[p] = "temp"
       THEN \/ RemoveTemp(p, "kept") /\ result' = [result EXCEPT ![p] = "kept"]
            \/ UNCHANGED <<temp, pkg, result>>
       ELSE RemoveTemp(p, pkg[p]) /\ UNCHANGED result
    /\ UNCHANGED <<job_, cancel, gate, report, tool, preserve, outcome>>

Emit(p) == pc[p] = "emit" /\ Advance(p, "ended")

-----------------------------------------------------------------------------
\* The requests.

\* The main thread serves pipeline.* requests one by one.
MainIdle == \A q \in Pipelines : job[q].batch \/ cancel[q] # "asked"

\* handle_pipeline_start and _make_pipeline
Start(p) ==
    /\ pc[p] = "off"
    /\ Goto(p, "tools")
    /\ \E k \in Kinds, b \in Batches, ins \in Installs, t \in Debtaps, r \in DryRuns :
          /\ b \/ MainIdle
          /\ job' = [job EXCEPT ![p] = [kind |-> k, batch |-> b, install |-> ins,
                                        debtap |-> t, dry |-> r]]
          /\ slot' = IF b THEN slot ELSE p
    /\ UNCHANGED <<cancel, gate, report, tool, files, outcome>>

\* Requests reach a pipeline while it runs: queue.cancel those of the batch,
\* pipeline.* the current one.
Reachable(p) == pc[p] \notin {"off", "ended"} /\ cancel[p] # "asked"
Current(p)   == Reachable(p) /\ ~job[p].batch /\ slot = p /\ MainIdle

\* the slot of _decision_signal, queued once the worker has connected it
Wake(p) == woken' = [woken EXCEPT ![p] = @ \/ pc[p] = "wait"]

Approve(p) ==
    /\ Current(p)
    /\ decision' = [decision EXCEPT ![p] = "approved"]
    /\ consent' = [consent EXCEPT ![p] = TRUE]
    /\ Wake(p)
    /\ UNCHANGED <<pc, job_, cancel, auto, report, tool, files, outcome>>

Dismiss(p) ==
    /\ Current(p)
    /\ decision' = [decision EXCEPT ![p] = "dismissed"]
    /\ Wake(p)
    /\ UNCHANGED <<pc, job_, cancel, auto, consent, report, tool, files, outcome>>

\* The main thread runs the lambda p queued: it dismisses transport._pipeline,
\* which by then may be another pipeline.
AutoDismiss(p) ==
    /\ auto[p] /\ MainIdle
    /\ auto' = [auto EXCEPT ![p] = FALSE]
    /\ decision' = [decision EXCEPT ![slot] = "dismissed"]
    /\ Wake(slot)
    /\ UNCHANGED <<pc, job_, cancel, consent, report, tool, files, outcome>>

Cancel(p) ==
    /\ Reachable(p)
    /\ job[p].batch \/ Current(p)
    /\ cancel' = [cancel EXCEPT ![p] = "asked"]
    /\ Wake(p)
    /\ UNCHANGED <<pc, job_, decision, auto, consent, report, tool, files, outcome>>

\* The helper's cancel().  A converter's process is killed; pkexec, which
\* runs as root by then, may go on.
CancelHelper(p) ==
    /\ cancel[p] = "asked"
    /\ cancel' = [cancel EXCEPT ![p] = "told"]
    /\ \E status \in {tool[p].proc, "failed"} :
          /\ tool[p].proc # "running" => status = tool[p].proc
          /\ tool[p].who \in Converters /\ tool[p].proc = "running" => status = "failed"
          /\ SetTool(p, [tool[p] EXCEPT !.stop = @ \/ tool[p].who # "none",
                                        !.proc = status])
    /\ UNCHANGED <<pc, job_, gate, report, files, outcome>>

-----------------------------------------------------------------------------
Init ==
    /\ pc = [p \in Pipelines |-> "off"]
    /\ job = [p \in Pipelines |-> [kind |-> "deb", batch |-> FALSE, install |-> FALSE,
                                   debtap |-> FALSE, dry |-> FALSE]]
    /\ cancel = [p \in Pipelines |-> "no"]
    /\ decision = [p \in Pipelines |-> "none"]
    /\ report = [p \in Pipelines |-> "none"]
    /\ tool = [p \in Pipelines |-> [who |-> "none", stop |-> FALSE,
                                    proc |-> "none", phase |-> "extract"]]
    /\ pkg = [p \in Pipelines |-> "none"]
    /\ result = [p \in Pipelines |-> "none"]
    /\ woken = [p \in Pipelines |-> FALSE]
    /\ auto = [p \in Pipelines |-> FALSE]
    /\ preserve = [p \in Pipelines |-> FALSE]
    /\ temp = [p \in Pipelines |-> FALSE]
    /\ success = [p \in Pipelines |-> FALSE]
    /\ installed = [p \in Pipelines |-> FALSE]
    /\ consent = [p \in Pipelines |-> FALSE]
    /\ slot = None

Work(p) ==
    \/ Skip(p)
    \/ Fail(p)
    \/ Tools(p)
    \/ Security(p)
    \/ Malware(p)
    \/ Analysis(p)
    \/ Convert(p)
    \/ Build(p)
    \/ Prepare(p)
    \/ Extract(p)
    \/ Hang(p)
    \/ \E status \in {"ok", "failed"} : Exit(p, status)
    \/ ConverterDone(p)
    \/ InstallerDone(p)
    \/ \E verdict \in {"PASS", "WARNING", "ERROR"} : Finalize(p, verdict)
    \/ GateCheck(p)
    \/ GateConnect(p)
    \/ GateWake(p)
    \/ Decide(p)
    \/ Install(p)
    \/ History(p)
    \/ Cleanup(p)
    \/ Emit(p)

Ask(p) ==
    \/ Start(p)
    \/ Approve(p)
    \/ Dismiss(p)
    \/ Cancel(p)

Deliver(p) == AutoDismiss(p) \/ CancelHelper(p)

Next == \E p \in Pipelines : Work(p) \/ Ask(p) \/ Deliver(p)

Spec == Init /\ [][Next]_vars

\* The worker and its processes go on; a request that was made is served.
Fairness == \A p \in Pipelines : WF_vars(Work(p)) /\ WF_vars(Deliver(p))

FairSpec == Spec /\ Fairness

-----------------------------------------------------------------------------
\* Safety properties.

\* The package of a converted .deb or .rpm is never deleted with the
\* temporary directory, however the pipeline ends, and the result that the
\* finished pipeline reports says where it is.
ConvertedIsKept ==
    \A p \in Pipelines :
        job[p].kind \in {"deb", "rpm"} /\ pkg[p] # "none" /\ pc[p] = "ended" =>
            /\ pkg[p] = result[p]
            /\ pkg[p] = "temp" => temp[p]

\* No package is installed unless the report was clean or somebody asked for
\* the installation: the user, or the batch that was started with `install`.
InstallNeedsConsent ==
    \A p \in Pipelines : installed[p] => report[p] = "PASS" \/ consent[p]

\* The result tells the truth about the installation: a success that was to
\* install did, and a package was installed behind a failure only if the
\* installation was cancelled on the way.
TruthfulResult ==
    \A p \in Pipelines : pc[p] = "ended" =>
        /\ success[p] /\ job[p].install /\ ~job[p].dry => installed[p]
        /\ installed[p] /\ ~Cancelled(p) => success[p]

\* "Batch is CONVERSION-ONLY by default ... no package touches the system
\* unless the caller explicitly opted in" (handlers_queue.py).
ConvertOnlyNeverInstalls ==
    \A p \in Pipelines : installed[p] => job[p].install

\* "The package must not be lost on the convert-only paths" (pipeline.py,
\* _preserve_pkg): a success without installation leaves the package somewhere.
SuccessKeepsPackage ==
    \A p \in Pipelines :
        pc[p] = "ended" /\ success[p] /\ ~installed[p] => pkg[p] # "gone"

-----------------------------------------------------------------------------
\* Liveness properties.

\* A pipeline of the batch queue ends without anybody's help, or else hangs
\* in a helper that failed before its process was started.
BatchPipelineEnds ==
    \A p \in Pipelines : job[p].batch ~> pc[p] \in {"ended", "hung"}

\* A decision releases the worker: "not resetting closes the race where the UI
\* records a decision before the worker reaches this method" (pipeline.py).
DecisionReleases ==
    \A p \in Pipelines : pc[p] \in Gate /\ decision[p] # "none" ~> pc[p] \notin Gate

\* "Fallback to debtap if native converter fails and debtap exists": the
\* native conversion makes a package, or is followed by debtap's.
FallbackIsTried ==
    \A p \in Pipelines :
        tool[p].who = "native" /\ job[p].debtap
            ~> (tool[p].who # "native" \/ pkg[p] # "none" \/ pc[p] = "ended")
=============================================================================
