--------------------------- MODULE PipelineProofs ---------------------------
(***************************************************************************)
(* Theorems about Pipeline, for any set of pipelines.                      *)
(***************************************************************************)
EXTENDS Pipeline, TLAPS

\* The changes the actions make to the state of a helper keep its type.
LEMMA ToolUpdate ==
    ASSUME NEW t \in Tool, NEW b \in BOOLEAN,
           NEW s \in {"none", "running", "ok", "failed"}
    PROVE  /\ [t EXCEPT !.proc = s] \in Tool
           /\ [t EXCEPT !.stop = b, !.proc = s] \in Tool
           /\ [t EXCEPT !.phase = "build", !.proc = s] \in Tool
<1>1. [t EXCEPT !.proc = s] \in Tool
  BY DEF Tool
<1>2. [t EXCEPT !.stop = b, !.proc = s] \in Tool
  BY DEF Tool
<1>3. [t EXCEPT !.phase = "build", !.proc = s] \in Tool
  BY DEF Tool
<1> QED BY <1>1, <1>2, <1>3

USE DEF AllKinds, Stages, Gate, Helper, Last, Labels, Converters
USE DEF SetTool, job_, gate, files, outcome, Goto, Advance, Abort

-----------------------------------------------------------------------------
\* The type invariant.

LEMMA NewType ==
    ASSUME TypeOK, NEW p \in Pipelines, NEW w \in Converters \cup {"installer"}, New(p, w)
    PROVE  TypeOK'
<1>1. [who |-> w, stop |-> FALSE, proc |-> "none", phase |-> "extract"] \in Tool
  BY DEF Tool
<1> QED BY <1>1 DEF TypeOK, New

LEMMA AdvanceType ==
    ASSUME TypeOK, NEW p \in Pipelines, NEW label \in Labels, Advance(p, label)
    PROVE  TypeOK'
BY DEF TypeOK

LEMMA WorkType ==
    ASSUME TypeOK, NEW p \in Pipelines, Work(p)
    PROVE  TypeOK'
<1>1. CASE Skip(p) \/ Fail(p)
  BY <1>1 DEF Skip, Fail, TypeOK
<1>2. CASE Tools(p)
  BY <1>2 DEF Tools, TypeOK
<1>3. CASE Security(p) \/ Malware(p) \/ Analysis(p)
  BY <1>3, AdvanceType DEF Security, Malware, Analysis
<1>4. CASE Convert(p)
  BY <1>4, NewType, AdvanceType DEF Convert
<1>5. CASE Build(p)
  BY <1>5 DEF Build, TypeOK
<1>6. CASE Prepare(p) \/ Extract(p)
  <2>1. tool[p] \in Tool
    BY DEF TypeOK
  <2>2. /\ [tool[p] EXCEPT !.stop = FALSE, !.proc = "none"] \in Tool
        /\ [tool[p] EXCEPT !.stop = FALSE, !.proc = "running"] \in Tool
        /\ [tool[p] EXCEPT !.proc = "running"] \in Tool
    BY <2>1, ToolUpdate
  <2>3. CASE Prepare(p) /\ tool[p].who = "native"
    BY <2>2, <2>3 DEF Prepare, TypeOK
  <2>4. CASE Prepare(p) /\ tool[p].who # "native"
    BY <2>2, <2>4 DEF Prepare, TypeOK
  <2>5. CASE Extract(p)
    BY <2>2, <2>5 DEF Extract, TypeOK
  <2> QED BY <1>6, <2>3, <2>4, <2>5
<1>7. CASE Hang(p)
  BY <1>7, AdvanceType DEF Hang
<1>8. CASE \E status \in {"ok", "failed"} : Exit(p, status)
  <2>1. PICK status \in {"ok", "failed"} : Exit(p, status)
    BY <1>8
  <2>2. [tool[p] EXCEPT !.proc = status] \in Tool
    BY ToolUpdate DEF TypeOK
  <2> QED BY <2>1, <2>2 DEF Exit, TypeOK
<1>9. CASE ConverterDone(p)
  <2>1. CASE NextPhase(p)
    <3>1. [tool[p] EXCEPT !.phase = "build", !.proc = "running"] \in Tool
      BY ToolUpdate DEF TypeOK
    <3> QED BY <2>1, <3>1 DEF NextPhase, TypeOK
  <2>2. CASE Converted(p)
    BY <2>2 DEF Converted, TypeOK
  <2>3. CASE ConverterFailed(p)
    BY <2>3, NewType, AdvanceType DEF ConverterFailed
  <2> QED BY <1>9, <2>1, <2>2, <2>3 DEF ConverterDone
<1>10. CASE InstallerDone(p)
  BY <1>10 DEF InstallerDone, Good, TypeOK
<1>11. CASE \E verdict \in {"PASS", "WARNING", "ERROR"} : Finalize(p, verdict)
  BY <1>11 DEF Finalize, TypeOK, Job
<1>12. CASE GateCheck(p) \/ GateConnect(p) \/ History(p) \/ Emit(p)
  BY <1>12, AdvanceType DEF GateCheck, GateConnect, History, Emit
<1>13. CASE GateWake(p)
  BY <1>13 DEF GateWake, TypeOK
<1>14. CASE Decide(p)
  BY <1>14 DEF Decide, TypeOK, Job
<1>15. CASE Install(p)
  <2>1. CASE DryRun(p)
    BY <2>1 DEF DryRun, TypeOK
  <2> QED BY <1>15, <2>1, NewType DEF Install
<1>16. CASE Cleanup(p)
  <2>1. CASE UNCHANGED <<temp, pkg, result>>
    BY <1>16, <2>1 DEF Cleanup, TypeOK
  <2>2. CASE RemoveTemp(p, "kept") /\ result' = [result EXCEPT ![p] = "kept"]
    BY <1>16, <2>2 DEF Cleanup, RemoveTemp, TypeOK
  <2>3. CASE RemoveTemp(p, pkg[p]) /\ UNCHANGED result
    BY <1>16, <2>3 DEF Cleanup, RemoveTemp, TypeOK
  <2> QED BY <1>16, <2>1, <2>2, <2>3 DEF Cleanup
<1> QED
  BY <1>1, <1>2, <1>3, <1>4, <1>5, <1>6, <1>7, <1>8, <1>9, <1>10, <1>11, <1>12,
     <1>13, <1>14, <1>15, <1>16 DEF Work

LEMMA RequestType ==
    ASSUME TypeOK, NEW p \in Pipelines, Ask(p) \/ Deliver(p)
    PROVE  TypeOK'
<1>1. CASE Start(p)
  BY <1>1, KindsAssumption DEF Start, TypeOK, Job
<1>2. CASE Approve(p) \/ Dismiss(p)
  <2>1. CASE Approve(p)
    BY <2>1 DEF Approve, Wake, TypeOK
  <2>2. CASE Dismiss(p)
    BY <2>2 DEF Dismiss, Wake, TypeOK
  <2> QED BY <1>2, <2>1, <2>2
<1>3. CASE Cancel(p)
  BY <1>3 DEF Cancel, Wake, TypeOK
<1>4. CASE AutoDismiss(p)
  BY <1>4 DEF AutoDismiss, Wake, TypeOK
<1>5. CASE CancelHelper(p)
  <2>1. PICK status \in {tool[p].proc, "failed"} :
          SetTool(p, [tool[p] EXCEPT !.stop = @ \/ tool[p].who # "none", !.proc = status])
    BY <1>5 DEF CancelHelper
  <2>2. tool[p] \in Tool /\ status \in {"none", "running", "ok", "failed"}
    BY DEF TypeOK, Tool
  <2>3. (tool[p].stop \/ tool[p].who # "none") \in BOOLEAN
    OBVIOUS
  <2>4. [tool[p] EXCEPT !.stop = @ \/ tool[p].who # "none", !.proc = status] \in Tool
    BY <2>2, <2>3, ToolUpdate
  <2> QED BY <1>5, <2>1, <2>4 DEF CancelHelper, TypeOK
<1> QED BY <1>1, <1>2, <1>3, <1>4, <1>5 DEF Ask, Deliver

\* Every reachable state has the types of TypeOK.
THEOREM TypeCorrect == Spec => []TypeOK
<1>1. Init => TypeOK
  BY DEF Init, TypeOK, Job, Tool
<1>2. TypeOK /\ [Next]_vars => TypeOK'
  <2> SUFFICES ASSUME TypeOK, [Next]_vars PROVE TypeOK'
    OBVIOUS
  <2>1. CASE Next
    BY <2>1, WorkType, RequestType DEF Next
  <2>2. CASE UNCHANGED vars
    BY <2>2 DEF vars, TypeOK
  <2> QED BY <2>1, <2>2
<1> QED BY <1>1, <1>2, PTL DEF Spec

-----------------------------------------------------------------------------
\* The package of a .deb or .rpm: where it is at every point of the run.

TempThere(p)  == pc[p] \notin {"off", "tools"} \cup Last => temp[p]
BuildRoute(p) == pc[p] = "build" => job[p].kind \notin {"deb", "rpm"}
OffIsBlank(p) == pc[p] = "off" => pkg[p] = "none"
ResultIsPkg(p) == result[p] # "none" => pkg[p] # "none"

InHand(p)  == pkg[p] = "temp" /\ result[p] = "temp" /\ preserve[p] /\ temp[p]
Settled(p) == pkg[p] = result[p] /\ (pkg[p] = "temp" => temp[p])
PkgSafe(p) ==
    job[p].kind \in {"deb", "rpm"} /\ pkg[p] # "none"
        => IF pc[p] \in {"emit", "ended"} THEN Settled(p) ELSE InHand(p)

KeptInv == \A p \in Pipelines :
    TempThere(p) /\ BuildRoute(p) /\ OffIsBlank(p) /\ ResultIsPkg(p) /\ PkgSafe(p)

LEMMA KeptWork ==
    ASSUME TypeOK, KeptInv, NEW p \in Pipelines, Work(p)
    PROVE  KeptInv'
<1> SUFFICES ASSUME NEW q \in Pipelines
             PROVE  /\ TempThere(q)' /\ BuildRoute(q)' /\ OffIsBlank(q)'
                    /\ ResultIsPkg(q)' /\ PkgSafe(q)'
  BY DEF KeptInv
<1> USE DEF KeptInv, TempThere, BuildRoute, OffIsBlank, ResultIsPkg, PkgSafe, InHand, Settled
<1> USE DEF TypeOK
<1>1. CASE Skip(p)
  BY <1>1 DEF Skip
<1>2. CASE Fail(p)
  BY <1>2 DEF Fail, Stage
<1>3. CASE Tools(p)
  BY <1>3 DEF Tools
<1>4. CASE Security(p)
  BY <1>4 DEF Security, Stage
<1>5. CASE Malware(p)
  BY <1>5 DEF Malware, Stage
<1>6. CASE Analysis(p)
  BY <1>6 DEF Analysis, Stage
<1>7. CASE Convert(p)
  BY <1>7 DEF Convert, New, Stage, Job
<1>8. CASE Build(p)
  BY <1>8 DEF Build
<1>9. CASE Prepare(p)
  BY <1>9 DEF Prepare
<1>10. CASE Extract(p)
  BY <1>10 DEF Extract
<1>11. CASE Hang(p)
  BY <1>11 DEF Hang
<1>12. CASE \E status \in {"ok", "failed"} : Exit(p, status)
  BY <1>12 DEF Exit
<1>13. CASE NextPhase(p) /\ Exited(p)
  BY <1>13 DEF NextPhase
<1>14. CASE Converted(p) /\ Exited(p)
  BY <1>14 DEF Converted, Exited
<1>15. CASE ConverterFailed(p) /\ Exited(p)
  BY <1>15 DEF ConverterFailed, New, Exited
<1>16. CASE InstallerDone(p)
  BY <1>16 DEF InstallerDone, Exited
<1>17. CASE \E verdict \in {"PASS", "WARNING", "ERROR"} : Finalize(p, verdict)
  BY <1>17 DEF Finalize, Stage
<1>18. CASE GateCheck(p)
  BY <1>18 DEF GateCheck
<1>19. CASE GateConnect(p)
  BY <1>19 DEF GateConnect
<1>20. CASE GateWake(p)
  BY <1>20 DEF GateWake
<1>21. CASE Decide(p)
  BY <1>21 DEF Decide
<1>22. CASE Install(p)
  BY <1>22 DEF Install, New, DryRun, Stage
<1>23. CASE History(p)
  BY <1>23 DEF History
<1>24. CASE Cleanup(p)
  BY <1>24 DEF Cleanup, RemoveTemp
<1>25. CASE Emit(p)
  BY <1>25 DEF Emit
<1> QED
  BY <1>1, <1>2, <1>3, <1>4, <1>5, <1>6, <1>7, <1>8, <1>9, <1>10, <1>11, <1>12, <1>13, <1>14, <1>15, <1>16, <1>17, <1>18, <1>19, <1>20, <1>21, <1>22, <1>23, <1>24, <1>25
     DEF Work, ConverterDone

LEMMA KeptRequest ==
    ASSUME TypeOK, KeptInv, NEW p \in Pipelines, Ask(p) \/ Deliver(p)
    PROVE  KeptInv'
<1> SUFFICES ASSUME NEW q \in Pipelines
             PROVE  /\ TempThere(q)' /\ BuildRoute(q)' /\ OffIsBlank(q)'
                    /\ ResultIsPkg(q)' /\ PkgSafe(q)'
  BY DEF KeptInv
<1> USE DEF KeptInv, TempThere, BuildRoute, OffIsBlank, ResultIsPkg, PkgSafe, InHand, Settled
<1>1. CASE Start(p)
  BY <1>1 DEF Start, TypeOK
<1>2. CASE Approve(p)
  BY <1>2 DEF Approve
<1>3. CASE Dismiss(p)
  BY <1>3 DEF Dismiss
<1>4. CASE Cancel(p)
  BY <1>4 DEF Cancel
<1>5. CASE AutoDismiss(p)
  BY <1>5 DEF AutoDismiss
<1>6. CASE CancelHelper(p)
  BY <1>6 DEF CancelHelper
<1> QED BY <1>1, <1>2, <1>3, <1>4, <1>5, <1>6 DEF Ask, Deliver

\* The package of a converted .deb or .rpm is never deleted with the temporary
\* directory, and the result says where it is.
THEOREM KeepsConverted == Spec => []ConvertedIsKept
<1>1. Init => KeptInv
  BY DEF Init, KeptInv, TempThere, BuildRoute, OffIsBlank, ResultIsPkg, PkgSafe
<1>2. TypeOK /\ KeptInv /\ [Next]_vars => KeptInv'
  <2> SUFFICES ASSUME TypeOK, KeptInv, [Next]_vars PROVE KeptInv'
    OBVIOUS
  <2>1. CASE Next
    BY <2>1, KeptWork, KeptRequest DEF Next
  <2>2. CASE UNCHANGED vars
    BY <2>2 DEF vars, KeptInv, TempThere, BuildRoute, OffIsBlank, ResultIsPkg,
                PkgSafe, InHand, Settled
  <2> QED BY <2>1, <2>2
<1>3. KeptInv => ConvertedIsKept
  BY DEF KeptInv, PkgSafe, Settled, ConvertedIsKept
<1> QED BY <1>1, <1>2, <1>3, TypeCorrect, PTL DEF Spec

-----------------------------------------------------------------------------
\* The installation: who agreed to it, and what the result says of it.

Agreed(p) == report[p] = "PASS" \/ consent[p]

AgreedFirst(p)   == pc[p] = "install" \/ tool[p].who = "installer" => Agreed(p)
ApprovedIsConsent(p) == decision[p] = "approved" => consent[p]
InstallerLate(p) == tool[p].who = "installer" => pc[p] \in Helper \cup {"hung"} \cup Last
InstalledBy(p)   == installed[p] => tool[p].who = "installer" /\ pc[p] \in {"exec"} \cup Last
RunsInExec(p)    == tool[p].proc = "running" => pc[p] = "exec"
StopIsCancel(p)  == tool[p].stop => Cancelled(p)
OkIsInstalled(p) == tool[p].who = "installer" /\ tool[p].proc = "ok" => installed[p]
SuccessLast(p)   == success[p] => pc[p] \in Last
SuccessMeans(p)  == success[p] /\ job[p].install /\ ~job[p].dry => installed[p]
InstalledMeans(p) ==
    installed[p] /\ ~Cancelled(p) =>
        IF pc[p] = "exec" THEN tool[p].proc = "ok" ELSE success[p]

InstallInvAt(p) ==
    /\ AgreedFirst(p) /\ ApprovedIsConsent(p) /\ InstallerLate(p) /\ InstalledBy(p)
    /\ RunsInExec(p) /\ StopIsCancel(p) /\ OkIsInstalled(p)
    /\ SuccessLast(p) /\ SuccessMeans(p) /\ InstalledMeans(p)

InstallInv == \A p \in Pipelines : InstallInvAt(p)

LEMMA InstallWork ==
    ASSUME TypeOK, InstallInv, NEW p \in Pipelines, Work(p)
    PROVE  InstallInv'
<1> SUFFICES ASSUME NEW q \in Pipelines PROVE InstallInvAt(q)'
  BY DEF InstallInv
<1>0. InstallInvAt(p) /\ InstallInvAt(q)
  BY DEF InstallInv
<1> USE DEF InstallInvAt, AgreedFirst, ApprovedIsConsent, InstallerLate, InstalledBy,
            RunsInExec, StopIsCancel, OkIsInstalled, SuccessLast, SuccessMeans,
            InstalledMeans, Agreed, Cancelled
<1> USE DEF TypeOK
<1>1. CASE Skip(p)
  BY <1>0, <1>1 DEF Skip
<1>2. CASE Fail(p)
  BY <1>0, <1>2 DEF Fail, Stage
<1>3. CASE Tools(p)
  BY <1>0, <1>3 DEF Tools
<1>4. CASE Security(p)
  BY <1>0, <1>4 DEF Security, Stage
<1>5. CASE Malware(p)
  BY <1>0, <1>5 DEF Malware, Stage
<1>6. CASE Analysis(p)
  BY <1>0, <1>6 DEF Analysis, Stage
<1>7. CASE Convert(p)
  BY <1>0, <1>7 DEF Convert, New, Stage
<1>8. CASE Build(p)
  BY <1>0, <1>8 DEF Build
<1>9. CASE Prepare(p)
  BY <1>0, <1>9 DEF Prepare, Tool
<1>10. CASE Extract(p)
  BY <1>0, <1>10 DEF Extract, Tool
<1>11. CASE Hang(p)
  BY <1>0, <1>11 DEF Hang
<1>12. CASE \E status \in {"ok", "failed"} : Exit(p, status)
  <2>1. PICK status \in {"ok", "failed"} : Exit(p, status)
    BY <1>12
  <2>2. /\ tool'[p].proc = status
        /\ tool'[p].who = tool[p].who /\ tool'[p].stop = tool[p].stop
        /\ q # p => tool'[q] = tool[q]
    BY <2>1 DEF Exit, Tool
  <2>3. pc[p] = "exec"
    BY <1>0, <2>1 DEF Exit
  <2>4. /\ installed'[p] <=> installed[p] \/ (tool[p].who = "installer" /\ status = "ok")
        /\ q # p => installed'[q] = installed[q]
    BY <2>1 DEF Exit
  <2>5. /\ tool[p].proc = "running"
        /\ UNCHANGED <<pc, job, cancel, decision, consent, report, success>>
    BY <2>1 DEF Exit
  <2>6. CASE q = p
    <3>1. ~installed[p] \/ Cancelled(p)
      BY <1>0, <2>3, <2>5
    <3> QED BY <1>0, <2>2, <2>3, <2>4, <2>5, <2>6, <3>1
  <2>7. CASE q # p
    BY <1>0, <2>2, <2>4, <2>5, <2>7
  <2> QED BY <2>6, <2>7
<1>13. CASE NextPhase(p) /\ Exited(p)
  <2>1. /\ tool'[p].proc = "running"
        /\ tool'[p].who = "rpm" /\ tool'[p].stop = tool[p].stop
        /\ q # p => tool'[q] = tool[q]
    BY <1>13 DEF NextPhase, Tool
  <2>2. /\ pc[p] = "exec" /\ tool[p].who = "rpm"
        /\ UNCHANGED <<pc, job, cancel, decision, consent, report, success, installed>>
    BY <1>13 DEF NextPhase, Exited
  <2> QED BY <1>0, <2>1, <2>2
<1>14. CASE Converted(p) /\ Exited(p) /\ tool[p].who \in Converters
  BY <1>0, <1>14 DEF Converted, Exited
<1>15. CASE ConverterFailed(p) /\ Exited(p) /\ tool[p].who \in Converters
  BY <1>0, <1>15 DEF ConverterFailed, New, Exited
<1>16. CASE InstallerDone(p)
  BY <1>0, <1>16 DEF InstallerDone, Exited, Good
<1>17. CASE \E verdict \in {"PASS", "WARNING", "ERROR"} : Finalize(p, verdict)
  <2>1. PICK verdict \in {"PASS", "WARNING", "ERROR"} : Finalize(p, verdict)
    BY <1>17
  <2>2. CASE verdict = "PASS"
    BY <1>0, <2>1, <2>2 DEF Finalize, Stage
  <2>3. CASE verdict # "PASS" /\ job[p].batch /\ job[p].install
    BY <1>0, <2>1, <2>3 DEF Finalize, Stage
  <2>4. CASE verdict # "PASS" /\ ~(job[p].batch /\ job[p].install)
    BY <1>0, <2>1, <2>4 DEF Finalize, Stage
  <2> QED BY <2>2, <2>3, <2>4
<1>18. CASE GateCheck(p)
  BY <1>0, <1>18 DEF GateCheck
<1>19. CASE GateConnect(p)
  BY <1>0, <1>19 DEF GateConnect
<1>20. CASE GateWake(p)
  BY <1>0, <1>20 DEF GateWake
<1>21. CASE Decide(p)
  BY <1>0, <1>21 DEF Decide
<1>22. CASE Install(p)
  BY <1>0, <1>22 DEF Install, New, DryRun, Stage
<1>23. CASE History(p)
  BY <1>0, <1>23 DEF History
<1>24. CASE Cleanup(p)
  BY <1>0, <1>24 DEF Cleanup, RemoveTemp
<1>25. CASE Emit(p)
  BY <1>0, <1>25 DEF Emit
<1> QED
  BY <1>1, <1>2, <1>3, <1>4, <1>5, <1>6, <1>7, <1>8, <1>9, <1>10, <1>11, <1>12, <1>13, <1>14, <1>15, <1>16, <1>17, <1>18, <1>19, <1>20, <1>21, <1>22, <1>23, <1>24, <1>25
     DEF Work, ConverterDone

LEMMA InstallRequest ==
    ASSUME TypeOK, InstallInv, NEW p \in Pipelines, Ask(p) \/ Deliver(p)
    PROVE  InstallInv'
<1> SUFFICES ASSUME NEW q \in Pipelines PROVE InstallInvAt(q)'
  BY DEF InstallInv
<1>0. InstallInvAt(p) /\ InstallInvAt(q)
  BY DEF InstallInv
<1> USE DEF InstallInvAt, AgreedFirst, ApprovedIsConsent, InstallerLate, InstalledBy,
            RunsInExec, StopIsCancel, OkIsInstalled, SuccessLast, SuccessMeans,
            InstalledMeans, Agreed, Cancelled
<1> USE DEF TypeOK
<1>1. CASE Start(p)
  BY <1>0, <1>1 DEF Start
<1>2. CASE Approve(p)
  BY <1>0, <1>2 DEF Approve
<1>3. CASE Dismiss(p)
  BY <1>0, <1>3 DEF Dismiss
<1>4. CASE Cancel(p)
  BY <1>0, <1>4 DEF Cancel
<1>5. CASE AutoDismiss(p)
  BY <1>0, <1>5 DEF AutoDismiss
<1>6. CASE CancelHelper(p)
  <2>1. /\ tool'[p].proc \in {tool[p].proc, "failed"}
        /\ tool'[p].who = tool[p].who
        /\ q # p => tool'[q] = tool[q]
    BY <1>6 DEF CancelHelper, Tool
  <2>2. /\ cancel[p] = "asked" /\ cancel'[p] = "told"
        /\ q # p => cancel'[q] = cancel[q]
        /\ UNCHANGED <<pc, job, decision, consent, report, success, installed>>
    BY <1>6 DEF CancelHelper
  <2> QED BY <1>0, <2>1, <2>2
<1> QED BY <1>1, <1>2, <1>3, <1>4, <1>5, <1>6 DEF Ask, Deliver

THEOREM InstallInvariant == Spec => []InstallInv
<1>1. Init => InstallInv
  BY DEF Init, InstallInv, InstallInvAt, AgreedFirst, ApprovedIsConsent, InstallerLate,
         InstalledBy, RunsInExec, StopIsCancel, OkIsInstalled, SuccessLast, SuccessMeans,
         InstalledMeans
<1>2. TypeOK /\ InstallInv /\ [Next]_vars => InstallInv'
  <2> SUFFICES ASSUME TypeOK, InstallInv, [Next]_vars PROVE InstallInv'
    OBVIOUS
  <2>1. CASE Next
    BY <2>1, InstallWork, InstallRequest DEF Next
  <2>2. CASE UNCHANGED vars
    BY <2>2 DEF vars, InstallInv, InstallInvAt, AgreedFirst, ApprovedIsConsent,
         InstallerLate, InstalledBy, RunsInExec, StopIsCancel, OkIsInstalled, SuccessLast,
         SuccessMeans, InstalledMeans, Agreed, Cancelled
  <2> QED BY <2>1, <2>2
<1> QED BY <1>1, <1>2, TypeCorrect, PTL DEF Spec

\* Nothing is installed unless the report was clean or somebody asked for it.
THEOREM InstallsWithConsent == Spec => []InstallNeedsConsent
<1>1. InstallInv => InstallNeedsConsent
  BY DEF InstallInv, InstallInvAt, AgreedFirst, InstalledBy, Agreed, InstallNeedsConsent
<1> QED BY <1>1, InstallInvariant, PTL

\* The result a finished pipeline reports is true of the installation.
THEOREM TellsTheTruth == Spec => []TruthfulResult
<1>1. InstallInv => TruthfulResult
  BY DEF InstallInv, InstallInvAt, SuccessMeans, InstalledMeans, TruthfulResult
<1> QED BY <1>1, InstallInvariant, PTL
=============================================================================
