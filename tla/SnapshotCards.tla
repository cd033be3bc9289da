--------------------------- MODULE SnapshotCards ---------------------------
(***************************************************************************)
(* The service that clears old snapshots, and the two cards that install   *)
(* and remove it: one on the tools page (pages/Tools.tsx), one on the      *)
(* reports page (pages/Reports.tsx).  Both listen to event/snapshot_done   *)
(* while they are on the screen, and one is at most: a change begun on one *)
(* page may end on the other.                                              *)
(***************************************************************************)
EXTENDS Naturals, FiniteSets

CONSTANTS Ordered,   \* status calls succeed, and are answered in their order
          MaxJobs,   \* bound: calls
          MaxVisits, \* bound: pages opened
          None

\* What the constants have to satisfy
SnapshotAssumption == Ordered \in BOOLEAN /\ MaxJobs \in Nat /\ MaxVisits \in Nat

Pages == {"tools", "reports"}
Ops   == {"snapshot_install", "snapshot_remove"}

VARIABLES
    page,       \* the page on the screen
    visit,      \* pages opened so far
    snap,       \* what its card says: installed or not
    snapBusy,   \* its buttons are off
    confirming, \* confirmSnapRemove: the dialog of the reports page
    service,    \* the service is installed
    issued,     \* calls so far
    jobs        \* calls and threads of the sidecar

vars == <<page, visit, snap, snapBusy, confirming, service, issued, jobs>>

Status == BOOLEAN \cup {None}
Job    == [id : 1..MaxJobs, op : Ops \cup {"snapshot_status"}, visit : 1..MaxVisits,
           done : BOOLEAN, saw : Status]

TypeOK ==
    /\ page \in Pages \cup {None} /\ visit \in 0..MaxVisits /\ issued \in 0..MaxJobs
    /\ snap \in Status /\ snapBusy \in BOOLEAN /\ confirming \in BOOLEAN
    /\ service \in BOOLEAN /\ jobs \subseteq Job

Init == /\ page = None /\ visit = 0 /\ snap = None /\ snapBusy = FALSE
        /\ confirming = FALSE /\ service \in BOOLEAN /\ issued = 0 /\ jobs = {}

-----------------------------------------------------------------------------
\* A call of the page v.
Called(op, v) == jobs \cup {[id |-> issued + 1, op |-> op, visit |-> v,
                             done |-> FALSE, saw |-> None]}

\* The bound keeps a call for the reload after every change under way.
Room(n) == issued + n + Cardinality({j \in jobs : j.op \in Ops}) <= MaxJobs

\* The page is opened: loadSnapshot, loadSnap.
Open(p) ==
    /\ page = None /\ visit < MaxVisits /\ Room(1)
    /\ page' = p /\ visit' = visit + 1
    /\ snap' = None /\ snapBusy' = FALSE /\ confirming' = FALSE
    /\ issued' = issued + 1 /\ jobs' = Called("snapshot_status", visit')
    /\ UNCHANGED service
Leave == page # None /\ page' = None
         /\ UNCHANGED <<visit, snap, snapBusy, confirming, service, issued, jobs>>

\* The refresh button of the tools page
Refresh ==
    /\ page = "tools" /\ Room(1)
    /\ issued' = issued + 1 /\ jobs' = Called("snapshot_status", visit)
    /\ UNCHANGED <<page, visit, snap, snapBusy, confirming, service>>

\* setSnapBusy(true), and the call
Change(op) ==
    /\ Room(2) /\ snapBusy' = TRUE
    /\ issued' = issued + 1 /\ jobs' = Called(op, visit)
    /\ UNCHANGED <<page, visit, snap, service>>

\* handleSnapInstall and handleSnapRemove of the tools page
ToolsButton(op) ==
    /\ page = "tools" /\ ~snapBusy
    /\ Change(op) /\ UNCHANGED confirming

\* handleSnapInstall of the reports page; its removal asks first.
ReportsInstall ==
    /\ page = "reports" /\ ~snapBusy
    /\ Change("snapshot_install") /\ UNCHANGED confirming
ReportsAskRemove ==
    /\ page = "reports" /\ ~snapBusy /\ ~confirming /\ confirming' = TRUE
    /\ UNCHANGED <<page, visit, snap, snapBusy, service, issued, jobs>>
\* The dialog's answer; its confirmation is off while the card is busy.
ReportsAnswer(yes) ==
    /\ page = "reports" /\ confirming /\ confirming' = FALSE
    /\ IF yes THEN ~snapBusy /\ Change("snapshot_remove")
              ELSE UNCHANGED <<page, visit, snap, snapBusy, service, issued, jobs>>

-----------------------------------------------------------------------------
(* The sidecar *)

\* A thread does its work: a change that goes through, or a look.
Work(j, ok) ==
    /\ ~j.done
    /\ Ordered => \A k \in jobs : (j.op = "snapshot_status" /\ k.op = j.op) => j.id <= k.id
    /\ service' = IF ok /\ j.op \in Ops THEN j.op = "snapshot_install" ELSE service
    /\ jobs' = (jobs \ {j}) \cup
               {[j EXCEPT !.done = TRUE,
                          !.saw = IF j.op \in Ops THEN None ELSE service]}
    /\ UNCHANGED <<page, visit, snap, snapBusy, confirming, issued>>

\* event/snapshot_done: the page that is open is at rest, and looks again.
SnapshotDone(j) ==
    /\ j.op \in Ops /\ j.done
    /\ IF page = None
       THEN jobs' = jobs \ {j} /\ UNCHANGED <<snapBusy, issued>>
       ELSE /\ snapBusy' = FALSE /\ issued' = issued + 1
            /\ jobs' = Called("snapshot_status", visit) \ {j}
    /\ UNCHANGED <<page, visit, snap, confirming, service>>

\* The call of a change is refused.
Refused(j) ==
    /\ j.op \in Ops /\ ~j.done
    /\ jobs' = jobs \ {j}
    /\ snapBusy' = (snapBusy /\ ~(page # None /\ j.visit = visit))
    /\ UNCHANGED <<page, visit, snap, confirming, service, issued>>

\* The response to a look; one that fails changes nothing on the card.
Looked(j, ok) ==
    /\ j.op = "snapshot_status" /\ (j.done \/ ~ok) /\ (Ordered => ok)
    /\ Ordered => \A k \in jobs : k.op = j.op => j.id <= k.id
    /\ jobs' = jobs \ {j}
    /\ snap' = IF ok /\ page # None /\ j.visit = visit THEN j.saw ELSE snap
    /\ UNCHANGED <<page, visit, snapBusy, confirming, service, issued>>

-----------------------------------------------------------------------------
Next ==
    \/ Leave \/ \E p \in Pages : Open(p)
    \/ Refresh \/ \E op \in Ops : ToolsButton(op)
    \/ ReportsInstall \/ ReportsAskRemove \/ \E yes \in BOOLEAN : ReportsAnswer(yes)
    \/ \E j \in jobs, ok \in BOOLEAN : Work(j, ok) \/ Looked(j, ok)
    \/ \E j \in jobs : SnapshotDone(j) \/ Refused(j)

Spec == Init /\ [][Next]_vars
-----------------------------------------------------------------------------
(* Properties *)

\* When all has come to rest, and calls were answered in their order, the card
\* on the screen tells what is installed, also when the change was begun on another page or on an earlier visit.
CardTruthful == (page # None /\ jobs = {}) => snap = service

\* The buttons of a card do not stay off with no change under way.
NoStuckBusy == (page # None /\ snapBusy) => \E j \in jobs : j.op \in Ops
=============================================================================
