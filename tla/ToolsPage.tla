------------------------------ MODULE ToolsPage ------------------------------
(***************************************************************************)
(* The cards of the tools page (pages/Tools.tsx), its snapshot card apart  *)
(* (SnapshotCards), and the compare page (pages/Compare.tsx), which is a   *)
(* page with one such card.  Threaded tools run in a thread of the sidecar *)
(* and end with an event of their own, which says what came out and not    *)
(* for which call; direct ones answer with the response.  The page forgets *)
(* everything when it is left, the sidecar's threads go on.                *)
(***************************************************************************)
EXTENDS Naturals, FiniteSets

CONSTANTS Threaded,  \* the page's tools that end with an event
          Direct,    \* those that end with their response
          CanExpire, \* a call may time out, while the sidecar goes on with it
          MaxJobs,   \* bound: calls
          MaxVisits  \* bound: times the page is opened

\* What the constants have to satisfy
ToolsAssumption == /\ MaxJobs \in Nat /\ MaxVisits \in Nat /\ Threaded \cap Direct = {}
                   /\ CanExpire \in BOOLEAN

Tools == Threaded \cup Direct

VARIABLES
    open,   \* the page is mounted
    visit,  \* times it was opened
    busy,   \* rpmBusy, abiBusy, ...
    shown,  \* the call whose result a card shows, 0 for none
    asked,  \* the last call of a card (history)
    issued, \* calls so far
    jobs    \* calls and threads of the sidecar

vars == <<open, visit, busy, shown, asked, issued, jobs>>

\* A call knows the visit whose handler awaits its response, 0 for none.
Job == [id : 1..MaxJobs, tool : Tools, visit : 0..MaxVisits]

TypeOK ==
    /\ open \in BOOLEAN /\ visit \in 0..MaxVisits /\ issued \in 0..MaxJobs
    /\ busy \in [Tools -> BOOLEAN] /\ jobs \subseteq Job
    /\ shown \in [Tools -> 0..MaxJobs] /\ asked \in [Tools -> 0..MaxJobs]

Quiet  == [c \in Tools |-> FALSE]
Nobody == [c \in Tools |-> 0]

Init == /\ open = FALSE /\ visit = 0 /\ issued = 0 /\ jobs = {}
        /\ busy = Quiet /\ shown = Nobody /\ asked = Nobody

-----------------------------------------------------------------------------
\* A component of its own each time; the listeners last as long as it does.
Open ==
    /\ ~open /\ visit < MaxVisits
    /\ open' = TRUE /\ visit' = visit + 1
    /\ busy' = Quiet /\ shown' = Nobody /\ asked' = Nobody
    /\ UNCHANGED <<issued, jobs>>
Leave == open /\ open' = FALSE /\ UNCHANGED <<visit, busy, shown, asked, issued, jobs>>

\* Mutation of Card: the button of a busy card works.
CardAlways(c) == [button |-> open, result |-> shown[c]]

\* What a card offers and shows.
Card(c) == [button |-> open /\ ~busy[c], result |-> shown[c]]

\* A handler: the card is busy, its last result goes, the sidecar is called.
Submit(c) ==
    /\ c \in Tools /\ Card(c).button /\ issued < MaxJobs
    /\ issued' = issued + 1
    /\ busy' = [busy EXCEPT ![c] = TRUE]
    /\ shown' = [shown EXCEPT ![c] = 0] /\ asked' = [asked EXCEPT ![c] = issued']
    /\ jobs' = jobs \cup {[id |-> issued', tool |-> c, visit |-> visit]}
    /\ UNCHANGED <<open, visit>>

handleRpm      == Submit("rpm")
handleAbi      == Submit("abi")
handleAudit    == Submit("audit")
handleScan     == Submit("scan")
handleAttest   == Submit("attest")
handlePublish  == Submit("publish")
handleRehearse == Submit("rehearse")
handleCompare  == Submit("compare")

\* The card comes to rest, with the result of call n if there is one.
Settle(c, n) ==
    /\ busy' = [busy EXCEPT ![c] = FALSE]
    /\ shown' = IF n = 0 THEN shown ELSE [shown EXCEPT ![c] = n]

\* A thread ends and emits its tool's event; the page that is open takes it,
\* whichever page asked.
Done(j, ok) ==
    /\ j.tool \in Threaded /\ jobs' = jobs \ {j}
    /\ IF open THEN Settle(j.tool, IF ok THEN j.id ELSE 0) ELSE UNCHANGED <<busy, shown>>
    /\ UNCHANGED <<open, visit, asked, issued>>

\* A response reaches the handler that awaits it: the result of a direct tool,
\* or the refusal of a call.
Respond(j, ok) ==
    /\ ok => j.tool \in Direct
    /\ jobs' = jobs \ {j}
    /\ IF open /\ j.visit = visit THEN Settle(j.tool, IF ok THEN j.id ELSE 0)
                                  ELSE UNCHANGED <<busy, shown>>
    /\ UNCHANGED <<open, visit, asked, issued>>

\* The client's time-out: for the handler a refusal, and nobody awaits the
\* response of the call any more, which the sidecar has or is still to take up.
TimesOut(j) ==
    /\ CanExpire /\ j.visit # 0
    /\ jobs' = (jobs \ {j}) \cup {[j EXCEPT !.visit = 0]}
    /\ IF open /\ j.visit = visit THEN Settle(j.tool, 0) ELSE UNCHANGED <<busy, shown>>
    /\ UNCHANGED <<open, visit, asked, issued>>

-----------------------------------------------------------------------------
Next ==
    \/ Open \/ Leave
    \/ handleRpm \/ handleAbi \/ handleAudit \/ handleScan \/ handleAttest
    \/ handlePublish \/ handleRehearse \/ handleCompare
    \/ \E j \in jobs, ok \in BOOLEAN : Done(j, ok) \/ Respond(j, ok)
    \/ \E j \in jobs : TimesOut(j)

Spec == Init /\ [][Next]_vars
-----------------------------------------------------------------------------
(* Properties *)

\* A card shows the answer to the question it was asked last, never to an
\* earlier one: on one visit, and while no call times out.
OwnAnswerShown == open => \A c \in Tools : shown[c] \in {0, asked[c]}

\* A spinner turns only while a call of its tool can still end it, also when
\* the page was left and opened again in between, or earlier calls timed out.
NoStuckBusy == open => \A c \in Tools : busy[c] => \E j \in jobs : j.tool = c
=============================================================================
