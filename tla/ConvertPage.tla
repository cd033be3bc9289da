----------------------------- MODULE ConvertPage -----------------------------
(***************************************************************************)
(* The first tab of the desktop's conversion page (pages/Convert.tsx): the *)
(* queue of dropped files, the loop that converts them one after the       *)
(* other, the dialogs of decision and of cancellation; with the sidecar    *)
(* behind it, whose batch queue emits the same events.  startNext asks for *)
(* no installation, so that a conversion with a report dismisses itself    *)
(* (handlers_pipeline.py); that the gate misses no decision is assumed     *)
(* here and is a matter of Pipeline.                                       *)
(* React renders after the handlers have run: seen is what was rendered    *)
(* last, which is what queueRef, runningRef and the buttons go by.         *)
(***************************************************************************)
EXTENDS Naturals, Sequences, FiniteSets

CONSTANTS Paths,       \* files a user may drop
          Batch,       \* items of the batch queue, converted meanwhile
          Refusable,   \* files pipeline.start may refuse
          Late,        \* files whose pipeline.start may time out in the client
          MaxDrops,    \* bound: files dropped
          MaxRequests, \* bound: requests that wait when a cancellation is asked
          RenderFirst,  \* drops, clicks and timers find the page rendered
          None

\* What the constants have to satisfy
ConvertPageAssumption ==
    /\ Refusable \subseteq Paths /\ Late \subseteq Paths
    /\ Paths \cap Batch = {}
    /\ None \notin Paths \cup Batch
    /\ MaxDrops \in Nat /\ MaxRequests \in Nat
    /\ RenderFirst \in BOOLEAN

VARIABLES
    queue,    \* entries [id, status], in the order they were added
    running,  \* a conversion runs, the page believes
    report,   \* the conversion whose compatibility report is shown
    output,   \* the conversion whose package the result band offers
    asking,   \* the dialog that confirms a cancellation is open
    seen,     \* [queue, running] as rendered last
    drops,    \* files dropped so far
    ticks,    \* timers set to run startNext
    main,     \* requests to the sidecar's main thread
    posted,   \* signals of the pipelines to lambdas of that thread
    bus,      \* responses and events on their way to the page
    current,  \* transport._pipeline
    conv,     \* what each pipeline does
    outcome   \* how it ended

page    == <<queue, running, report, output, asking, seen, drops, ticks>>
sidecar == <<main, posted, current, conv, outcome>>
vars    == <<page, bus, sidecar>>
pipelines == <<posted, current, conv, outcome>>

Conversions == Paths \cup Batch
Entry       == [id : Paths, status : {"pending", "running", "success", "failed"}]
\* A late start is one whose caller has given up.  A word is pipeline.approve,
\* .dismiss or .cancel: what they come to is told apart in Pipeline.
Requests    == [do : {"start", "late", "word"}, path : Paths \cup {None}]
\* What a conversion does; if told, it will not wait for a decision.
States      == {"none", "converting", "told", "awaiting", "ending", "over"}
Events      == [ev : {"refused", "ready", "finished"}, of : Conversions, ok : BOOLEAN]

TypeOK ==
    /\ queue \in Seq(Entry) /\ drops \in 0..MaxDrops
    /\ running \in BOOLEAN /\ asking \in BOOLEAN
    /\ report \in Conversions \cup {None} /\ output \in Conversions \cup {None}
    /\ seen.queue \in Seq(Entry) /\ seen.running \in BOOLEAN
    /\ ticks \in Nat
    /\ main \in Seq(Requests) /\ posted \in Seq(Events) /\ bus \in Seq(Events)
    /\ current \in Paths \cup {None}
    /\ conv \in [Conversions -> States]
    /\ outcome \in [Conversions -> {"none", "success", "failed"}]

Init ==
    /\ queue = <<>> /\ running = FALSE /\ report = None /\ output = None
    /\ asking = FALSE /\ seen = [queue |-> <<>>, running |-> FALSE]
    /\ drops = 0 /\ ticks = 0
    /\ main = <<>> /\ posted = <<>> /\ bus = <<>> /\ current = None
    /\ conv = [x \in Conversions |-> "none"]
    /\ outcome = [x \in Conversions |-> "none"]

-----------------------------------------------------------------------------
(* The page *)

\* setQueue(prev => prev.map(q => q.id === p ? {...q, status: s} : q))
Marked(q, p, s) == [i \in DOMAIN q |-> IF q[i].id = p THEN [q[i] EXCEPT !.status = s] ELSE q[i]]

\* The first entry of a status, or 0.
FirstOf(q, s) == LET I == {i \in DOMAIN q : q[i].status = s}
                 IN  IF I = {} THEN 0 ELSE CHOOSE i \in I : \A j \in I : i <= j

\* startNext, which decides by what was rendered and sets what will be.
StartNext ==
    LET i == FirstOf(seen.queue, "pending") IN
    IF seen.running \/ i = 0 THEN UNCHANGED <<queue, running, output, main>>
    ELSE /\ running' = TRUE /\ output' = None
         /\ queue' = Marked(queue, seen.queue[i].id, "running")
         /\ main' = Append(main, [do |-> "start", path |-> seen.queue[i].id])

Rendered == seen = [queue |-> queue, running |-> running]
Settled  == RenderFirst => Rendered

\* React renders.
Render ==
    /\ ~Rendered
    /\ seen' = [queue |-> queue, running |-> running]
    /\ UNCHANGED <<queue, running, report, output, asking, drops, ticks, bus, sidecar>>

\* addPaths, for a drop anywhere in the window, the file dialog or the
\* arguments of the program: the disabled DropZone stops none but the dialog.
AddPath(p) ==
    /\ drops < MaxDrops /\ drops' = drops + 1 /\ Settled
    /\ \A i \in DOMAIN seen.queue : seen.queue[i].id # p
    /\ queue' = Append(queue, [id |-> p, status |-> "pending"])
    /\ ticks' = ticks + 1
    /\ UNCHANGED <<running, report, output, asking, seen, bus, sidecar>>

\* setTimeout(() => void startNext(), 0)
Tick ==
    /\ ticks > 0
    /\ Settled /\ ticks' = ticks - 1
    /\ StartNext
    /\ UNCHANGED <<report, asking, seen, drops, bus, pipelines>>

\* The start button.  React renders before the click's event is over.
ClickStart ==
    /\ Settled /\ ~seen.running /\ FirstOf(seen.queue, "pending") # 0
    /\ StartNext
    /\ seen' = [queue |-> queue', running |-> running']
    /\ UNCHANGED <<report, asking, drops, ticks, bus, pipelines>>

\* QueueList offers the removal of pending entries only; removeItem keeps the
\* others in their order.
RemoveItem(p) ==
    /\ \E i \in DOMAIN seen.queue : seen.queue[i] = [id |-> p, status |-> "pending"]
    /\ LET kept == {i \in DOMAIN queue : queue[i].id # p} IN
         \E at \in [1..Cardinality(kept) -> kept] :
            /\ \A i, j \in DOMAIN at : i < j => at[i] < at[j]
            /\ queue' = [i \in DOMAIN at |-> queue[at[i]]]
    /\ seen' = [queue |-> queue', running |-> running]
    /\ UNCHANGED <<running, report, output, asking, drops, ticks, bus, sidecar>>

SendWord == main' = Append(main, [do |-> "word", path |-> None])

\* handleApprove and handleDismiss: the dialog closes, the answer is sent.
Decide ==
    /\ report # None /\ report' = None
    /\ SendWord
    /\ UNCHANGED <<queue, running, output, asking, seen, drops, ticks, bus, pipelines>>

\* The cancel button opens a dialog; its confirmation is handleCancel.
AskCancel ==
    /\ seen.running /\ ~asking /\ asking' = TRUE
    /\ Len(main) < MaxRequests
    /\ UNCHANGED <<queue, running, report, output, seen, drops, ticks, bus, sidecar>>
AnswerCancel(yes) ==
    /\ asking /\ asking' = FALSE
    /\ IF yes THEN SendWord ELSE UNCHANGED main
    /\ UNCHANGED <<queue, running, report, output, seen, drops, ticks, bus, pipelines>>

\* startNext's catch: the next file is left to somebody else.
OnRefused(p) ==
    /\ running' = FALSE
    /\ queue' = Marked(queue, p, "failed")
    /\ UNCHANGED <<report, output, ticks>>

\* The client gives up a pipeline.start that the main thread has not come to.
StartTimesOut(p) ==
    /\ p \in Late
    /\ \E i \in DOMAIN main : /\ main[i] = [do |-> "start", path |-> p]
                              /\ main' = [main EXCEPT ![i].do = "late"]
    /\ OnRefused(p)
    /\ UNCHANGED <<asking, seen, drops, bus, pipelines>>

\* The listener of event/compatibility_ready.
OnReady(x) == report' = x /\ UNCHANGED <<queue, running, output, ticks>>

\* Mutations of OnFinished: the head of the queue is marked; the dialog of the
\* report stays; the next file is not kicked off.
OnFinishedHead(x, ok) ==
    /\ running' = FALSE /\ report' = None
    /\ output' = IF ok THEN x ELSE output
    /\ queue' = IF queue = <<>> THEN queue
                ELSE [queue EXCEPT ![1].status = IF ok THEN "success" ELSE "failed"]
    /\ ticks' = ticks + 1
OnFinishedOpen(x, ok) ==
    /\ running' = FALSE /\ output' = IF ok THEN x ELSE output
    /\ LET i == FirstOf(queue, "running") IN
         queue' = IF i = 0 THEN queue
                  ELSE [queue EXCEPT ![i].status = IF ok THEN "success" ELSE "failed"]
    /\ ticks' = ticks + 1 /\ UNCHANGED report
OnFinishedLast(x, ok) ==
    /\ running' = FALSE /\ report' = None
    /\ output' = IF ok THEN x ELSE output
    /\ LET i == FirstOf(queue, "running") IN
         queue' = IF i = 0 THEN queue
                  ELSE [queue EXCEPT ![i].status = IF ok THEN "success" ELSE "failed"]
    /\ UNCHANGED ticks

\* The listener of event/finished: the entry that is marked is the one that
\* runs, whatever has finished; then the next one is kicked off.
OnFinished(x, ok) ==
    /\ running' = FALSE /\ report' = None
    /\ output' = IF ok THEN x ELSE output
    /\ LET i == FirstOf(queue, "running") IN
         queue' = IF i = 0 THEN queue
                  ELSE [queue EXCEPT ![i].status = IF ok THEN "success" ELSE "failed"]
    /\ ticks' = ticks + 1

\* The next response or event reaches the page.
Deliver ==
    /\ bus # <<>> /\ bus' = Tail(bus)
    /\ LET e == Head(bus) IN
         \/ e.ev = "refused"  /\ OnRefused(e.of)
         \/ e.ev = "ready"    /\ OnReady(e.of)
         \/ e.ev = "finished" /\ OnFinished(e.of, e.ok)
    /\ UNCHANGED <<asking, seen, drops, sidecar>>

-----------------------------------------------------------------------------
(* The sidecar *)

Active(x) == conv[x] \in {"converting", "told", "awaiting", "ending"}

Event(ev, x, ok) == [ev |-> ev, of |-> x, ok |-> ok]

\* pipeline.start puts a new pipeline in the place of the last one.
HandleStart(p, heard) ==
    \/ /\ p \in Refusable
       /\ bus' = IF heard THEN Append(bus, Event("refused", p, FALSE)) ELSE bus
       /\ outcome' = [outcome EXCEPT ![p] = "failed"]
       /\ UNCHANGED <<posted, current, conv>>
    \/ /\ current' = p /\ conv' = [conv EXCEPT ![p] = "converting"]
       /\ UNCHANGED <<posted, bus, outcome>>

\* approve_install, dismiss_install and cancel of the last pipeline started:
\* they wake it up if it waits, and are remembered by it if it does not yet.
Told ==
    IF current # None /\ conv[current] \in {"converting", "awaiting"}
    THEN [conv EXCEPT ![current] = IF @ = "awaiting" THEN "ending" ELSE "told"]
    ELSE conv

HandleWord == conv' = Told /\ UNCHANGED <<posted, bus, current, outcome>>

Handle ==
    /\ main # <<>> /\ main' = Tail(main)
    /\ LET r == Head(main) IN
         IF r.do \in {"start", "late"} THEN HandleStart(r.path, r.do = "start") ELSE HandleWord
    /\ UNCHANGED page

\* Mutation of Signal: the conversion is not dismissed.
SignalOnly ==
    /\ posted # <<>> /\ posted' = Tail(posted)
    /\ bus' = Append(bus, Head(posted))
    /\ UNCHANGED <<page, main, current, conv, outcome>>

\* The lambdas of pipeline.start run when the main thread processes its Qt
\* events.  The one that dismisses for want of `install` speaks to whatever
\* transport._pipeline is by then.
Signal ==
    /\ posted # <<>> /\ posted' = Tail(posted)
    /\ bus' = Append(bus, Head(posted))
    /\ conv' = IF Head(posted).ev = "ready" THEN Told ELSE conv
    /\ UNCHANGED <<page, main, current, outcome>>

\* A batch item's lambdas are connected directly.
Emit(e) == IF e.of \in Batch THEN bus' = Append(bus, e) /\ UNCHANGED posted
                             ELSE posted' = Append(posted, e) /\ UNCHANGED bus

\* The package is ready, and its report not clean: the pipeline waits unless it
\* was told before; a batch item decides for itself.
Ready(x) ==
    /\ conv[x] \in {"converting", "told"}
    /\ conv' = [conv EXCEPT ![x] = IF x \in Batch \/ @ = "told" THEN "ending" ELSE "awaiting"]
    /\ Emit(Event("ready", x, TRUE))
    /\ UNCHANGED <<page, main, current, outcome>>

\* A pipeline ends: also without a report, if that is clean or it fails before.
Finish(x, ok) ==
    /\ conv[x] \in {"converting", "told", "ending"}
    /\ conv' = [conv EXCEPT ![x] = "over"]
    /\ outcome' = [outcome EXCEPT ![x] = IF ok THEN "success" ELSE "failed"]
    /\ Emit(Event("finished", x, ok))
    /\ UNCHANGED <<page, main, current>>

\* The batch queue begins an item (see BatchQueue).
BatchStart(b) ==
    /\ b \in Batch /\ conv[b] = "none"
    /\ conv' = [conv EXCEPT ![b] = "converting"]
    /\ UNCHANGED <<page, bus, main, posted, current, outcome>>

-----------------------------------------------------------------------------
Work == \E x \in Conversions : Ready(x) \/ \E ok \in BOOLEAN : Finish(x, ok)

Next ==
    \/ \E p \in Paths : AddPath(p) \/ RemoveItem(p) \/ StartTimesOut(p)
    \/ Render \/ Tick \/ ClickStart \/ Decide \/ Deliver
    \/ AskCancel \/ \E yes \in BOOLEAN : AnswerCancel(yes)
    \/ Handle \/ Signal \/ Work
    \/ \E b \in Batch : BatchStart(b)

Spec == Init /\ [][Next]_vars

\* The page's thread renders, fires timers and takes messages, the sidecar's main
\* thread handles requests and signals, pipelines go on: each thread does something
\* if it has anything to do.  The user need not do anything.
FairSpec == Spec /\ WF_vars(Render \/ Tick \/ Deliver) /\ WF_vars(Handle \/ Signal) /\ WF_vars(Work)

-----------------------------------------------------------------------------
(* Properties *)

\* The mark on a file of the queue is the outcome of that file's conversion,
\* and the package offered for installation belongs to a file of the queue that
\* was converted: the listener of event/finished attributes by position.
OwnOutcome ==
    /\ \A i \in DOMAIN queue : queue[i].status \in {"success", "failed"} =>
                                   queue[i].status = outcome[queue[i].id]
    /\ output # None => output \in Paths /\ outcome[output] = "success"

\* startNext keeps one conversion at a time in the sidecar, or on its way to
\* it: pipeline.start forgets the pipeline it replaces.
OneConversion ==
    Cardinality({p \in Paths : Active(p)}) +
    Cardinality({i \in DOMAIN main : main[i].do \in {"start", "late"}}) <= 1

\* A conversion that waits can be reached, by the lambda that dismisses it and
\* by the words of the page, and a word said to a report that is shown reaches
\* no other: all of them go to transport._pipeline, which pipeline.start
\* replaces.
AnswerReaches ==
    /\ \A p \in Paths : conv[p] = "awaiting" => p = current
    /\ \A i \in DOMAIN posted : posted[i].ev = "ready" => posted[i].of = current
    /\ report # None => report = current

\* The queue comes to an end: there is a time when no file of it waits any more,
\* each one converted, failed or removed.  The files dropped are finite in number.
QueueDrains ==
    LET waits == \E i \in DOMAIN queue : queue[i].status = "pending" IN waits ~> ~waits

\* A pipeline that waits for a decision gets one, though the user says nothing,
\* unless a pipeline.start replaces it meanwhile, as the next one does when the
\* page has given its own up.
DecisionArrives ==
    LET waits == \E p \in Paths : current = p /\ conv[p] = "awaiting" IN waits ~> ~waits
=============================================================================
