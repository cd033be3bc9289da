------------------------------ MODULE BatchTab ------------------------------
(***************************************************************************)
(* The batch tab of the convert page (pages/Convert.tsx) over the queue of *)
(* the sidecar, which BatchQueue models in full: here its handlers are a   *)
(* step each, and its dispatcher works in waves.  The tab learns of the    *)
(* queue by asking: when it is opened, after each of its calls, and when   *)
(* event/queue_done comes.                                                 *)
(***************************************************************************)
EXTENDS Naturals, Integers, FiniteSets

CONSTANTS Ordered,   \* calls are worked on and answered in their order
          Fails,     \* calls may be refused, or time out
          MaxItems,  \* bound: items added
          MaxShift,  \* bound: priorities
          MaxJobs    \* bound: calls

\* What the constants have to satisfy
BatchTabAssumption ==
    /\ Ordered \in BOOLEAN /\ Fails \in BOOLEAN
    /\ MaxItems \in Nat /\ MaxShift \in Nat /\ MaxJobs \in Nat

Ids        == 1..MaxItems
Priorities == -MaxShift..MaxShift
Item   == [status : {"pending", "running", "done", "error"}, priority : Priorities]
Queues == UNION {[S -> Item] : S \in SUBSET Ids}

VARIABLES
    tab,                 \* the batch tab is open
    batch,               \* the list on the screen
    batchRunning,        \* the tab believes that the queue works
    batchInstall,        \* the run is to install what it makes
    confirmBatchClear,
    items, added,        \* the queue, and the items it ever had
    dispatcher,          \* _queue_running: what the dispatcher was told, {} for none
    doneEvents,          \* event/queue_done on its way
    jobs, issued

page  == <<tab, batch, batchRunning, batchInstall, confirmBatchClear>>
queue == <<items, added, dispatcher, doneEvents>>
vars  == <<tab, batch, batchRunning, batchInstall, confirmBatchClear, items, added, dispatcher,
           doneEvents, jobs, issued>>

Changes == {"add", "priority", "remove", "clear", "cancel"}
\* Of a call that is "unheard" the client's time-out has passed.
Queued == {"sent", "unheard"}
Job == [id : 1..MaxJobs, op : Changes \cup {"list", "start"}, item : 0..MaxItems,
        arg : Priorities, install : BOOLEAN,
        phase : Queued \cup {"done", "refused"}, saw : Queues]

TypeOK ==
    /\ tab \in BOOLEAN /\ batch \in Queues /\ items \in Queues
    /\ batchRunning \in BOOLEAN /\ batchInstall \in BOOLEAN /\ confirmBatchClear \in BOOLEAN
    /\ added \in 0..MaxItems /\ dispatcher \subseteq [install : BOOLEAN, parallel : {1, 2}]
    /\ doneEvents \in Nat
    /\ issued \in 0..MaxJobs /\ jobs \subseteq Job

Nothing == [i \in {} |-> 0]

\* The queue may hold items of an earlier run of the application.
Init == /\ tab = FALSE /\ batch = Nothing /\ batchRunning = FALSE /\ batchInstall = FALSE
        /\ confirmBatchClear = FALSE /\ added \in 0..MaxItems
        /\ items = [i \in 1..added |-> [status |-> "pending", priority |-> 0]]
        /\ dispatcher = {} /\ doneEvents = 0 /\ jobs = {} /\ issued = 0

-----------------------------------------------------------------------------
Request(n, op, i, arg) == [id |-> n, op |-> op, item |-> i, arg |-> arg,
                           install |-> batchInstall, phase |-> "sent", saw |-> Nothing]
\* The bound keeps a call for the list after every change, and after a run.
Room(n) == issued + n + Cardinality({j \in jobs : j.op # "list"})
             + Cardinality(dispatcher) + doneEvents <= MaxJobs
Call(op, i, arg) == /\ issued' = issued + 1
                    /\ jobs' = jobs \cup {Request(issued', op, i, arg)}

\* loadBatch, when the tab opens and for its button
OpenTab ==
    /\ ~tab /\ tab' = TRUE /\ Room(1) /\ Call("list", 0, 0)
    /\ UNCHANGED <<batch, batchRunning, batchInstall, confirmBatchClear, queue>>
CloseTab ==
    /\ tab /\ ~confirmBatchClear /\ tab' = FALSE
    /\ UNCHANGED <<batch, batchRunning, batchInstall, confirmBatchClear, queue, jobs, issued>>
\* The tab, without a dialog before it
Tab == tab /\ ~confirmBatchClear
Refresh == Tab /\ Room(1) /\ Call("list", 0, 0) /\ UNCHANGED <<page, queue>>
SetInstall ==
    /\ Tab /\ batchInstall' = ~batchInstall
    /\ UNCHANGED <<tab, batch, batchRunning, confirmBatchClear, queue, jobs, issued>>

\* handleBatchAdd of one file
handleBatchAdd ==
    /\ Tab /\ ~batchRunning /\ Room(2)
    /\ added + Cardinality({j \in jobs : j.op = "add"}) < MaxItems
    /\ Call("add", 0, 0) /\ UNCHANGED <<page, queue>>

handleBatchStart ==
    /\ Tab /\ ~batchRunning /\ \E i \in DOMAIN batch : batch[i].status = "pending"
    /\ batchRunning' = TRUE /\ Room(2) /\ Call("start", 0, 0)
    /\ UNCHANGED <<tab, batch, batchInstall, confirmBatchClear, queue>>

\* The buttons of a row; the new priority is that of the list and one.
Row(i) == Tab /\ i \in DOMAIN batch
handleBatchPriority(i, delta) ==
    /\ Row(i) /\ batch[i].priority + delta \in Priorities /\ Room(2)
    /\ Call("priority", i, batch[i].priority + delta)
    /\ UNCHANGED <<page, queue>>
handleBatchRemove(i) ==
    /\ Row(i) /\ batch[i].status # "running" /\ Room(2)
    /\ Call("remove", i, 0) /\ UNCHANGED <<page, queue>>
handleBatchCancel(i) ==
    /\ Row(i) /\ batch[i].status = "running" /\ Room(2)
    /\ Call("cancel", i, 0) /\ UNCHANGED <<page, queue>>

\* Mutation of handleBatchClearRequest: also while the queue works.
handleBatchClearAnytime ==
    /\ Tab /\ confirmBatchClear' = TRUE
    /\ UNCHANGED <<tab, batch, batchRunning, batchInstall, queue, jobs, issued>>

\* Clearing asks first.
handleBatchClearRequest ==
    /\ Tab /\ ~batchRunning /\ confirmBatchClear' = TRUE
    /\ UNCHANGED <<tab, batch, batchRunning, batchInstall, queue, jobs, issued>>
handleBatchClear(yes) ==
    /\ confirmBatchClear /\ confirmBatchClear' = FALSE
    /\ IF yes THEN Room(2) /\ Call("clear", 0, 0) ELSE UNCHANGED <<jobs, issued>>
    /\ UNCHANGED <<tab, batch, batchRunning, batchInstall, queue>>

-----------------------------------------------------------------------------
(* The queue *)

With(i, item) == [k \in DOMAIN items \cup {i} |-> IF k = i THEN item ELSE items[k]]
Without(i) == [k \in DOMAIN items \ {i} |-> items[k]]
Pending    == {i \in DOMAIN items : items[i].status = "pending"}
Running    == {i \in DOMAIN items : items[i].status = "running"}
Turn(j)    == /\ j.phase \in Queued
              /\ Ordered => \A k \in jobs : k.phase \in Queued => j.id <= k.id
Answer(j, phase, s) ==
    jobs' = (jobs \ {j}) \cup IF j.phase = "unheard" THEN {}
                             ELSE {[j EXCEPT !.phase = phase, !.saw = s]}

QueueList(j) ==
    /\ j.op = "list" /\ Turn(j) /\ Answer(j, "done", items)
    /\ UNCHANGED <<page, queue, issued>>
\* queue.add, queue.priority, queue.remove, queue.clear
QueueChange(j) ==
    /\ j.op \in {"add", "priority", "remove", "clear"} /\ Turn(j)
    /\ added' = IF j.op = "add" THEN added + 1 ELSE added
    /\ items' = CASE j.op = "add" -> With(added', [status |-> "pending", priority |-> 0])
                  [] j.op = "priority" -> IF j.item \in DOMAIN items
                                          THEN [items EXCEPT ![j.item].priority = j.arg] ELSE items
                  [] j.op = "remove" -> Without(j.item)
                  [] j.op = "clear" -> Nothing
    /\ Answer(j, IF j.op = "priority" /\ j.item \notin DOMAIN items THEN "refused" ELSE "done", Nothing)
    /\ UNCHANGED <<page, dispatcher, doneEvents, issued>>
\* queue.start: with a dispatcher for two items at a time, for one if it installs
QueueStart(j) ==
    /\ j.op = "start" /\ Turn(j)
    /\ IF Pending = {} \/ dispatcher # {}
       THEN Answer(j, "refused", Nothing) /\ UNCHANGED dispatcher
       ELSE /\ Answer(j, "done", Nothing)
            /\ dispatcher' = {[install |-> j.install, parallel |-> IF j.install THEN 1 ELSE 2]}
    /\ UNCHANGED <<page, items, added, doneEvents, issued>>
\* queue.cancel: the item's pipeline ends, with an error.
QueueCancel(j) ==
    /\ j.op = "cancel" /\ Turn(j) /\ Answer(j, "done", Nothing)
    /\ items' = IF j.item \in Running THEN [items EXCEPT ![j.item].status = "error"] ELSE items
    /\ UNCHANGED <<page, added, dispatcher, doneEvents, issued>>

\* The dispatcher starts the next wave when the last has ended.
Before(i, k) == \/ items[i].priority > items[k].priority
                \/ items[i].priority = items[k].priority /\ i <= k
Wave ==
    /\ dispatcher # {} /\ Running = {} /\ Pending # {}
    /\ \E r \in dispatcher : items' =
         [i \in DOMAIN items |->
            IF i \in Pending /\ Cardinality({k \in Pending : Before(k, i)}) <= r.parallel
            THEN [items[i] EXCEPT !.status = "running"] ELSE items[i]]
    /\ UNCHANGED <<page, added, dispatcher, doneEvents, jobs, issued>>
ItemEnds(i, ok) ==
    /\ i \in Running
    /\ items' = [items EXCEPT ![i].status = IF ok THEN "done" ELSE "error"]
    /\ UNCHANGED <<page, added, dispatcher, doneEvents, jobs, issued>>
RunEnds ==
    /\ dispatcher # {} /\ Running = {} /\ Pending = {}
    /\ dispatcher' = {} /\ doneEvents' = doneEvents + 1
    /\ UNCHANGED <<page, items, added, jobs, issued>>

-----------------------------------------------------------------------------
(* What the tab hears *)

\* Mutation of QueueDone: the list is not loaded again.
QueueDoneUnlisted ==
    /\ doneEvents > 0 /\ doneEvents' = doneEvents - 1 /\ batchRunning' = FALSE
    /\ UNCHANGED <<tab, batch, batchInstall, confirmBatchClear, items, added, dispatcher, jobs,
                   issued>>

QueueDone ==
    /\ doneEvents > 0 /\ doneEvents' = doneEvents - 1 /\ batchRunning' = FALSE
    /\ Call("list", 0, 0)
    /\ UNCHANGED <<tab, batch, batchInstall, confirmBatchClear, items, added, dispatcher>>

Answered(j, ok) ==
    /\ IF ok THEN j.phase \notin Queued ELSE Fails /\ j.phase = "sent"
    /\ Ordered => \A k \in jobs : j.id <= k.id
Listed(j, ok) ==
    /\ j.op = "list" /\ Answered(j, ok) /\ jobs' = jobs \ {j}
    /\ batch' = IF ok THEN j.saw ELSE batch
    /\ UNCHANGED <<tab, batchRunning, batchInstall, confirmBatchClear, queue, issued>>
\* A change is followed by a look, a refusal by none.
Changed(j, ok) ==
    /\ j.op \in Changes /\ Answered(j, ok)
    /\ IF ok /\ j.phase = "done"
       THEN /\ issued' = issued + 1
            /\ jobs' = (jobs \ {j}) \cup {Request(issued', "list", 0, 0)}
       ELSE jobs' = jobs \ {j} /\ UNCHANGED issued
    /\ UNCHANGED <<page, queue>>
Started(j, ok) ==
    /\ j.op = "start" /\ Answered(j, ok) /\ jobs' = jobs \ {j}
    /\ batchRunning' = (batchRunning /\ ok /\ j.phase = "done")
    /\ UNCHANGED <<tab, batch, batchInstall, confirmBatchClear, queue, issued>>

\* The client's time-out: for the tab a refusal, for the queue nothing.
TimesOut(j) ==
    /\ Fails /\ j.phase # "unheard"
    /\ jobs' = (jobs \ {j}) \cup IF j.phase = "sent" THEN {[j EXCEPT !.phase = "unheard"]} ELSE {}
    /\ batchRunning' = (batchRunning /\ j.op # "start")
    /\ UNCHANGED <<tab, batch, batchInstall, confirmBatchClear, queue, issued>>

-----------------------------------------------------------------------------
Next ==
    \/ OpenTab \/ CloseTab \/ Refresh \/ SetInstall \/ handleBatchAdd \/ handleBatchStart
    \/ handleBatchClearRequest \/ \E yes \in BOOLEAN : handleBatchClear(yes)
    \/ \E i \in Ids : \/ handleBatchRemove(i) \/ handleBatchCancel(i)
                      \/ \E d \in {-1, 1} : handleBatchPriority(i, d)
                      \/ \E ok \in BOOLEAN : ItemEnds(i, ok)
    \/ \E j \in jobs : \/ QueueList(j) \/ QueueChange(j) \/ QueueStart(j) \/ QueueCancel(j) \/ TimesOut(j)
                       \/ \E ok \in BOOLEAN : Listed(j, ok) \/ Changed(j, ok) \/ Started(j, ok)
    \/ Wave \/ RunEnds \/ QueueDone

Spec == Init /\ [][Next]_vars
-----------------------------------------------------------------------------
(* Properties *)

\* When all is answered and the queue is at rest the open tab lists it as it
\* is, though items ended without a word, and it can start it again.
ListTruthful ==
    (tab /\ jobs = {} /\ dispatcher = {} /\ doneEvents = 0) => (batch = items /\ ~batchRunning)

\* While the queue works the tab knows it: nothing clears the queue or adds to
\* it under the dispatcher, whatever was in flight when it was started; if the
\* calls are served in their order, and queue.start does not time out before its
\* answer comes.
ClearsAtRest ==
    \A j \in jobs : (QueueChange(j) /\ j.op \in {"add", "clear"}) => dispatcher = {}

\* The tab waits only while a start, a run or the news of its end is under way.
WaitsEnd == batchRunning => \/ \E j \in jobs : j.op = "start"
                            \/ dispatcher # {} \/ doneEvents > 0
=============================================================================
