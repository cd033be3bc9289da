----------------------------- MODULE BatchQueue -----------------------------
(***************************************************************************)
(* The batch conversion queue of the sidecar: core/api/handlers_queue.py   *)
(* and its durable backing core/queue_store.py.                            *)
(*                                                                         *)
(* Every queue.* request runs on a thread of its own (protocol.py,         *)
(* _route_request), queue.start spawns a dispatcher thread, a dispatcher   *)
(* spawns one pipeline thread per item of a batch.  One step of this       *)
(* module is what a thread does between two points where another thread    *)
(* can interfere: the body of a `with _queue_lock` block, or one access to *)
(* a variable the lock does not protect (_queue_running,                   *)
(* _active_pipelines, the rows when the lock has been released).           *)
(***************************************************************************)
EXTENDS Integers, Sequences, FiniteSets

CONSTANTS
    MaxItems,        \* bound on _queue_seq: items "q1" .. "q<MaxItems>"
    Prios,           \* the priorities a client uses
    AddPrios,        \* those it gives to queue.add
    Files, Dirs,     \* the inputs: regular files, and source directories
    Callers,         \* request threads serving remove, clear or cancel
    Starters,        \* request threads serving queue.start
    Dispatchers,     \* dispatcher threads alive at the same time
    Parallels,       \* values of the `parallel` parameter after clamping
    Installs,        \* values of the `install` parameter
    RemoveArgs,      \* values of queue.remove's `id` parameter
    ClearArgs,       \* values of queue.clear's `status`: "any" is no status
    CancelArgs,      \* values of queue.cancel's `item_id` parameter
    MaxCrashes,      \* bound on process deaths
    MaxVanish,       \* bound on inputs deleted behind the queue's back
    MaxWriteFaults,  \* bound on failing writes to the store
    MaxStageFaults,  \* bound on exceptions while a pipeline is being built
    None             \* no pipeline, no row

Ids      == 1..MaxItems
Paths    == Files \cup Dirs
Statuses == {"pending", "running", "done", "error"}
Item     == [path : Paths, status : Statuses, prio : Prios]
AllItems == 0                  \* queue.cancel without an item_id

ASSUME BoundsAssumption ==
    /\ MaxItems \in 1..99
    /\ Parallels \subseteq 1..4
    /\ Prios \subseteq Int /\ Prios # {}
    /\ AddPrios \subseteq Prios
    /\ Installs \subseteq BOOLEAN
    /\ RemoveArgs \subseteq Ids
    /\ ClearArgs \subseteq Statuses \cup {"any"}
    /\ CancelArgs \subseteq Ids \cup {AllItems}
    /\ {MaxCrashes, MaxVanish, MaxWriteFaults, MaxStageFaults} \subseteq Nat

ASSUME NamesAssumption ==
    /\ Starters \cap Callers = {}
    /\ Files \cap Dirs = {} /\ Paths # {}
    /\ None \notin Dispatchers
    /\ None \notin Item

VARIABLES
    item,      \* the dict object of every id handed out in this process
    queue,     \* the keys of _queue_items
    seq,       \* _queue_seq
    flag,      \* _queue_running
    active,    \* _active_pipelines: the dispatcher whose pipeline it holds
    rows,      \* the rows of the queue table
    caller,    \* what each request thread is in the middle of
    disp,      \* the dispatcher threads
    worker,    \* worker[d][i]: the pipeline thread dispatcher d started for i
    cancelled, \* the live pipelines cancel() was called on
    present,   \* the inputs that exist on disk
    budget,    \* what is left of the four Max... bounds
    exposed,   \* history: ids written under a deletion, or not written
    stranded   \* history: ids whose pipeline could not be built

memory == <<item, queue, seq>>
threads == <<flag, active, caller, disp, worker, cancelled>>
store  == <<rows, exposed>>
env    == <<present, budget, stranded>>
vars   == <<item, queue, seq, flag, active, rows, caller, disp, worker,
            cancelled, present, budget, exposed, stranded>>

Idle == [op |-> "idle"]
Off  == [pc |-> "off", snap |-> {}, batch |-> <<>>, pos |-> 1,
         par |-> 1, install |-> FALSE]

Threads == Callers \cup Starters

Call ==
         [op : {"idle"}]
    \cup [op : {"remove"}, id : Ids]
    \cup [op : {"clear"}, status : Statuses \cup {"any"}]
    \cup [op : {"check", "set"}, par : 1..4, install : BOOLEAN]
    \cup [op : {"cancel"}, id : Ids \cup {AllItems}, size : 0..MaxItems]

DispatcherState ==
    [pc : {"off", "scan", "sort", "mark", "launch", "join", "finish"},
     snap : SUBSET Ids, batch : Seq(Ids), pos : Nat, par : 1..4,
     install : BOOLEAN]

WorkerState == {"none", "run", "install", "done", "error"}
Live        == {"run", "install"}      \* run_staged has not returned
Bounds == {"crash", "vanish", "write", "stage"}

TypeOK ==
    /\ item \in [Ids -> Item]
    /\ queue \subseteq Ids
    /\ seq \in 0..MaxItems
    /\ flag \in BOOLEAN
    /\ active \in [Ids -> Dispatchers \cup {None}]
    /\ rows \in [Ids -> Item \cup {None}]
    /\ caller \in [Threads -> Call]
    /\ disp \in [Dispatchers -> DispatcherState]
    /\ worker \in [Dispatchers -> [Ids -> WorkerState]]
    /\ cancelled \subseteq Dispatchers \X Ids
    /\ present \subseteq Paths
    /\ budget \in [Bounds -> Nat]
    /\ exposed \subseteq Ids
    /\ stranded \subseteq Ids

-----------------------------------------------------------------------------
\* The order of _queue_dispatch's sort: highest priority first, then the id
\* compared as TEXT, so "q10" comes before "q2".

LeadDigit(i) == IF i < 10 THEN i ELSE i \div 10

TextBefore(i, j) ==
    \/ LeadDigit(i) < LeadDigit(j)
    \/ LeadDigit(i) = LeadDigit(j) /\ i < j

Before(i, j) ==
    \/ item[i].prio > item[j].prio
    \/ item[i].prio = item[j].prio /\ TextBefore(i, j)

\* The first n of the ids S, in that order.
Ranked(S, n) ==
    LET size == IF Cardinality(S) < n THEN Cardinality(S) ELSE n IN
    {s \in [1..size -> S] :
        /\ \A a, b \in 1..size : a < b => Before(s[a], s[b])
        /\ \A a \in 1..size : \A u \in S :
              (\A b \in 1..size : s[b] # u) => Before(s[a], u)}

-----------------------------------------------------------------------------
\* The store.  A write that fails is swallowed (_persist_item and friends).

Matches(arg, status) == arg = "any" \/ arg = status

\* A queue.clear has emptied the memory and not yet the table, and its DELETE
\* will hit a row with this status.
ClearInFlight(status) ==
    \E c \in Callers : caller[c].op = "clear" /\ Matches(caller[c].status, status)

\* Likewise a queue.remove of this id.
RemoveInFlight(i) == \E c \in Callers : caller[c].op = "remove" /\ caller[c].id = i

Spend(b) == budget[b] > 0 /\ budget' = [budget EXCEPT ![b] = @ - 1]

\* Write the row of id i as record r.
Upsert(i, r) ==
    \/ /\ rows' = [rows EXCEPT ![i] = r]
       /\ exposed' = IF ClearInFlight(r.status) \/ RemoveInFlight(i)
                     THEN exposed \cup {i} ELSE exposed \ {i}
       /\ UNCHANGED budget
    \/ /\ Spend("write")
       /\ exposed' = exposed \cup {i}
       /\ UNCHANGED rows

\* Delete the rows of the ids S.
Delete(S) ==
    \/ /\ rows' = [i \in Ids |-> IF i \in S THEN None ELSE rows[i]]
       /\ UNCHANGED <<exposed, budget>>
    \/ /\ Spend("write")
       /\ exposed' = exposed \cup S
       /\ UNCHANGED rows

\* Mutation of Restorable: finished work is restored too.
RestorableAny(i) == rows[i] # None /\ rows[i].path \in present \cap Files

\* load_restorable: what a restart brings back.
Restorable(i) ==
    /\ rows[i] # None
    /\ rows[i].status \in {"pending", "running"}
    /\ rows[i].path \in present \cap Files

-----------------------------------------------------------------------------
\* The request handlers.

Begin(c, call) == caller[c] = Idle /\ caller' = [caller EXCEPT ![c] = call]
End(c)         == caller' = [caller EXCEPT ![c] = Idle]

\* handle_queue_add, for one path of the list
Add(p, n) ==
    /\ p \in present
    /\ seq < MaxItems
    /\ LET i == seq + 1
           r == [path |-> p, status |-> "pending", prio |-> n] IN
       /\ seq' = i
       /\ item' = [item EXCEPT ![i] = r]
       /\ queue' = queue \cup {i}
       /\ Upsert(i, r)
    /\ UNCHANGED <<threads, present, stranded>>

\* Mutation of Priority: the row is not written.
PriorityUnsaved(i, n) ==
    /\ i \in queue
    /\ item' = [item EXCEPT ![i].prio = n]
    /\ UNCHANGED <<queue, seq, threads, store, env>>

\* handle_queue_priority
Priority(i, n) ==
    /\ i \in queue
    /\ item' = [item EXCEPT ![i].prio = n]
    /\ Upsert(i, item'[i])
    /\ UNCHANGED <<queue, seq, threads, present, stranded>>

\* handle_queue_remove: the memory under the lock, the row after it.  Any id is
\* taken, also one that names nothing yet.
RemoveBegin(c, i) ==
    /\ Begin(c, [op |-> "remove", id |-> i])
    /\ queue' = queue \ {i}
    /\ UNCHANGED <<item, seq, flag, active, disp, worker, cancelled, store, env>>

RemoveEnd(c) ==
    /\ caller[c].op = "remove"
    /\ Delete({caller[c].id})
    /\ End(c)
    /\ UNCHANGED <<memory, flag, active, disp, worker, cancelled, present, stranded>>

\* handle_queue_clear: likewise
ClearBegin(c, st) ==
    /\ Begin(c, [op |-> "clear", status |-> st])
    /\ queue' = {i \in queue : ~Matches(st, item[i].status)}
    /\ UNCHANGED <<item, seq, flag, active, disp, worker, cancelled, store, env>>

ClearEnd(c) ==
    /\ caller[c].op = "clear"
    /\ Delete({i \in Ids : rows[i] # None /\ Matches(caller[c].status, rows[i].status)})
    /\ End(c)
    /\ UNCHANGED <<memory, flag, active, disp, worker, cancelled, present, stranded>>

\* handle_queue_start: has_pending is read under the lock, _queue_running is
\* read and then set without it.
StartBegin(c, n, ins) ==
    /\ \E i \in queue : item[i].status = "pending"
    /\ Begin(c, [op |-> "check", par |-> IF ins THEN 1 ELSE n, install |-> ins])
    /\ UNCHANGED <<memory, flag, active, disp, worker, cancelled, store, env>>

\* Mutation of StartCheck: no "already running".
StartCheckNever(c) ==
    /\ caller[c].op = "check"
    /\ caller' = [caller EXCEPT ![c].op = "set"]
    /\ UNCHANGED <<memory, flag, active, disp, worker, cancelled, store, env>>

StartCheck(c) ==
    /\ caller[c].op = "check"
    /\ IF flag THEN End(c)      \* "already running"
               ELSE caller' = [caller EXCEPT ![c].op = "set"]
    /\ UNCHANGED <<memory, flag, active, disp, worker, cancelled, store, env>>

StartSet(c, d) ==
    /\ caller[c].op = "set"
    /\ disp[d] = Off
    /\ \A i \in Ids : worker[d][i] = "none"
    /\ flag' = TRUE
    /\ disp' = [disp EXCEPT ![d] = [Off EXCEPT !.pc = "scan",
                                               !.par = caller[c].par,
                                               !.install = caller[c].install]]
    /\ End(c)
    /\ UNCHANGED <<memory, active, worker, cancelled, store, env>>

\* handle_queue_cancel: the comprehension walks _active_pipelines, which the
\* pipeline threads change without the lock.  A change of its size on the way
\* raises RuntimeError and nothing is cancelled.
Registered == {i \in Ids : active[i] # None}

CancelBegin(c, t) ==
    /\ Begin(c, [op |-> "cancel", id |-> t, size |-> Cardinality(Registered)])
    /\ UNCHANGED <<memory, flag, active, disp, worker, cancelled, store, env>>

CancelTargets(c) ==
    IF Cardinality(Registered) # caller[c].size THEN {}
    ELSE {i \in Registered : caller[c].id \in {AllItems, i}}

CancelEnd(c) ==
    /\ caller[c].op = "cancel"
    /\ cancelled' = cancelled \cup {<<active[i], i>> : i \in CancelTargets(c)}
    /\ End(c)
    /\ UNCHANGED <<memory, flag, active, disp, worker, store, env>>

-----------------------------------------------------------------------------
\* The dispatcher thread, _queue_dispatch.

Goto(d, label) == disp' = [disp EXCEPT ![d].pc = label]

\* Mutation of Scan: items that failed are tried again.
ScanFailed(d) ==
    /\ disp[d].pc = "scan"
    /\ LET pending == {i \in queue : item[i].status \in {"pending", "error"}} IN
       disp' = [disp EXCEPT ![d].pc = IF pending = {} THEN "finish" ELSE "sort",
                            ![d].snap = pending]
    /\ UNCHANGED <<memory, flag, active, caller, worker, cancelled, store, env>>

\* the snapshot of the pending items, under the lock
Scan(d) ==
    /\ disp[d].pc = "scan"
    /\ LET pending == {i \in queue : item[i].status = "pending"} IN
       disp' = [disp EXCEPT ![d].pc = IF pending = {} THEN "finish" ELSE "sort",
                            ![d].snap = pending]
    /\ UNCHANGED <<memory, flag, active, caller, worker, cancelled, store, env>>

\* sort and slice, with the priorities the dicts hold by now
SortBatch(d) ==
    /\ disp[d].pc = "sort"
    /\ \E s \in Ranked(disp[d].snap, disp[d].par) :
          disp' = [disp EXCEPT ![d].pc = "mark", ![d].batch = s,
                               ![d].pos = 1, ![d].snap = {}]
    /\ UNCHANGED <<memory, flag, active, caller, worker, cancelled, store, env>>

\* Mutation of SetItem: the row is written whether or not the item is there.
SetItemBlindly(i, st) ==
    /\ item' = [item EXCEPT ![i].status = st]
    /\ Upsert(i, item'[i])

\* _set_item: a no-op when the item has been removed meanwhile
SetItem(i, st) ==
    IF i \in queue
    THEN /\ item' = [item EXCEPT ![i].status = st]
         /\ Upsert(i, item'[i])
    ELSE UNCHANGED <<item, store, budget>>

Current(d) == disp[d].batch[disp[d].pos]

\* Mutation of Mark: the item is not marked as running.
MarkNothing(d) ==
    /\ disp[d].pc = "mark"
    /\ Goto(d, "launch")
    /\ UNCHANGED <<memory, flag, active, caller, worker, cancelled, store, env>>

Mark(d) ==
    /\ disp[d].pc = "mark"
    /\ SetItem(Current(d), "running")
    /\ Goto(d, "launch")
    /\ UNCHANGED <<queue, seq, flag, active, caller, worker, cancelled, present, stranded>>

\* _make_pipeline, stage and Thread.start
Launch(d) ==
    /\ disp[d].pc = "launch"
    /\ active' = [active EXCEPT ![Current(d)] = d]
    /\ worker' = [worker EXCEPT ![d][Current(d)] = "run"]
    /\ disp' = [disp EXCEPT
                  ![d].pc = IF disp[d].pos < Len(disp[d].batch) THEN "mark" ELSE "join",
                  ![d].pos = @ + 1]
    /\ UNCHANGED <<memory, flag, caller, cancelled, store, env>>

\* An exception on the way, before or after the pipeline is registered (no
\* file for _make_pipeline, no thread for start): `finally` leaves the loop.
LaunchFails(d) ==
    /\ disp[d].pc = "launch"
    /\ Spend("stage")
    /\ stranded' = stranded \cup {Current(d)}
    /\ active' \in {active, [active EXCEPT ![Current(d)] = d]}
    /\ Goto(d, "finish")
    /\ UNCHANGED <<memory, flag, caller, worker, cancelled, store, present>>

\* Mutation of Join: one batch only.
JoinOnce(d) ==
    /\ disp[d].pc = "join"
    /\ \A i \in Ids : worker[d][i] = "none"
    /\ Goto(d, "finish")
    /\ UNCHANGED <<memory, flag, active, caller, worker, cancelled, store, env>>

Join(d) ==
    /\ disp[d].pc = "join"
    /\ \A i \in Ids : worker[d][i] = "none"
    /\ disp' = [disp EXCEPT ![d].pc = "scan", ![d].batch = <<>>, ![d].pos = 1]
    /\ UNCHANGED <<memory, flag, active, caller, worker, cancelled, store, env>>

\* finally: _queue_running = False, without the lock
Finish(d) ==
    /\ disp[d].pc = "finish"
    /\ flag' = FALSE
    /\ disp' = [disp EXCEPT ![d] = Off]
    /\ UNCHANGED <<memory, active, caller, worker, cancelled, store, env>>

-----------------------------------------------------------------------------
\* A pipeline thread: run_staged, then _track_finished, which pops the
\* registry without the lock before it records the status.

\* The pipeline goes on to pacman: the batch was asked to install, or the report
\* says PASS, which emits no compatibility_ready for the batch to dismiss
\* (pipeline.py, the gate of Pipeline.tla).
StartInstall(d, i) ==
    /\ worker[d][i] = "run"
    /\ worker' = [worker EXCEPT ![d][i] = "install"]
    /\ UNCHANGED <<memory, flag, active, caller, disp, cancelled, store, env>>

\* Mutation of Pop: the registry keeps the pipeline.
PopNothing(d, i, outcome) ==
    /\ worker[d][i] \in Live
    /\ worker' = [worker EXCEPT ![d][i] = outcome]
    /\ UNCHANGED <<memory, flag, active, caller, disp, cancelled, store, env>>

Pop(d, i, outcome) ==
    /\ worker[d][i] \in Live
    /\ worker' = [worker EXCEPT ![d][i] = outcome]
    /\ active' = [active EXCEPT ![i] = None]
    /\ UNCHANGED <<memory, flag, caller, disp, cancelled, store, env>>

\* Mutation of Settle: the outcome is not recorded.
SettleNothing(d, i) ==
    /\ worker[d][i] \in {"done", "error"}
    /\ worker' = [worker EXCEPT ![d][i] = "none"]
    /\ cancelled' = cancelled \ {<<d, i>>}
    /\ UNCHANGED <<memory, flag, active, caller, disp, store, env>>

Settle(d, i) ==
    /\ worker[d][i] \in {"done", "error"}
    /\ SetItem(i, worker[d][i])
    /\ worker' = [worker EXCEPT ![d][i] = "none"]
    /\ cancelled' = cancelled \ {<<d, i>>}
    /\ UNCHANGED <<queue, seq, flag, active, caller, disp, present, stranded>>

-----------------------------------------------------------------------------
\* The world: inputs vanish, the process dies and is started again.

Blank == [path |-> CHOOSE p \in Paths : TRUE, status |-> "pending",
          prio |-> CHOOSE n \in Prios : TRUE]

Vanish(p) ==
    /\ p \in present
    /\ budget["vanish"] > 0
    /\ budget' = [budget EXCEPT !["vanish"] = @ - 1]
    /\ present' = present \ {p}
    /\ UNCHANGED <<memory, threads, store, stranded>>

\* restore_queue, called by serve() before the first request is read.  The
\* rows stay as they are: a row of a restored item may still say "running".
\* Mutations of MaxOf: the number of rows; the next id instead of the last.
CountOf(S) == Cardinality(S)
NextOf(S)  == IF S = {} THEN 1 ELSE 1 + CHOOSE m \in S : \A n \in S : n <= m

MaxOf(S) == IF S = {} THEN 0 ELSE CHOOSE m \in S : \A n \in S : n <= m

Restart ==
    /\ budget["crash"] > 0
    /\ budget' = [budget EXCEPT !["crash"] = @ - 1]
    /\ queue' = {i \in Ids : Restorable(i)}
    /\ item' = [i \in Ids |-> IF Restorable(i) THEN [rows[i] EXCEPT !.status = "pending"]
                                              ELSE Blank]
    /\ seq' = MaxOf({i \in Ids : Restorable(i)})
    /\ flag' = FALSE
    /\ active' = [i \in Ids |-> None]
    /\ caller' = [c \in Threads |-> Idle]
    /\ disp' = [d \in Dispatchers |-> Off]
    /\ worker' = [d \in Dispatchers |-> [i \in Ids |-> "none"]]
    /\ cancelled' = {}
    /\ exposed' = {}
    /\ stranded' = {}
    /\ UNCHANGED <<rows, present>>

Init ==
    /\ item = [i \in Ids |-> Blank]
    /\ queue = {}
    /\ seq = 0
    /\ flag = FALSE
    /\ active = [i \in Ids |-> None]
    /\ rows = [i \in Ids |-> None]
    /\ caller = [c \in Threads |-> Idle]
    /\ disp = [d \in Dispatchers |-> Off]
    /\ worker = [d \in Dispatchers |-> [i \in Ids |-> "none"]]
    /\ cancelled = {}
    /\ present = Paths
    /\ budget = [b \in Bounds |-> CASE b = "crash" -> MaxCrashes
                                    [] b = "vanish" -> MaxVanish
                                    [] b = "write" -> MaxWriteFaults
                                    [] b = "stage" -> MaxStageFaults]
    /\ exposed = {}
    /\ stranded = {}

Request(c) ==
    \/ \E i \in RemoveArgs : RemoveBegin(c, i)
    \/ \E st \in ClearArgs : ClearBegin(c, st)
    \/ \E t \in CancelArgs : CancelBegin(c, t)

Answer(c) ==
    \/ RemoveEnd(c)
    \/ ClearEnd(c)
    \/ CancelEnd(c)

StartRequest(c) == \E n \in Parallels, ins \in Installs : StartBegin(c, n, ins)

StartAnswer(c) ==
    \/ StartCheck(c)
    \/ \E d \in Dispatchers : StartSet(c, d)

Dispatch(d) ==
    \/ Scan(d)
    \/ SortBatch(d)
    \/ Mark(d)
    \/ Launch(d)
    \/ LaunchFails(d)
    \/ Join(d)
    \/ Finish(d)

Work(d, i) ==
    \/ StartInstall(d, i)
    \/ \E r \in {"done", "error"} : Pop(d, i, r)
    \/ Settle(d, i)

Environment == Restart \/ \E p \in Paths : Vanish(p)

Next ==
    \/ \E p \in Paths, n \in AddPrios : Add(p, n)
    \/ \E i \in Ids, n \in Prios : Priority(i, n)
    \/ \E c \in Callers : Request(c) \/ Answer(c)
    \/ \E c \in Starters : StartRequest(c) \/ StartAnswer(c)
    \/ \E d \in Dispatchers : Dispatch(d)
    \/ \E d \in Dispatchers, i \in Ids : Work(d, i)
    \/ Environment

Spec == Init /\ [][Next]_vars

\* Threads that can run do run; a pipeline thread terminates.
Fairness ==
    /\ \A c \in Callers : WF_vars(Answer(c))
    /\ \A c \in Starters : WF_vars(StartAnswer(c))
    /\ \A d \in Dispatchers : WF_vars(Dispatch(d))
    /\ \A d \in Dispatchers, i \in Ids : WF_vars(Work(d, i))

FairSpec == Spec /\ Fairness

-----------------------------------------------------------------------------
\* Safety properties.

\* "pacman's database lock makes concurrent installs race; serialize"
\* (handlers_queue.py): whatever it is that lets them install, no two pipelines
\* of the queue are in pacman at the same time.  The code does not keep it.
OneInstallAtATime ==
    \A d, e \in Dispatchers, i, j \in Ids :
        worker[d][i] = "install" /\ worker[e][j] = "install" => d = e /\ i = j

\* Where it is kept, when one client starts batches one after the other: two
\* pipelines are in pacman together only as items of ONE batch that was not asked
\* to install and that had several PASS reports, or once a batch was cut short by
\* an exception and left its pipelines to the next one.
InstallsSerial ==
    \A d, e \in Dispatchers, i, j \in Ids :
        worker[d][i] = "install" /\ worker[e][j] = "install" =>
            \/ d = e /\ i = j
            \/ d = e /\ ~disp[d].install
            \/ stranded # {}

\* An item is converted by one pipeline at a time, whoever dispatched it.
OneWorkerPerItem ==
    \A d, e \in Dispatchers, i \in Ids :
        worker[d][i] # "none" /\ worker[e][i] # "none" => d = e

\* An item shown as running is on its way: a pipeline works on it or its
\* dispatcher is about to start one.  The items whose pipeline could not be
\* built are the exception: nothing ever picks them up again.
RunningIsOwned ==
    \A i \in queue :
        item[i].status = "running" =>
            \/ i \in stranded
            \/ \E d \in Dispatchers :
                  \/ worker[d][i] # "none"
                  \/ disp[d].pc = "launch" /\ Current(d) = i

\* What the table says of an item is what the memory says; a restored item
\* keeps the row of the life before, which may say "running".
Agrees(r, o) ==
    /\ r.path = o.path
    /\ r.prio = o.prio
    /\ r.status = o.status \/ (r.status = "running" /\ o.status = "pending")

\* Whenever the process dies, the table holds every item of the memory as it
\* is, except items written while a queue.clear that covers them, or a removal of
\* their id, had not reached the table.
MemoryIsSaved ==
    \A i \in queue \ exposed : rows[i] # None /\ Agrees(rows[i], item[i])

\* What a restart would bring back is in the queue, or its deletion is under
\* way: a worker that ends late never revives the row of a removed item.
NoZombieRows ==
    \A i \in Ids : Restorable(i) =>
        \/ i \in queue
        \/ i \in exposed
        \/ ClearInFlight(rows[i].status)
        \/ RemoveInFlight(i)

\* The next id never names the row of work that is still to be done.
NoIdCollision == \A i \in Ids : Restorable(i) => i <= seq

\* queue.cancel finds every pipeline that runs: the registry holds exactly
\* the pipelines that have not finished, and those that never started.
RegistryExact ==
    \A i \in Ids, d \in Dispatchers :
        \/ active[i] = d <=> worker[d][i] \in Live
        \/ active[i] = d /\ i \in stranded

\* "pending items survive a restart" (queue_store.py): the row of an item
\* that was added, and neither removed nor cleared, is there to be restored.
PendingSurvives ==
    \A i \in queue : item[i].status = "pending" /\ item[i].path \in present
        => Restorable(i)

\* The refinement: the client sees the status of the items in the queue.
ClientView == [i \in Ids |-> IF i \in queue THEN item[i].status ELSE "absent"]
Jobs == INSTANCE JobQueue WITH Jobs <- Ids, state <- ClientView
ImplementsJobQueue == Jobs!Spec

-----------------------------------------------------------------------------
\* Liveness properties.

\* A batch comes to its end, and with it the "already running" answer.
BatchEnds == \A d \in Dispatchers : disp[d].pc # "off" ~> disp[d].pc = "off"

\* An item that is pending while a dispatcher still has a scan before it is
\* dispatched by it, or taken out of the queue.
Waiting(i) == i \in queue /\ item[i].status = "pending"

PendingIsPicked ==
    \A i \in Ids, d \in Dispatchers :
        Waiting(i) /\ disp[d].pc \in {"scan", "sort", "mark", "launch", "join"} ~> ~Waiting(i)

\* An item that was dispatched gets its final status, or was taken out.
RunningSettles ==
    \A i \in Ids : i \in queue /\ item[i].status = "running"
        ~> (i \notin queue \/ item[i].status \in {"done", "error"})
=============================================================================
