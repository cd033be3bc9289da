-------------------------------- MODULE Rpc --------------------------------
(***************************************************************************)
(* The RPC client of the desktop application (lib/rpc.ts), the relay in    *)
(* its Rust shell (sidecar.rs), and the sidecar, which works on every      *)
(* request in a thread of its own.  A call is a model value: one           *)
(* invocation of call(), whatever its method.  Of time only the order of   *)
(* the limits is kept: 60 s in the client, 120 s in the relay, and 150 s   *)
(* in the client for the calls of LongCalls (install.rehearse).            *)
(***************************************************************************)
EXTENDS Naturals, FiniteSets

CONSTANTS Calls,       \* the invocations of call()
          LongCalls,   \* those with a time limit above the relay's
          NoCall       \* no invocation

ASSUME CallsAssumption == /\ IsFiniteSet(Calls)
                          /\ LongCalls \subseteq Calls
                          /\ NoCall \notin Calls

VARIABLES
    nextId,      \* the webview's counter of request ids
    st,          \* the promise of each call, as its caller sees it
    id,          \* the id the call took
    got,         \* the call whose response settled the promise
    inflight,    \* rpc.ts: calls in flight
    failures,    \* rpc.ts: consecutive failures to reach the sidecar
    active,      \* the activity line of the top bar
    down,        \* SidecarGuard told the user that the sidecar is gone
    reloaded,    \* the page has started over since the application did
    registered,  \* the call's sender is in the relay's table, under its id
    relay,       \* the relay's future: the receiving end of that sender
    value,       \* the call whose response is in the receiver
    sidecar,     \* the request, on the sidecar's side
    alive        \* the sidecar process runs

client == <<nextId, st, id, got, inflight, failures, active, down, reloaded>>
vars   == <<client, registered, relay, value, sidecar, alive>>

Settled  == {"answered", "refused", "unreachable"}
Finished == {"filled", "dropped", "failed"}

TypeOK ==
    /\ nextId \in Nat \ {0}
    /\ st \in [Calls -> {"idle", "waiting", "abandoned"} \cup Settled]
    /\ id \in [Calls -> Nat]
    /\ got \in [Calls -> Calls \cup {NoCall}]
    /\ inflight \in Nat /\ failures \in Nat
    /\ active \in BOOLEAN /\ down \in BOOLEAN /\ reloaded \in BOOLEAN /\ alive \in BOOLEAN
    /\ registered \in [Calls -> BOOLEAN]
    /\ relay \in [Calls -> {"none", "open", "returned"} \cup Finished]
    /\ value \in [Calls -> Calls \cup {NoCall}]
    /\ sidecar \in [Calls -> {"none", "working", "answered", "routed", "lost"}]

Init ==
    /\ nextId = 1 /\ inflight = 0 /\ failures = 0
    /\ active = FALSE /\ down = FALSE /\ reloaded = FALSE
    /\ st = [c \in Calls |-> "idle"]
    /\ id = [c \in Calls |-> 0]
    /\ got = [c \in Calls |-> NoCall]
    /\ registered = [c \in Calls |-> FALSE]
    /\ relay = [c \in Calls |-> "none"]
    /\ value = [c \in Calls |-> NoCall]
    /\ sidecar = [c \in Calls |-> "none"]
    /\ alive = TRUE

-----------------------------------------------------------------------------
(* The webview *)

\* Mutation of Call: the counter is not advanced.
CallSameId(c) ==
    /\ st[c] = "idle"
    /\ st' = [st EXCEPT ![c] = "waiting"]
    /\ id' = [id EXCEPT ![c] = nextId]
    /\ inflight' = inflight + 1
    /\ active' = TRUE
    /\ UNCHANGED <<nextId, got, failures, down, reloaded, registered, relay, value, sidecar, alive>>

\* call(): an id, one more call in flight, the invocation handed to the shell.
Call(c) ==
    /\ st[c] = "idle"
    /\ st' = [st EXCEPT ![c] = "waiting"]
    /\ id' = [id EXCEPT ![c] = nextId]
    /\ nextId' = nextId + 1
    /\ inflight' = inflight + 1
    /\ active' = TRUE
    /\ UNCHANGED <<got, failures, down, reloaded, registered, relay, value, sidecar, alive>>

\* Mutations of Leave: run by the error path as well; the line is not redrawn.
LeaveTwice == inflight' = inflight - 2 /\ active' = (inflight' > 0)
LeaveQuietly == inflight' = inflight - 1 /\ active' = active

\* The finally block of call().
Leave == inflight' = inflight - 1 /\ active' = (inflight' > 0)

\* A response came: the sidecar is within reach, whatever the response says.
Respond(c, d) ==
    /\ \E s \in {"answered", "refused"} : st' = [st EXCEPT ![c] = s]
    /\ got' = [got EXCEPT ![c] = d]
    /\ failures' = 0
    /\ down' = IF failures > 0 THEN FALSE ELSE down
    /\ Leave
    /\ UNCHANGED <<nextId, id, reloaded>>

\* Mutation of Fail: announced one failure late.
FailLate(c) ==
    /\ st' = [st EXCEPT ![c] = "unreachable"]
    /\ failures' = failures + 1
    /\ down' = IF failures' = 3 THEN TRUE ELSE down
    /\ Leave
    /\ UNCHANGED <<nextId, id, got, reloaded>>

\* No response: the second failure in a row is announced, and only that one.
Fail(c) ==
    /\ st' = [st EXCEPT ![c] = "unreachable"]
    /\ failures' = failures + 1
    /\ down' = IF failures' = 2 THEN TRUE ELSE down
    /\ Leave
    /\ UNCHANGED <<nextId, id, got, reloaded>>

\* Mutation of ClientTimeout: the timer is not set once the process is gone.
ClientTimeoutAlive(c) ==
    /\ alive /\ st[c] = "waiting" /\ c \notin LongCalls
    /\ Fail(c)
    /\ UNCHANGED <<registered, relay, value, sidecar, alive>>

\* withTimeout: the timer of the client fires.
ClientTimeout(c) ==
    /\ st[c] = "waiting" /\ c \notin LongCalls
    /\ Fail(c)
    /\ UNCHANGED <<registered, relay, value, sidecar, alive>>

-----------------------------------------------------------------------------
(* The relay *)

\* HashMap::remove(i), or the overwriting half of insert(i, _): the sender
\* under i is dropped, and a future that still waits for it learns so.
Unregister(i) == [d \in Calls |-> registered[d] /\ id[d] # i]
Dropping(i)   == [d \in Calls |-> IF registered[d] /\ id[d] = i /\ relay[d] = "open"
                                  THEN "dropped" ELSE relay[d]]

\* request(): the sender is registered, then the line is written.  A write to
\* a dead process fails and the sender is removed again.
Request(c) ==
    /\ st[c] # "idle" /\ relay[c] = "none"
    /\ registered' = [Unregister(id[c]) EXCEPT ![c] = alive]
    /\ relay' = [Dropping(id[c]) EXCEPT ![c] = IF alive THEN "open" ELSE "failed"]
    /\ sidecar' = [sidecar EXCEPT ![c] = IF alive THEN "working" ELSE @]
    /\ UNCHANGED <<client, value, alive>>

\* route_line(): the response is handed to the sender registered under its id.
Route(c) ==
    /\ sidecar[c] = "answered"
    /\ sidecar' = [sidecar EXCEPT ![c] = "routed"]
    /\ LET To == {d \in Calls : registered[d] /\ id[d] = id[c]} IN
         /\ relay' = [d \in Calls |-> IF d \in To /\ relay[d] = "open"
                                      THEN "filled" ELSE relay[d]]
         /\ value' = [d \in Calls |-> IF d \in To /\ relay[d] = "open"
                                      THEN c ELSE value[d]]
    /\ registered' = Unregister(id[c])
    /\ UNCHANGED <<client, alive>>

\* Mutation of RelayTimeout: the sender stays in the table.
RelayTimeoutKeeps(c) ==
    /\ relay[c] = "open"
    /\ c \in LongCalls \/ st[c] # "waiting"
    /\ relay' = [relay EXCEPT ![c] = "failed"]
    /\ UNCHANGED <<client, registered, value, sidecar, alive>>

\* The relay's own limit.
RelayTimeout(c) ==
    /\ relay[c] = "open"
    /\ c \in LongCalls \/ st[c] # "waiting"
    /\ registered' = Unregister(id[c])
    /\ relay' = [Dropping(id[c]) EXCEPT ![c] = "failed"]
    /\ UNCHANGED <<client, value, sidecar, alive>>

\* Mutation of Return: a dropped sender passes for an answer.
ReturnAnyway(c) ==
    /\ relay[c] \in Finished
    /\ relay' = [relay EXCEPT ![c] = "returned"]
    /\ IF st[c] # "waiting" THEN UNCHANGED client
       ELSE IF relay[c] # "failed" THEN Respond(c, value[c])
       ELSE Fail(c)
    /\ UNCHANGED <<registered, value, sidecar, alive>>

\* request() returns: to a promise that still waits, or to nobody.  A future
\* whose sender was dropped removes what is registered under its id.
Return(c) ==
    /\ relay[c] \in Finished
    /\ IF relay[c] = "dropped"
       THEN /\ registered' = Unregister(id[c])
            /\ relay' = [Dropping(id[c]) EXCEPT ![c] = "returned"]
       ELSE /\ relay' = [relay EXCEPT ![c] = "returned"]
            /\ UNCHANGED registered
    /\ IF st[c] # "waiting" THEN UNCHANGED client
       ELSE IF relay[c] = "filled" THEN Respond(c, value[c])
       ELSE Fail(c)
    /\ UNCHANGED <<value, sidecar, alive>>

-----------------------------------------------------------------------------
(* The sidecar process *)

\* The request's thread sends its response.
Answer(c) ==
    /\ alive /\ sidecar[c] = "working"
    /\ sidecar' = [sidecar EXCEPT ![c] = "answered"]
    /\ UNCHANGED <<client, registered, relay, value, alive>>

\* The process dies; nobody starts it again.  What it had written is still read.
Die ==
    /\ alive /\ alive' = FALSE
    /\ sidecar' = [c \in Calls |-> IF sidecar[c] = "working" THEN "lost" ELSE sidecar[c]]
    /\ UNCHANGED <<client, registered, relay, value>>

\* The reader meets the end of the output: every pending call fails.
ReaderEnds ==
    /\ ~alive /\ \A c \in Calls : sidecar[c] # "answered"
    /\ \E c \in Calls : registered[c]
    /\ registered' = [c \in Calls |-> FALSE]
    /\ relay' = [c \in Calls |-> IF registered[c] /\ relay[c] = "open"
                                 THEN "dropped" ELSE relay[c]]
    /\ UNCHANGED <<client, value, sidecar, alive>>

\* ErrorBoundary's button: the page starts over, the shell does not.
Reload ==
    /\ nextId' = 1 /\ inflight' = 0 /\ failures' = 0
    /\ active' = FALSE /\ down' = FALSE /\ reloaded' = TRUE
    /\ st' = [c \in Calls |-> IF st[c] = "waiting" THEN "abandoned" ELSE st[c]]
    /\ UNCHANGED <<id, got, registered, relay, value, sidecar, alive>>

-----------------------------------------------------------------------------
Next ==
    \/ \E c \in Calls : \/ Call(c) \/ ClientTimeout(c) \/ Request(c) \/ Answer(c)
                        \/ Route(c) \/ RelayTimeout(c) \/ Return(c)
    \/ Die
    \/ ReaderEnds
    \/ Reload

Spec == Init /\ [][Next]_vars

\* Timers fire, and the shell goes on with what it has begun.  The sidecar
\* promises nothing.
FairSpec == Spec /\ \A c \in Calls : WF_vars(ClientTimeout(c)) /\ WF_vars(Request(c))
                                     /\ WF_vars(RelayTimeout(c)) /\ WF_vars(Return(c))
-----------------------------------------------------------------------------
(* Properties *)

\* A caller gets the response to its own request, however responses, time-outs
\* and the end of the process interleave in call() and route_line(), as long as
\* the page has not started over: it then gives the same ids again.
OwnAnswer == ~reloaded => \A c \in Calls : st[c] \in {"answered", "refused"} => got[c] = c

\* The activity line shows exactly whether a call of this page waits: the
\* counter inflight of call() neither leaks nor goes below the truth.
ActivityTruthful ==
    /\ inflight = Cardinality({c \in Calls : st[c] = "waiting"})
    /\ active = (inflight > 0)

\* SidecarGuard's word stands exactly while two failures in a row are not
\* followed by a response, although rpc.ts announces the second failure only.
GuardTruthful == down = (failures >= 2)

\* The relay keeps a sender for a future that waits for it, and no future
\* waits without one: else it would be told of neither response nor exit.
WaitsAreRegistered == \A c \in Calls : (relay[c] = "open") = registered[c]

\* Every call comes to a time when nobody waits for it, neither its page nor the
\* relay's table, even if the sidecar never answers and if the page is gone.
CallsEnd ==
    \A c \in Calls : LET held == st[c] = "waiting" \/ registered[c] IN held ~> ~held

\* call() keeps what RpcContract promises its callers.
Contract == INSTANCE RpcContract WITH
    executed <- {c \in Calls : sidecar[c] \in {"answered", "routed"}}
ImplementsContract == Contract!Spec
=============================================================================
