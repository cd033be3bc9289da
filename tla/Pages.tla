------------------------------- MODULE Pages -------------------------------
(***************************************************************************)
(* All pages of the desktop: those of Panels and, over more variables, the *)
(* pages that have a module of proofs of their own, and their RPC client.  *)
(***************************************************************************)
EXTENDS Panels

CONSTANTS
    Droppable, Refusable,   \* convert page: files, and those that are refused
    Batch,                  \* beside a batch: its items
    Intervals, MaxTime,     \* updates page
    Calls, LongCalls        \* client

VARIABLES
    queue, report, output, asking, seen, drops, ticks, main, posted, current, conv, outcome,
    schedule, delta, confirmDisable, checking, cross, listeners, stale, now, tick, nextId,
    st, id, got, inflight, failures, down, reloaded, registered, relay, value, sidecar, alive

-----------------------------------------------------------------------------
Convert   == INSTANCE ConvertPage WITH
    Paths <- Droppable, Late <- IF Rough THEN Droppable ELSE {}, Batch <- {},
    MaxDrops <- Jobs["convert"], MaxRequests <- IF Rough THEN 0 ELSE 1, RenderFirst <- TRUE
\* The same beside a batch, and nothing refused
Shared    == INSTANCE ConvertPage WITH
    Paths <- Droppable, Late <- Droppable, Refusable <- {},
    MaxDrops <- Jobs["shared"], MaxRequests <- 1,
    RenderFirst <- TRUE
Updates   == INSTANCE UpdatesPage WITH
    Serial <- ~Rough, Others <- Rough,
    MaxJobs <- Jobs["updates"], MaxVisits <- Visits["updates"]
\* The client all of them call through, and the relay
Client    == INSTANCE Rpc WITH NoCall <- None

\* What the constants have to satisfy
PagesAssumption ==
    /\ PanelsAssumption
    /\ Convert!ConvertPageAssumption /\ Shared!ConvertPageAssumption
    /\ Updates!UpdatesAssumption
=============================================================================
