------------------------------ MODULE JobQueue ------------------------------
(***************************************************************************)
(* What the batch queue promises to its client, whatever its threads do:   *)
(* a job waits, is worked on once, ends once, and stays where it ended     *)
(* until the client forgets it.  Only a restart takes work back, and it    *)
(* takes back unfinished work only.  BatchQueue implements this for a      *)
(* client that awaits the answer of one queue.start before the next.       *)
(***************************************************************************)
CONSTANT Jobs

VARIABLE state

States     == {"absent", "pending", "running", "done", "error"}
Unfinished == {"pending", "running"}

Init == state = [j \in Jobs |-> "absent"]

Move(j, from, to) == state[j] = from /\ state' = [state EXCEPT ![j] = to]

Submit(j)      == Move(j, "absent", "pending")
Take(j)        == Move(j, "pending", "running")
Complete(j, r) == Move(j, "running", r)

\* queue.remove and queue.clear may name a job in any state.
Forget(S) == state' = [j \in Jobs |-> IF j \in S THEN "absent" ELSE state[j]]

\* A restart keeps jobs that were not finished and starts them over.  Jobs
\* forgotten in memory may come back if their rows were not deleted yet.
Restart(S) ==
    /\ \A j \in S : state[j] \in Unfinished \cup {"absent"}
    /\ state' = [j \in Jobs |-> IF j \in S THEN "pending" ELSE "absent"]

Next ==
    \/ \E j \in Jobs : Submit(j) \/ Take(j)
    \/ \E j \in Jobs, r \in {"done", "error"} : Complete(j, r)
    \/ \E S \in SUBSET Jobs : Forget(S) \/ Restart(S)

Spec == Init /\ [][Next]_state
=============================================================================
