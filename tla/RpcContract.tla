---------------------------- MODULE RpcContract ----------------------------
(***************************************************************************)
(* What call() promises its callers: a request is worked on at most once,  *)
(* a caller is told once, and it is answered only if its request was       *)
(* worked on.  A caller that was told nothing came back may have been      *)
(* obeyed all the same, then or later.  A page that starts over forgets    *)
(* its callers, and the last promise with them.                            *)
(***************************************************************************)
CONSTANT Calls

VARIABLES st, executed, reloaded

Init == st = [c \in Calls |-> "idle"] /\ executed = {} /\ reloaded = FALSE

Submit(c) ==
    /\ st[c] = "idle"
    /\ st' = [st EXCEPT ![c] = "waiting"]
    /\ UNCHANGED <<executed, reloaded>>
Execute(c) ==
    /\ st[c] # "idle" /\ c \notin executed
    /\ executed' = executed \cup {c}
    /\ UNCHANGED <<st, reloaded>>
Tell(c, s) ==
    /\ st[c] = "waiting"
    /\ s = "unreachable" \/ c \in executed \/ reloaded
    /\ st' = [st EXCEPT ![c] = s]
    /\ UNCHANGED <<executed, reloaded>>
Restart ==
    /\ st' = [c \in Calls |-> IF st[c] = "waiting" THEN "abandoned" ELSE st[c]]
    /\ reloaded' = TRUE
    /\ UNCHANGED executed

Next == \/ \E c \in Calls : \/ Submit(c) \/ Execute(c)
                            \/ \E s \in {"answered", "refused", "unreachable"} : Tell(c, s)
        \/ Restart

Spec == Init /\ [][Next]_<<st, executed, reloaded>>
=============================================================================
