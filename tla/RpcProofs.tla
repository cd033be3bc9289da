----------------------------- MODULE RpcProofs -----------------------------
(***************************************************************************)
(* Theorems about Rpc, for any finite set of calls.                        *)
(***************************************************************************)
EXTENDS Rpc, FiniteSetTheorems, TLAPS

USE CallsAssumption

\* The calls whose promise waits, which the activity line counts.
Waiting == {c \in Calls : st[c] = "waiting"}

-----------------------------------------------------------------------------
(* What Leave does to the count of the waiting calls. *)

LEMMA WaitingIsFinite == IsFiniteSet(Waiting) /\ Cardinality(Waiting) \in Nat
<1>1. Waiting \subseteq Calls
  BY DEF Waiting
<1> QED BY <1>1, FS_Subset, FS_CardinalityType

\* One more call waits after Call, one less after Leave.
LEMMA OneMoreWaits ==
    ASSUME TypeOK, NEW c \in Calls, st[c] = "idle", st' = [st EXCEPT ![c] = "waiting"]
    PROVE  Cardinality(Waiting') = Cardinality(Waiting) + 1
<1>1. Waiting' = Waiting \cup {c} /\ c \notin Waiting
  BY DEF Waiting, TypeOK
<1> QED BY <1>1, WaitingIsFinite, FS_AddElement

LEMMA OneLessWaits ==
    ASSUME TypeOK, NEW c \in Calls, NEW s, st[c] = "waiting", s # "waiting",
           st' = [st EXCEPT ![c] = s]
    PROVE  /\ Cardinality(Waiting') = Cardinality(Waiting) - 1
           /\ Cardinality(Waiting) > 0
<1>1. Waiting' = Waiting \ {c} /\ c \in Waiting
  BY DEF Waiting, TypeOK
<1>2. Cardinality(Waiting') = Cardinality(Waiting) - 1
  BY <1>1, WaitingIsFinite, FS_RemoveElement
<1>3. IsFiniteSet(Waiting') /\ Cardinality(Waiting') \in Nat
  BY <1>1, WaitingIsFinite, FS_RemoveElement, FS_CardinalityType
<1> QED BY <1>2, <1>3, WaitingIsFinite

-----------------------------------------------------------------------------
(* The type invariant needs the counter's truth: inflight could otherwise *)
(* go below zero in Leave.                                                 *)

TypeInv == TypeOK /\ ActivityTruthful

LEMMA RespondType ==
    ASSUME TypeInv, NEW c \in Calls, NEW d \in Calls \cup {NoCall},
           st[c] = "waiting", Respond(c, d)
    PROVE  /\ nextId' = nextId /\ id' = id /\ reloaded' = reloaded
           /\ st' \in [Calls -> {"idle", "waiting", "abandoned"} \cup Settled]
           /\ got' \in [Calls -> Calls \cup {NoCall}]
           /\ inflight' \in Nat /\ failures' \in Nat
           /\ active' \in BOOLEAN /\ down' \in BOOLEAN
           /\ ActivityTruthful'
<1>1. PICK s \in {"answered", "refused"} : st' = [st EXCEPT ![c] = s]
  BY DEF Respond
<1>2. /\ Cardinality(Waiting') = Cardinality(Waiting) - 1
      /\ Cardinality(Waiting) > 0
  BY <1>1, OneLessWaits DEF TypeInv
<1>3. inflight' = Cardinality(Waiting') /\ inflight' \in Nat
  BY <1>2, WaitingIsFinite DEF TypeInv, ActivityTruthful, Respond, Leave, Waiting
<1>4. active' = (inflight' > 0) /\ active' \in BOOLEAN
  BY DEF Respond, Leave
<1>5. failures' \in Nat /\ down' \in BOOLEAN
  BY DEF Respond, TypeInv, TypeOK
<1>6. ActivityTruthful'
  BY <1>3, <1>4 DEF ActivityTruthful, Waiting
<1> QED BY <1>1, <1>3, <1>4, <1>5, <1>6 DEF TypeInv, TypeOK, Respond, Settled

LEMMA FailType ==
    ASSUME TypeInv, NEW c \in Calls, st[c] = "waiting", Fail(c)
    PROVE  /\ nextId' = nextId /\ id' = id /\ reloaded' = reloaded /\ got' = got
           /\ st' \in [Calls -> {"idle", "waiting", "abandoned"} \cup Settled]
           /\ inflight' \in Nat /\ failures' \in Nat
           /\ active' \in BOOLEAN /\ down' \in BOOLEAN
           /\ ActivityTruthful'
<1>1. st' = [st EXCEPT ![c] = "unreachable"]
  BY DEF Fail
<1>2. /\ Cardinality(Waiting') = Cardinality(Waiting) - 1
      /\ Cardinality(Waiting) > 0
  BY <1>1, OneLessWaits DEF TypeInv
<1>3. inflight' = Cardinality(Waiting') /\ inflight' \in Nat
  BY <1>2, WaitingIsFinite DEF TypeInv, ActivityTruthful, Fail, Leave, Waiting
<1>4. active' = (inflight' > 0) /\ active' \in BOOLEAN
  BY DEF Fail, Leave
<1>5. failures' \in Nat /\ down' \in BOOLEAN
  <2>1. failures \in Nat /\ down \in BOOLEAN
    BY DEF TypeInv, TypeOK
  <2>2. failures' \in Nat
    BY <2>1 DEF Fail
  <2>3. down' = TRUE \/ down' = down
    BY DEF Fail
  <2> QED BY <2>1, <2>2, <2>3
<1>6. ActivityTruthful'
  BY <1>3, <1>4 DEF ActivityTruthful, Waiting
<1> QED BY <1>1, <1>3, <1>4, <1>5, <1>6 DEF TypeInv, TypeOK, Fail, Settled

\* The client's part of a step of Return.
LEMMA ReturnClient ==
    ASSUME TypeInv, NEW c \in Calls, Return(c)
    PROVE  /\ nextId' = nextId /\ id' = id /\ reloaded' = reloaded
           /\ st' \in [Calls -> {"idle", "waiting", "abandoned"} \cup Settled]
           /\ got' \in [Calls -> Calls \cup {NoCall}]
           /\ inflight' \in Nat /\ failures' \in Nat
           /\ active' \in BOOLEAN /\ down' \in BOOLEAN
           /\ ActivityTruthful'
<1>1. CASE st[c] # "waiting"
  BY <1>1 DEF Return, client, TypeInv, TypeOK, ActivityTruthful
<1>2. CASE st[c] = "waiting" /\ relay[c] = "filled"
  <2>1. value[c] \in Calls \cup {NoCall} /\ Respond(c, value[c])
    BY <1>2 DEF Return, TypeInv, TypeOK
  <2> QED BY <1>2, <2>1, RespondType
<1>3. CASE st[c] = "waiting" /\ relay[c] # "filled"
  <2>1. Fail(c)
    BY <1>3 DEF Return
  <2> QED BY <1>3, <2>1, FailType DEF TypeInv, TypeOK
<1> QED BY <1>1, <1>2, <1>3

LEMMA InitType == Init => TypeInv
<1> SUFFICES ASSUME Init PROVE TypeInv
  OBVIOUS
<1>1. TypeOK
  <2>1. /\ nextId \in Nat \ {0} /\ inflight \in Nat /\ failures \in Nat
        /\ id \in [Calls -> Nat] /\ registered \in [Calls -> BOOLEAN]
    BY DEF Init
  <2>2. /\ st \in [Calls -> {"idle", "waiting", "abandoned"} \cup Settled]
        /\ relay \in [Calls -> {"none", "open", "returned"} \cup Finished]
        /\ sidecar \in [Calls -> {"none", "working", "answered", "routed", "lost"}]
    BY DEF Init
  <2>3. /\ got \in [Calls -> Calls \cup {NoCall}]
        /\ value \in [Calls -> Calls \cup {NoCall}]
    BY DEF Init
  <2>4. /\ active \in BOOLEAN /\ down \in BOOLEAN
        /\ reloaded \in BOOLEAN /\ alive \in BOOLEAN
    BY DEF Init
  <2> QED BY <2>1, <2>2, <2>3, <2>4 DEF TypeOK
<1>2. Waiting = {}
  BY DEF Init, Waiting
<1>3. ActivityTruthful
  <2>1. Cardinality(Waiting) = 0
    BY <1>2, FS_EmptySet
  <2>2. inflight = 0 /\ active = FALSE
    BY DEF Init
  <2>3. (inflight > 0) = FALSE
    BY <2>2
  <2> QED BY <2>1, <2>2, <2>3 DEF ActivityTruthful, Waiting
<1> QED BY <1>1, <1>3 DEF TypeInv

\* A step that leaves the client alone leaves the line alone.
LEMMA ClientUnchanged ==
    ASSUME TypeInv, UNCHANGED client
    PROVE  ActivityTruthful'
BY DEF TypeInv, ActivityTruthful, client

LEMMA NextType == TypeInv /\ [Next]_vars => TypeInv'
<1> SUFFICES ASSUME TypeInv, [Next]_vars PROVE TypeInv'
  OBVIOUS
<1> USE DEF TypeInv
<1>1. ASSUME NEW c \in Calls, Call(c) PROVE TypeInv'
  <2>1. Cardinality(Waiting') = Cardinality(Waiting) + 1
    BY <1>1, OneMoreWaits DEF Call
  <2>2. inflight' = Cardinality(Waiting') /\ inflight' > 0
    BY <1>1, <2>1, WaitingIsFinite DEF Call, ActivityTruthful, Waiting
  <2>3. active' = TRUE
    BY <1>1 DEF Call
  <2>4. ActivityTruthful'
    <3>1. (inflight' > 0) = TRUE
      BY <2>2
    <3> QED BY <2>2, <2>3, <3>1 DEF ActivityTruthful, Waiting
  <2>5. TypeOK'
    <3>1. nextId' \in Nat \ {0} /\ inflight' \in Nat
      BY <1>1 DEF Call, TypeOK
    <3>2. st' \in [Calls -> {"idle", "waiting", "abandoned"} \cup Settled]
      BY <1>1 DEF Call, TypeOK
    <3>3. id' \in [Calls -> Nat]
      BY <1>1 DEF Call, TypeOK
    <3> QED BY <1>1, <2>3, <3>1, <3>2, <3>3 DEF Call, TypeOK
  <2> QED BY <2>4, <2>5
<1>2. ASSUME NEW c \in Calls, ClientTimeout(c) PROVE TypeInv'
  BY <1>2, FailType DEF ClientTimeout, TypeOK
<1>3. ASSUME NEW c \in Calls, Request(c) PROVE TypeInv'
  BY <1>3, ClientUnchanged DEF Request, Unregister, Dropping, client, TypeOK, Finished
<1>4. ASSUME NEW c \in Calls, Answer(c) PROVE TypeInv'
  BY <1>4, ClientUnchanged DEF Answer, client, TypeOK
<1>5. ASSUME NEW c \in Calls, Route(c) PROVE TypeInv'
  BY <1>5, ClientUnchanged DEF Route, Unregister, client, TypeOK, Finished
<1>6. ASSUME NEW c \in Calls, RelayTimeout(c) PROVE TypeInv'
  BY <1>6, ClientUnchanged DEF RelayTimeout, Unregister, Dropping, client, TypeOK, Finished
<1>7. ASSUME NEW c \in Calls, Return(c) PROVE TypeInv'
  <2>1. registered' \in [Calls -> BOOLEAN] /\ UNCHANGED <<value, sidecar, alive>>
    BY <1>7 DEF Return, Unregister, TypeOK
  <2>2. relay' \in [Calls -> {"none", "open", "returned"} \cup Finished]
    <3>1. relay \in [Calls -> {"none", "open", "returned"} \cup Finished]
      BY DEF TypeOK
    <3>2. Dropping(id[c]) \in [Calls -> {"none", "open", "returned"} \cup Finished]
      BY <3>1 DEF Dropping, Finished
    <3> QED BY <1>7, <3>1, <3>2 DEF Return
  <2>3. nextId' \in Nat \ {0} /\ id' \in [Calls -> Nat] /\ reloaded' \in BOOLEAN
    BY <1>7, ReturnClient DEF TypeOK
  <2> QED BY <1>7, <2>1, <2>2, <2>3, ReturnClient DEF TypeOK
<1>8. ASSUME Die PROVE TypeInv'
  BY <1>8, ClientUnchanged DEF Die, client, TypeOK
<1>9. ASSUME ReaderEnds PROVE TypeInv'
  BY <1>9, ClientUnchanged DEF ReaderEnds, client, TypeOK, Finished
<1>10. ASSUME Reload PROVE TypeInv'
  <2>1. Waiting' = {}
    BY <1>10 DEF Reload, Waiting, TypeOK
  <2>2. Cardinality(Waiting') = 0
    BY <2>1, FS_EmptySet
  <2>3. inflight' = 0 /\ active' = FALSE
    BY <1>10 DEF Reload
  <2>4. ActivityTruthful'
    <3>1. (inflight' > 0) = FALSE
      BY <2>3
    <3> QED BY <2>2, <2>3, <3>1 DEF ActivityTruthful, Waiting
  <2>5. st' \in [Calls -> {"idle", "waiting", "abandoned"} \cup Settled]
    BY <1>10 DEF Reload, TypeOK
  <2>6. nextId' \in Nat \ {0} /\ inflight' \in Nat /\ failures' \in Nat
    BY <1>10 DEF Reload
  <2>7. down' \in BOOLEAN /\ reloaded' \in BOOLEAN /\ active' \in BOOLEAN
    BY <1>10 DEF Reload
  <2>8. TypeOK'
    BY <1>10, <2>5, <2>6, <2>7 DEF Reload, TypeOK
  <2> QED BY <2>4, <2>8
<1>11. ASSUME UNCHANGED vars PROVE TypeInv'
  BY <1>11, ClientUnchanged DEF vars, client, TypeOK
<1> QED
  BY <1>1, <1>2, <1>3, <1>4, <1>5, <1>6, <1>7, <1>8, <1>9, <1>10, <1>11 DEF Next

\* Every variable of the client, the relay and the sidecar keeps its type: the
\* counter of call() never goes below zero, whoever answers whom.
THEOREM TypeCorrect == Spec => []TypeOK
<1>1. TypeInv => TypeOK
  BY DEF TypeInv
<1> QED BY <1>1, InitType, NextType, PTL DEF Spec

\* The line of the top bar tells whether a call of this page waits (call() and
\* its finally block, in every interleaving of answers, time-outs and reloads).
THEOREM ActivityIsTruthful == Spec => []ActivityTruthful
<1>1. TypeInv => ActivityTruthful
  BY DEF TypeInv
<1> QED BY <1>1, InitType, NextType, PTL DEF Spec

-----------------------------------------------------------------------------
(* SidecarGuard's announcement. *)

LEMMA RespondGuard ==
    ASSUME TypeOK, GuardTruthful, NEW c \in Calls, NEW d, Respond(c, d)
    PROVE  GuardTruthful'
<1>1. failures' = 0 /\ down' = IF failures > 0 THEN FALSE ELSE down
  BY DEF Respond
<1>2. failures \in Nat /\ down \in BOOLEAN
  BY DEF TypeOK
<1>3. down' = FALSE
  <2>1. CASE failures > 0
    BY <1>1, <2>1
  <2>2. CASE ~(failures > 0)
    <3>1. (failures >= 2) = FALSE
      BY <1>2, <2>2
    <3> QED BY <1>1, <2>2, <3>1 DEF GuardTruthful
  <2> QED BY <2>1, <2>2
<1>4. (failures' >= 2) = FALSE
  BY <1>1
<1> QED BY <1>3, <1>4 DEF GuardTruthful

LEMMA FailGuard ==
    ASSUME TypeOK, GuardTruthful, NEW c \in Calls, Fail(c)
    PROVE  GuardTruthful'
<1>1. failures' = failures + 1 /\ failures \in Nat
  BY DEF Fail, TypeOK
<1>2. down' = IF failures' = 2 THEN TRUE ELSE down
  BY DEF Fail
<1>3. CASE failures' = 2
  <2>1. down' = TRUE /\ (failures' >= 2) = TRUE
    BY <1>2, <1>3
  <2> QED BY <2>1 DEF GuardTruthful
<1>4. CASE failures' # 2
  <2>1. (failures' >= 2) = (failures >= 2)
    BY <1>1, <1>4
  <2>2. down' = down
    BY <1>2, <1>4
  <2> QED BY <2>1, <2>2 DEF GuardTruthful
<1> QED BY <1>3, <1>4

\* The user is told that the sidecar is gone exactly while two failures in a
\* row stand unanswered (rpc.ts announces the second failure, once).
THEOREM GuardIsTruthful == Spec => []GuardTruthful
<1>1. Init => GuardTruthful
  <2> SUFFICES ASSUME Init PROVE GuardTruthful
    OBVIOUS
  <2>1. failures = 0 /\ down = FALSE
    BY DEF Init
  <2>2. (failures >= 2) = FALSE
    BY <2>1
  <2> QED BY <2>1, <2>2 DEF GuardTruthful
<1>2. TypeOK /\ GuardTruthful /\ [Next]_vars => GuardTruthful'
  <2> SUFFICES ASSUME TypeOK, GuardTruthful, [Next]_vars PROVE GuardTruthful'
    OBVIOUS
  <2>1. CASE UNCHANGED <<failures, down>>
    BY <2>1 DEF GuardTruthful
  <2>2. CASE \E c \in Calls : Call(c) \/ Request(c) \/ Answer(c) \/ Route(c) \/ RelayTimeout(c)
    BY <2>1, <2>2 DEF Call, Request, Answer, Route, RelayTimeout, client
  <2>3. CASE \E c \in Calls : ClientTimeout(c)
    BY <2>3, FailGuard DEF ClientTimeout
  <2>4. CASE \E c \in Calls : Return(c)
    <3>1. PICK c \in Calls : Return(c)
      BY <2>4
    <3>2. UNCHANGED client \/ Respond(c, value[c]) \/ Fail(c)
      BY <3>1 DEF Return
    <3> QED BY <2>1, <3>2, RespondGuard, FailGuard DEF client
  <2>5. CASE Die \/ ReaderEnds \/ UNCHANGED vars
    BY <2>1, <2>5 DEF Die, ReaderEnds, vars, client
  <2>6. CASE Reload
    <3>1. failures' = 0 /\ down' = FALSE
      BY <2>6 DEF Reload
    <3>2. (failures' >= 2) = FALSE
      BY <3>1
    <3> QED BY <3>1, <3>2 DEF GuardTruthful
  <2> QED BY <2>2, <2>3, <2>4, <2>5, <2>6 DEF Next
<1> QED BY <1>1, <1>2, TypeCorrect, PTL DEF Spec

-----------------------------------------------------------------------------
(* The relay's table. *)

\* No future of request() waits without its sender in the table, and no sender
\* is kept for a future that has ended, whatever ids the page gives.
THEOREM WaitsRegistered == Spec => []WaitsAreRegistered
<1>1. Init => WaitsAreRegistered
  BY DEF Init, WaitsAreRegistered
<1>2. TypeOK /\ WaitsAreRegistered /\ [Next]_vars => WaitsAreRegistered'
  <2> SUFFICES ASSUME TypeOK, WaitsAreRegistered, [Next]_vars,
                      NEW e \in Calls
               PROVE  (relay'[e] = "open") = registered'[e]
    BY DEF WaitsAreRegistered
  <2>0. (relay[e] = "open") = registered[e]
    BY DEF WaitsAreRegistered
  <2>1. CASE UNCHANGED <<registered, relay>>
    BY <2>0, <2>1
  <2>2. CASE \E c \in Calls : Request(c)
    <3>1. PICK c \in Calls : Request(c)
      BY <2>2
    <3>2. CASE e = c
      <4>1. registered'[e] = alive /\ relay'[e] = IF alive THEN "open" ELSE "failed"
        BY <3>1, <3>2 DEF Request, Unregister, Dropping
      <4>2. alive \in BOOLEAN
        BY DEF TypeOK
      <4> QED BY <4>1, <4>2
    <3>3. CASE e # c
      <4>1. /\ registered'[e] = (registered[e] /\ id[e] # id[c])
            /\ relay'[e] = IF registered[e] /\ id[e] = id[c] /\ relay[e] = "open"
                           THEN "dropped" ELSE relay[e]
        BY <3>1, <3>3 DEF Request, Unregister, Dropping
      <4> QED BY <2>0, <4>1
    <3> QED BY <3>2, <3>3
  <2>3. CASE \E c \in Calls : Route(c)
    <3>1. PICK c \in Calls : Route(c)
      BY <2>3
    <3>2. /\ registered'[e] = (registered[e] /\ id[e] # id[c])
          /\ relay'[e] = IF registered[e] /\ id[e] = id[c] /\ relay[e] = "open"
                         THEN "filled" ELSE relay[e]
      BY <3>1 DEF Route, Unregister
    <3> QED BY <2>0, <3>2
  <2>4. CASE \E c \in Calls : RelayTimeout(c)
    <3>1. PICK c \in Calls : RelayTimeout(c)
      BY <2>4
    <3>2. registered' = Unregister(id[c]) /\ relay' = [Dropping(id[c]) EXCEPT ![c] = "failed"]
      BY <3>1 DEF RelayTimeout
    <3>3. registered'[e] = (registered[e] /\ id[e] # id[c])
      BY <3>2 DEF Unregister
    <3>4. relay'[e] = IF e = c THEN "failed"
                      ELSE IF registered[e] /\ id[e] = id[c] /\ relay[e] = "open"
                      THEN "dropped" ELSE relay[e]
      BY <3>2 DEF Dropping
    <3> QED BY <2>0, <3>3, <3>4
  <2>5. CASE \E c \in Calls : Return(c)
    <3>1. PICK c \in Calls : Return(c)
      BY <2>5
    <3>2. relay[c] # "open"
      BY <3>1 DEF Return, Finished
    <3>3. CASE relay[c] = "dropped"
      <4>1. registered' = Unregister(id[c]) /\ relay' = [Dropping(id[c]) EXCEPT ![c] = "returned"]
        BY <3>1, <3>3 DEF Return
      <4>2. registered'[e] = (registered[e] /\ id[e] # id[c])
        BY <4>1 DEF Unregister
      <4>3. relay'[e] = IF e = c THEN "returned"
                        ELSE IF registered[e] /\ id[e] = id[c] /\ relay[e] = "open"
                        THEN "dropped" ELSE relay[e]
        BY <4>1 DEF Dropping
      <4> QED BY <2>0, <3>2, <4>2, <4>3
    <3>4. CASE relay[c] # "dropped"
      <4>1. /\ registered'[e] = registered[e]
            /\ relay'[e] = IF e = c THEN "returned" ELSE relay[e]
        BY <3>1, <3>4 DEF Return, TypeOK
      <4> QED BY <2>0, <3>2, <4>1
    <3> QED BY <3>3, <3>4
  <2>6. CASE ReaderEnds
    <3>1. /\ registered'[e] = FALSE
          /\ relay'[e] = IF registered[e] /\ relay[e] = "open" THEN "dropped" ELSE relay[e]
      BY <2>6 DEF ReaderEnds
    <3> QED BY <2>0, <3>1
  <2>7. CASE \/ \E c \in Calls : Call(c) \/ ClientTimeout(c) \/ Answer(c)
             \/ Die \/ Reload \/ UNCHANGED vars
    BY <2>1, <2>7 DEF Call, ClientTimeout, Answer, Die, Reload, vars
  <2> QED BY <2>2, <2>3, <2>4, <2>5, <2>6, <2>7 DEF Next
<1> QED BY <1>1, <1>2, TypeCorrect, PTL DEF Spec

-----------------------------------------------------------------------------
(* OwnAnswer is not inductive: that a response finds its own caller rests on *)
(* every id being given once, on nothing being sent before call() runs, and  *)
(* on a receiver holding only the response to its own request.               *)

NothingEarly == \A c \in Calls : /\ st[c] = "idle" => relay[c] = "none"
                                 /\ relay[c] = "none" => sidecar[c] = "none"
IdsOnce == ~reloaded =>
    /\ \A c \in Calls : st[c] # "idle" => id[c] < nextId
    /\ \A c, d \in Calls : st[c] # "idle" /\ st[d] # "idle" /\ id[c] = id[d] => c = d
ValueIsReal == \A c \in Calls : /\ relay[c] = "filled" => value[c] # NoCall
                                /\ value[c] # NoCall => sidecar[value[c]] = "routed"
ValueIsOwn  == ~reloaded => \A c \in Calls : value[c] \in {NoCall, c}

\* A promise only leaves "idle" by Call, and never goes back to it.
LEMMA IdleOnly ==
    ASSUME TypeOK, [Next]_vars, NEW e \in Calls
    PROVE  \/ (st'[e] = "idle") = (st[e] = "idle")
           \/ Call(e)
<1>1. CASE \E c \in Calls : Call(c)
  BY <1>1 DEF Call, TypeOK
<1>2. CASE \E c \in Calls : ClientTimeout(c)
  BY <1>2 DEF ClientTimeout, Fail, TypeOK
<1>3. CASE \E c \in Calls : Return(c)
  <2>1. PICK c \in Calls : Return(c)
    BY <1>3
  <2>2. UNCHANGED client \/ (st[c] = "waiting" /\ (Respond(c, value[c]) \/ Fail(c)))
    BY <2>1 DEF Return
  <2>3. CASE UNCHANGED client
    BY <2>3 DEF client
  <2>4. CASE st[c] = "waiting" /\ Respond(c, value[c])
    BY <2>4 DEF Respond, TypeOK
  <2>5. CASE st[c] = "waiting" /\ Fail(c)
    BY <2>5 DEF Fail, TypeOK
  <2> QED BY <2>2, <2>3, <2>4, <2>5
<1>4. CASE \/ \E c \in Calls : Request(c) \/ Answer(c) \/ Route(c) \/ RelayTimeout(c)
           \/ Die \/ ReaderEnds \/ UNCHANGED vars
  BY <1>4 DEF Request, Answer, Route, RelayTimeout, Die, ReaderEnds, vars, client
<1>5. CASE Reload
  BY <1>5 DEF Reload, TypeOK
<1> QED BY <1>1, <1>2, <1>3, <1>4, <1>5 DEF Next

\* Ids are given by Call alone.
LEMMA IdsKept ==
    ASSUME [Next]_vars
    PROVE  \/ UNCHANGED <<id, nextId, reloaded>>
           \/ \E c \in Calls : Call(c)
           \/ reloaded' = TRUE
BY DEF Next, vars, client, ClientTimeout, Request, Answer, Route, RelayTimeout, Return,
       Respond, Fail, Die, ReaderEnds, Reload

LEMMA NothingEarlyKept ==
    ASSUME TypeOK, NothingEarly, [Next]_vars
    PROVE  NothingEarly'
<1> SUFFICES ASSUME NEW e \in Calls
             PROVE  /\ st'[e] = "idle" => relay'[e] = "none"
                    /\ relay'[e] = "none" => sidecar'[e] = "none"
  BY DEF NothingEarly
<1>0. /\ st[e] = "idle" => relay[e] = "none"
      /\ relay[e] = "none" => sidecar[e] = "none"
  BY DEF NothingEarly
<1>1. st'[e] = "idle" => st[e] = "idle"
  BY IdleOnly DEF Call, TypeOK
<1>2. CASE UNCHANGED <<relay, sidecar>>
  BY <1>0, <1>1, <1>2
<1>3. CASE \E c \in Calls : Request(c)
  BY <1>0, <1>1, <1>3 DEF Request, Dropping, TypeOK, client
<1>4. CASE \E c \in Calls : Answer(c)
  BY <1>0, <1>1, <1>4 DEF Answer, TypeOK
<1>5. CASE \E c \in Calls : Route(c)
  BY <1>0, <1>1, <1>5 DEF Route, TypeOK
<1>6. CASE \E c \in Calls : RelayTimeout(c)
  BY <1>0, <1>1, <1>6 DEF RelayTimeout, Dropping, TypeOK
<1>7. CASE \E c \in Calls : Return(c)
  BY <1>0, <1>1, <1>7 DEF Return, Dropping, TypeOK, Finished
<1>8. CASE Die
  BY <1>0, <1>1, <1>8 DEF Die
<1>9. CASE ReaderEnds
  BY <1>0, <1>1, <1>9 DEF ReaderEnds
<1>10. CASE (\E c \in Calls : Call(c) \/ ClientTimeout(c)) \/ Reload \/ UNCHANGED vars
  BY <1>2, <1>10 DEF Call, ClientTimeout, Reload, vars
<1> QED BY <1>3, <1>4, <1>5, <1>6, <1>7, <1>8, <1>9, <1>10 DEF Next

LEMMA IdsOnceKept ==
    ASSUME TypeOK, IdsOnce, [Next]_vars
    PROVE  IdsOnce'
<1>1. CASE \E c \in Calls : Call(c)
  <2>1. PICK c \in Calls : Call(c)
    BY <1>1
  <2>2. /\ nextId \in Nat /\ nextId' = nextId + 1 /\ reloaded' = reloaded
        /\ id[c] \in Nat /\ id' = [id EXCEPT ![c] = nextId]
        /\ st' = [st EXCEPT ![c] = "waiting"]
    BY <2>1 DEF Call, TypeOK
  <2> SUFFICES ASSUME ~reloaded
               PROVE  /\ \A e \in Calls : st'[e] # "idle" => id'[e] < nextId'
                      /\ \A e, d \in Calls : st'[e] # "idle" /\ st'[d] # "idle" /\ id'[e] = id'[d]
                                               => e = d
    BY <2>2 DEF IdsOnce
  <2>3. ASSUME NEW e \in Calls, st'[e] # "idle"
        PROVE  /\ id'[e] < nextId'
               /\ e # c => st[e] # "idle" /\ id'[e] = id[e] /\ id'[e] < nextId
    BY <2>2, <2>3 DEF IdsOnce, TypeOK
  <2>4. id'[c] = nextId
    BY <2>2 DEF TypeOK
  <2>5. ASSUME NEW e \in Calls, NEW d \in Calls, st'[e] # "idle", st'[d] # "idle", id'[e] = id'[d]
        PROVE  e = d
    <3>1. CASE e = c /\ d # c
      BY <2>2, <2>3, <2>4, <2>5, <3>1
    <3>2. CASE e # c /\ d = c
      BY <2>2, <2>3, <2>4, <2>5, <3>2
    <3>3. CASE e # c /\ d # c
      BY <2>3, <2>5, <3>3 DEF IdsOnce
    <3> QED BY <3>1, <3>2, <3>3
  <2> QED BY <2>3, <2>5
<1>2. CASE ~(\E c \in Calls : Call(c)) /\ UNCHANGED <<id, nextId, reloaded>>
  <2>1. \A e \in Calls : (st'[e] = "idle") = (st[e] = "idle")
    BY <1>2, IdleOnly
  <2> QED BY <1>2, <2>1 DEF IdsOnce
<1>3. CASE reloaded' = TRUE
  BY <1>3 DEF IdsOnce
<1> QED BY <1>1, <1>2, <1>3, IdsKept

LEMMA ValueIsRealKept ==
    ASSUME TypeOK, NothingEarly, ValueIsReal, [Next]_vars
    PROVE  ValueIsReal'
<1>1. ASSUME NEW e \in Calls, sidecar[e] = "routed" PROVE sidecar'[e] = "routed"
  <2>1. CASE \E c \in Calls : Request(c) \/ Answer(c) \/ Route(c)
    <3>1. PICK c \in Calls : Request(c) \/ Answer(c) \/ Route(c)
      BY <2>1
    <3>2. CASE Request(c)
      BY <1>1, <3>2 DEF Request, NothingEarly, TypeOK
    <3>3. CASE Answer(c)
      BY <1>1, <3>3 DEF Answer, TypeOK
    <3>4. CASE Route(c)
      BY <1>1, <3>4 DEF Route, TypeOK
    <3> QED BY <3>1, <3>2, <3>3, <3>4
  <2>2. CASE Die
    BY <1>1, <2>2 DEF Die
  <2>3. CASE sidecar' = sidecar
    BY <1>1, <2>3
  <2> QED BY <2>1, <2>2, <2>3 DEF Next, vars, Call, ClientTimeout, RelayTimeout, Return,
                                  ReaderEnds, Reload
<1>2. ASSUME NEW e \in Calls, value[e] # NoCall PROVE sidecar'[value[e]] = "routed"
  <2>1. value[e] \in Calls /\ sidecar[value[e]] = "routed"
    BY <1>2 DEF ValueIsReal, TypeOK
  <2> QED BY <1>1, <2>1
<1>3. CASE \E c \in Calls : Route(c)
  <2>1. PICK c \in Calls : Route(c)
    BY <1>3
  <2>2. sidecar'[c] = "routed" /\ c # NoCall
    BY <2>1 DEF Route, TypeOK
  <2> SUFFICES ASSUME NEW e \in Calls
               PROVE  /\ relay'[e] = "filled" => value'[e] # NoCall
                      /\ value'[e] # NoCall => sidecar'[value'[e]] = "routed"
    BY DEF ValueIsReal
  <2>3. \/ value'[e] = c
        \/ value'[e] = value[e] /\ relay'[e] = relay[e]
    BY <2>1 DEF Route
  <2> QED BY <1>2, <2>2, <2>3 DEF ValueIsReal
<1>4. CASE ~(\E c \in Calls : Route(c))
  <2>1. value' = value
    BY <1>4 DEF Next, vars, Call, ClientTimeout, Request, Answer, RelayTimeout, Return,
                Die, ReaderEnds, Reload
  <2>2. ASSUME NEW e \in Calls, relay'[e] = "filled" PROVE relay[e] = "filled"
    BY <1>4, <2>2 DEF Next, vars, Call, ClientTimeout, Request, Answer, RelayTimeout, Return,
                      Die, ReaderEnds, Reload, Dropping, TypeOK
  <2> QED BY <1>2, <2>1, <2>2 DEF ValueIsReal
<1> QED BY <1>3, <1>4

LEMMA ValueIsOwnKept ==
    ASSUME TypeOK, WaitsAreRegistered, NothingEarly, IdsOnce, ValueIsOwn, [Next]_vars
    PROVE  ValueIsOwn'
<1>1. CASE \E c \in Calls : Route(c)
  <2>1. PICK c \in Calls : Route(c)
    BY <1>1
  <2> SUFFICES ASSUME ~reloaded, NEW e \in Calls PROVE value'[e] \in {NoCall, e}
    BY <2>1 DEF ValueIsOwn, Route, client
  <2>1a. value[e] \in {NoCall, e}
    BY DEF ValueIsOwn
  <2>2. CASE registered[e] /\ id[e] = id[c] /\ relay[e] = "open"
    <3>1. st[e] # "idle"
      BY <2>2 DEF NothingEarly
    <3>2. st[c] # "idle"
      BY <2>1 DEF NothingEarly, Route
    <3>3. e = c
      BY <2>2, <3>1, <3>2 DEF IdsOnce
    <3>4. value'[e] = c
      BY <2>1, <2>2 DEF Route
    <3> QED BY <3>3, <3>4
  <2>3. CASE ~(registered[e] /\ id[e] = id[c] /\ relay[e] = "open")
    <3>1. value'[e] = value[e]
      BY <2>1, <2>3 DEF Route
    <3> QED BY <2>1a, <3>1
  <2> QED BY <2>2, <2>3
<1>2. CASE ~(\E c \in Calls : Route(c))
  <2>1. value' = value
    BY <1>2 DEF Next, vars, Call, ClientTimeout, Request, Answer, RelayTimeout, Return,
                Die, ReaderEnds, Reload
  <2>2. reloaded => reloaded'
    BY DEF Next, vars, client, Call, ClientTimeout, Request, Answer, Route, RelayTimeout,
           Return, Respond, Fail, Die, ReaderEnds, Reload
  <2> QED BY <2>1, <2>2 DEF ValueIsOwn
<1> QED BY <1>1, <1>2

LEMMA OwnAnswerKept ==
    ASSUME TypeOK, ValueIsReal, ValueIsOwn, OwnAnswer, [Next]_vars
    PROVE  OwnAnswer'
<1>1. CASE \E c \in Calls : Return(c)
  <2>1. PICK c \in Calls : Return(c)
    BY <1>1
  <2>2. CASE UNCHANGED client
    BY <2>2 DEF OwnAnswer, client
  <2>3. CASE st[c] = "waiting" /\ relay[c] = "filled" /\ Respond(c, value[c])
    <3>1. ~reloaded => value[c] = c
      BY <2>3 DEF ValueIsReal, ValueIsOwn
    <3> QED BY <2>3, <3>1 DEF Respond, OwnAnswer, TypeOK
  <2>4. CASE Fail(c)
    BY <2>4 DEF Fail, OwnAnswer, TypeOK
  <2> QED BY <2>1, <2>2, <2>3, <2>4 DEF Return
<1>2. CASE \E c \in Calls : ClientTimeout(c)
  BY <1>2 DEF ClientTimeout, Fail, OwnAnswer, TypeOK
<1>3. CASE \E c \in Calls : Call(c)
  BY <1>3 DEF Call, OwnAnswer, TypeOK
<1>4. CASE Reload
  BY <1>4 DEF Reload, OwnAnswer
<1>5. CASE \/ \E c \in Calls : Request(c) \/ Answer(c) \/ Route(c) \/ RelayTimeout(c)
           \/ Die \/ ReaderEnds \/ UNCHANGED vars
  BY <1>5 DEF Request, Answer, Route, RelayTimeout, Die, ReaderEnds, vars, client, OwnAnswer
<1> QED BY <1>1, <1>2, <1>3, <1>4, <1>5 DEF Next

OwnInv == TypeOK /\ WaitsAreRegistered /\ NothingEarly /\ IdsOnce /\ ValueIsReal /\ ValueIsOwn

LEMMA OwnInvHolds == Spec => []OwnInv
<1>1. Init => NothingEarly /\ IdsOnce /\ ValueIsReal /\ ValueIsOwn
  BY DEF Init, NothingEarly, IdsOnce, ValueIsReal, ValueIsOwn
<1>2. TypeOK /\ WaitsAreRegistered /\ NothingEarly /\ IdsOnce /\ ValueIsReal /\ ValueIsOwn /\ [Next]_vars
        => NothingEarly' /\ IdsOnce' /\ ValueIsReal' /\ ValueIsOwn'
  BY NothingEarlyKept, IdsOnceKept, ValueIsRealKept, ValueIsOwnKept
<1>3. TypeOK /\ WaitsAreRegistered /\ NothingEarly /\ IdsOnce /\ ValueIsReal /\ ValueIsOwn <=> OwnInv
  BY DEF OwnInv
<1> QED BY <1>1, <1>2, <1>3, TypeCorrect, WaitsRegistered, PTL DEF Spec

\* Until the page starts over, a caller of call() gets the response to its own
\* request, in whatever order responses, time-outs and the process's end come.
THEOREM AnswersAreOwn == Spec => []OwnAnswer
<1>1. Init => OwnAnswer
  BY DEF Init, OwnAnswer
<1>2. OwnInv /\ OwnAnswer /\ [Next]_vars => OwnAnswer'
  BY OwnAnswerKept DEF OwnInv
<1> QED BY <1>1, <1>2, OwnInvHolds, PTL DEF Spec

-----------------------------------------------------------------------------
(* call() implements its contract. *)

Executed == {c \in Calls : sidecar[c] \in {"answered", "routed"}}

\* A settling step of the client tells one waiting caller something true.
LEMMA TellStep ==
    ASSUME TypeOK, NEW c \in Calls, st[c] = "waiting", UNCHANGED <<sidecar, reloaded>>,
           NEW s \in {"answered", "refused", "unreachable"},
           st' = [st EXCEPT ![c] = s],
           s = "unreachable" \/ c \in Executed \/ reloaded
    PROVE  Contract!Next
<1>1. Contract!Tell(c, s)
  BY DEF Contract!Tell, Executed
<1> QED BY <1>1 DEF Contract!Next

\* Every step of the client, the relay and the sidecar is a step of RpcContract
\* or changes nothing its callers can tell.
THEOREM ContractImplemented == Spec => ImplementsContract
<1>1. Init => Contract!Init
  BY DEF Init, Contract!Init
<1>2. OwnInv /\ [Next]_vars => [Contract!Next]_<<st, Executed, reloaded>>
  <2> SUFFICES ASSUME OwnInv, [Next]_vars
               PROVE  Contract!Next \/ UNCHANGED <<st, Executed, reloaded>>
    OBVIOUS
  <2> USE DEF OwnInv
  <2>1. CASE \E c \in Calls : Call(c)
    <3>1. PICK c \in Calls : Call(c)
      BY <2>1
    <3>2. Contract!Submit(c)
      BY <3>1 DEF Call, Contract!Submit
    <3> QED BY <3>2 DEF Contract!Next
  <2>2. CASE \E c \in Calls : ClientTimeout(c)
    BY <2>2, TellStep DEF ClientTimeout, Fail
  <2>3. CASE \E c \in Calls : Answer(c)
    <3>1. PICK c \in Calls : Answer(c)
      BY <2>3
    <3>2. Executed' = Executed \cup {c} /\ c \notin Executed
      BY <3>1 DEF Answer, Executed, TypeOK
    <3>3. st[c] # "idle" /\ UNCHANGED <<st, reloaded>>
      BY <3>1 DEF Answer, NothingEarly, client
    <3>4. Contract!Execute(c)
      BY <3>2, <3>3 DEF Contract!Execute, Executed
    <3> QED BY <3>4 DEF Contract!Next
  <2>4. CASE \E c \in Calls : Return(c)
    <3>1. PICK c \in Calls : Return(c)
      BY <2>4
    <3>2. CASE UNCHANGED client
      BY <3>1, <3>2 DEF Return, client, Executed
    <3>3. CASE st[c] = "waiting" /\ relay[c] = "filled" /\ Respond(c, value[c])
      <4>1. PICK s \in {"answered", "refused"} : st' = [st EXCEPT ![c] = s]
        BY <3>3 DEF Respond
      <4>2. c \in Executed \/ reloaded
        BY <3>3 DEF ValueIsReal, ValueIsOwn, Executed
      <4>3. UNCHANGED <<sidecar, reloaded>>
        BY <3>1, <3>3 DEF Return, Respond
      <4> QED BY <3>3, <4>1, <4>2, <4>3, TellStep
    <3>4. CASE st[c] = "waiting" /\ Fail(c)
      BY <3>1, <3>4, TellStep DEF Return, Fail
    <3> QED BY <3>1, <3>2, <3>3, <3>4 DEF Return
  <2>5. CASE Reload
    <3>1. Contract!Restart
      BY <2>5 DEF Reload, Contract!Restart
    <3> QED BY <3>1 DEF Contract!Next
  <2>6. CASE \E c \in Calls : Request(c)
    <3>1. Executed' = Executed
      BY <2>6 DEF Request, Executed, NothingEarly, TypeOK
    <3> QED BY <2>6, <3>1 DEF Request, client
  <2>7. CASE \E c \in Calls : Route(c)
    <3>1. Executed' = Executed
      BY <2>7 DEF Route, Executed, TypeOK
    <3> QED BY <2>7, <3>1 DEF Route, client
  <2>8. CASE Die
    <3>1. Executed' = Executed
      BY <2>8 DEF Die, Executed, TypeOK
    <3> QED BY <2>8, <3>1 DEF Die, client
  <2>9. CASE (\E c \in Calls : RelayTimeout(c)) \/ ReaderEnds \/ UNCHANGED vars
    BY <2>9 DEF RelayTimeout, ReaderEnds, vars, client, Executed
  <2> QED BY <2>1, <2>2, <2>3, <2>4, <2>5, <2>6, <2>7, <2>8, <2>9 DEF Next
<1> QED
  BY <1>1, <1>2, OwnInvHolds, PTL DEF Spec, ImplementsContract, Contract!Spec, Executed
=============================================================================
