------------------------------ MODULE EventBus ------------------------------
(***************************************************************************)
(* The event stream of the HTTP transport (transport.py, http.py): events  *)
(* are kept in a ring and put into the queue of every subscriber; a stream *)
(* subscribes, replays the ring, and goes on with its queue.  Event n is   *)
(* the nth published.                                                      *)
(***************************************************************************)
EXTENDS Naturals, Sequences

CONSTANTS Streams,   \* GET /events
          Ring,      \* events kept (_sse_history: 100)
          Room,      \* events that wait for a stream (its queue: 256)
          MaxEvents  \* bound: events published

\* What the constants have to satisfy
EventBusAssumption == Ring \in Nat \ {0} /\ Room \in Nat \ {0} /\ MaxEvents \in Nat

VARIABLES
    published, \* events so far
    history,   \* _sse_history
    stage,     \* of each stream
    q,         \* its queue, while it is subscribed
    replay,    \* what it has still to write of its copy of the ring
    written,   \* what it wrote
    dropped,   \* events that found its queue full (history)
    between    \* events published between its subscription and its copy (history)

vars == <<published, history, stage, q, replay, written, dropped, between>>

Events == 1..MaxEvents
TypeOK ==
    /\ published \in 0..MaxEvents /\ history \in Seq(Events) /\ Len(history) <= Ring
    /\ stage \in [Streams -> {"new", "subscribed", "streaming", "closed"}]
    /\ \A s \in Streams : /\ q[s] \in Seq(Events) /\ Len(q[s]) <= Room
                          /\ replay[s] \in Seq(Events) /\ written[s] \in Seq(Events)
                          /\ dropped[s] \subseteq Events /\ between[s] \in 0..MaxEvents

Init == /\ published = 0 /\ history = <<>>
        /\ stage = [s \in Streams |-> "new"] /\ q = [s \in Streams |-> <<>>]
        /\ replay = [s \in Streams |-> <<>>] /\ written = [s \in Streams |-> <<>>]
        /\ dropped = [s \in Streams |-> {}] /\ between = [s \in Streams |-> 0]

-----------------------------------------------------------------------------
Subscribed(s) == stage[s] \in {"subscribed", "streaming"}

\* _sse_publish: one critical section; a full queue is passed over.
Publish ==
    /\ published < MaxEvents /\ published' = published + 1
    /\ history' = LET h == Append(history, published') IN
                  IF Len(h) > Ring THEN Tail(h) ELSE h
    /\ q' = [s \in Streams |-> IF Subscribed(s) /\ Len(q[s]) < Room
                               THEN Append(q[s], published') ELSE q[s]]
    /\ dropped' = [s \in Streams |-> IF Subscribed(s) /\ Len(q[s]) = Room
                                     THEN dropped[s] \cup {published'} ELSE dropped[s]]
    /\ between' = [s \in Streams |-> IF stage[s] = "subscribed" THEN between[s] + 1
                                                               ELSE between[s]]
    /\ UNCHANGED <<stage, replay, written>>

\* _sse_subscribe
Subscribe(s) ==
    /\ stage[s] = "new" /\ stage' = [stage EXCEPT ![s] = "subscribed"]
    /\ UNCHANGED <<published, history, q, replay, written, dropped, between>>

\* The ring is copied, under the lock, once the headers are written.
Copy(s) ==
    /\ stage[s] = "subscribed" /\ stage' = [stage EXCEPT ![s] = "streaming"]
    /\ replay' = [replay EXCEPT ![s] = history]
    /\ UNCHANGED <<published, history, q, written, dropped, between>>

\* _sse_write, of the copy first and then of the queue
Replay(s) ==
    /\ stage[s] = "streaming" /\ replay[s] # <<>>
    /\ written' = [written EXCEPT ![s] = Append(@, Head(replay[s]))]
    /\ replay' = [replay EXCEPT ![s] = Tail(@)]
    /\ UNCHANGED <<published, history, stage, q, dropped, between>>
Stream(s) ==
    /\ stage[s] = "streaming" /\ replay[s] = <<>> /\ q[s] # <<>>
    /\ written' = [written EXCEPT ![s] = Append(@, Head(q[s]))]
    /\ q' = [q EXCEPT ![s] = Tail(@)]
    /\ UNCHANGED <<published, history, stage, replay, dropped, between>>

\* A write fails, since the client is gone; _sse_unsubscribe.
Close(s) ==
    /\ Subscribed(s) /\ stage' = [stage EXCEPT ![s] = "closed"]
    /\ q' = [q EXCEPT ![s] = <<>>]
    /\ UNCHANGED <<published, history, replay, written, dropped, between>>

Next == \/ Publish
        \/ \E s \in Streams : Subscribe(s) \/ Copy(s) \/ Replay(s) \/ Stream(s) \/ Close(s)

Spec == Init /\ [][Next]_vars
-----------------------------------------------------------------------------
(* Properties *)

InSeq(e, s) == \E i \in DOMAIN s : s[i] = e

\* A stream has no gap: between its oldest event and the last one published
\* each is written, on its way, or was dropped from a full queue.
NoGap ==
    \A s \in Streams : (stage[s] = "streaming" /\ written[s] # <<>>) =>
        \A e \in Events : (written[s][1] <= e /\ e <= published) =>
            \/ InSeq(e, written[s]) \/ InSeq(e, replay[s]) \/ InSeq(e, q[s])
            \/ e \in dropped[s]

\* What comes out of its order is a repetition, which the replay explains,
\* unless the ring turned over between the subscription and the copy.
OrderKept ==
    \A s \in Streams : between[s] <= Ring =>
        \A i, j \in DOMAIN written[s] :
            (i < j /\ written[s][j] <= written[s][i]) =>
                \E k \in 1..(j - 1) : written[s][k] = written[s][j]
=============================================================================
