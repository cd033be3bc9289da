---------------------------- MODULE PanelsProofs ---------------------------
(***************************************************************************)
(* Proofs about the event stream of the HTTP transport, the queue of the   *)
(* PyQt window, and pages of the desktop: the band of the convert page,    *)
(* the transfers, the batch tab, the profiles, the AUR and the reports.    *)
(* Each part takes the instance of one module that Panels declares, finds  *)
(* its inductive invariant and proves from it what the runs of the desktop *)
(* check.                                                                  *)
(***************************************************************************)
EXTENDS Panels, FiniteSetTheorems, SequenceTheorems, WellFoundedInduction, TLAPS

\* The Cardinality of an instance is Cardinality.
LEMMA SameCount == \A S : Qt!Cardinality(S) = Cardinality(S)
  BY Zenon DEF Qt!Cardinality, Cardinality

-----------------------------------------------------------------------------
(* The event stream: its inductive invariant *)

\* The type of the variables as functions, and what the ring holds: the last
\* events published, in their order.
RingIsRecent == \A i \in 1..Len(history) : history[i] = published - Len(history) + i
RingIsFull == Len(history) = Ring \/ Len(history) = published
BusType ==
    /\ published \in 0..Jobs["bus"] /\ history \in Seq(Bus!Events)
    /\ Len(history) <= Ring /\ Len(history) <= published
    /\ stage \in [Streams -> {"new", "subscribed", "streaming", "closed"}]
    /\ q \in [Streams -> Seq(Bus!Events)] /\ replay \in [Streams -> Seq(Bus!Events)]
    /\ written \in [Streams -> Seq(Bus!Events)] /\ dropped \in [Streams -> SUBSET Bus!Events]
    /\ between \in [Streams -> 0..Jobs["bus"]]
    /\ \A s \in Streams : Len(q[s]) <= StreamRoom /\ between[s] <= published
BusInv == BusType /\ RingIsRecent /\ RingIsFull

\* What a stream has to tell, in the order in which it will be written
Tale(s) == written[s] \o (replay[s] \o q[s])

\* Until its copy a stream has written nothing; its queue holds events in
\* their order, of those published since it subscribed.
Waiting(s) ==
    stage[s] \in {"new", "subscribed"} =>
        /\ written[s] = <<>> /\ replay[s] = <<>>
        /\ stage[s] = "new" => q[s] = <<>> /\ between[s] = 0
        /\ \A i \in 1..Len(q[s]) : published - between[s] < q[s][i]
        /\ \A i, j \in 1..Len(q[s]) : i < j => q[s][i] < q[s][j]

\* From the oldest event of the stream on, each is told or was dropped.
Base(s) == IF written[s] # <<>> THEN written[s][1]
           ELSE IF replay[s] # <<>> THEN replay[s][1] ELSE 1
Told(s) ==
    stage[s] = "streaming" =>
        \A e \in Bus!Events : (Base(s) <= e /\ e <= published) =>
            \/ Bus!InSeq(e, written[s]) \/ Bus!InSeq(e, replay[s]) \/ Bus!InSeq(e, q[s])
            \/ e \in dropped[s]

\* What comes out of its order was told before.
Sound(t) == \A i, j \in 1..Len(t) :
               (i < j /\ t[j] <= t[i]) => \E k \in 1..(j - 1) : t[k] = t[j]
Ordered(s) ==
    /\ \A i \in 1..Len(Tale(s)) : Tale(s)[i] <= published
    /\ stage[s] \in {"streaming", "closed"} /\ between[s] <= Ring => Sound(Tale(s))

Fine(s) == Waiting(s) /\ Told(s) /\ Ordered(s)
StreamInv == \A s \in Streams : Fine(s)

-----------------------------------------------------------------------------
(* Sequences of events *)

\* Writing the first event of what comes next leaves the whole as it was.
LEMMA HeadMoves ==
    ASSUME NEW w \in Seq(Bus!Events), NEW r \in Seq(Bus!Events), NEW u \in Seq(Bus!Events), r # <<>>
    PROVE  Append(w, Head(r)) \o (Tail(r) \o u) = w \o (r \o u)
<1>1. /\ Head(r) \in Bus!Events /\ Tail(r) \in Seq(Bus!Events) /\ Len(Tail(r)) = Len(r) - 1
      /\ \A i \in 1..Len(Tail(r)) : Tail(r)[i] = r[i + 1]
      /\ Head(r) = r[1] /\ Len(r) \in Nat \ {0}
  BY HeadTailProperties, EmptySeq
<1>2. r = <<Head(r)>> \o Tail(r)
  <2>1. /\ <<Head(r)>> \o Tail(r) \in Seq(Bus!Events)
        /\ Len(<<Head(r)>> \o Tail(r)) = 1 + Len(Tail(r))
        /\ \A i \in 1..(1 + Len(Tail(r))) : (<<Head(r)>> \o Tail(r))[i] =
               IF i <= 1 THEN Head(r) ELSE Tail(r)[i - 1]
    BY <1>1, ConcatProperties, <<Head(r)>> \in Seq(Bus!Events), Len(<<Head(r)>>) = 1
  <2>2. \A i \in 1..Len(r) : (<<Head(r)>> \o Tail(r))[i] = r[i]
    BY <1>1, <2>1
  <2>3. Len(<<Head(r)>> \o Tail(r)) = Len(r)
    BY <1>1, <2>1
  <2> QED BY <2>1, <2>2, <2>3, SeqEqual
<1>3. <<Head(r)>> \in Seq(Bus!Events) /\ Tail(r) \o u \in Seq(Bus!Events)
  BY <1>1, ConcatProperties
<1>4. Append(w, Head(r)) = w \o <<Head(r)>>
  BY <1>1, AppendIsConcat
<1>5. Append(w, Head(r)) \o (Tail(r) \o u) = w \o (<<Head(r)>> \o (Tail(r) \o u))
  BY <1>3, <1>4, ConcatAssociative
<1>6. <<Head(r)>> \o (Tail(r) \o u) = r \o u
  BY <1>1, <1>2, <1>3, ConcatAssociative
<1> QED BY <1>5, <1>6

LEMMA Regroup ==
    ASSUME NEW w \in Seq(Bus!Events), NEW r \in Seq(Bus!Events), NEW u \in Seq(Bus!Events)
    PROVE  (w \o r) \o u = w \o (r \o u)
  BY ConcatAssociative

\* The last event stays the last.
LEMMA LastMoves ==
    ASSUME NEW w \in Seq(Bus!Events), NEW r \in Seq(Bus!Events), NEW u \in Seq(Bus!Events),
           NEW x \in Bus!Events
    PROVE  w \o (r \o Append(u, x)) = Append(w \o (r \o u), x)
<1>1. <<x>> \in Seq(Bus!Events) /\ r \o u \in Seq(Bus!Events) /\ w \o (r \o u) \in Seq(Bus!Events)
  BY ConcatProperties
<1>2. Append(u, x) = u \o <<x>> /\ Append(w \o (r \o u), x) = (w \o (r \o u)) \o <<x>>
  BY <1>1, AppendIsConcat
<1>3. r \o (u \o <<x>>) = (r \o u) \o <<x>>
  BY <1>1, ConcatAssociative
<1>4. w \o ((r \o u) \o <<x>>) = (w \o (r \o u)) \o <<x>>
  BY <1>1, ConcatAssociative
<1> QED BY <1>2, <1>3, <1>4

\* What an appended sequence holds
LEMMA InAppend ==
    ASSUME NEW t \in Seq(Bus!Events), NEW x \in Bus!Events, NEW e
    PROVE  Bus!InSeq(e, Append(t, x)) <=> (Bus!InSeq(e, t) \/ e = x)
<1>1. /\ Append(t, x) \in Seq(Bus!Events) /\ Len(Append(t, x)) = Len(t) + 1 /\ Len(t) \in Nat
      /\ \A i \in 1..Len(t) : Append(t, x)[i] = t[i]
      /\ Append(t, x)[Len(t) + 1] = x
      /\ DOMAIN t = 1..Len(t) /\ DOMAIN Append(t, x) = 1..(Len(t) + 1)
  BY AppendProperties, LenProperties
<1> QED BY <1>1 DEF Bus!InSeq

\* and one without its head
LEMMA InTail ==
    ASSUME NEW t \in Seq(Bus!Events), t # <<>>, NEW e
    PROVE  Bus!InSeq(e, t) <=> (Bus!InSeq(e, Tail(t)) \/ e = Head(t))
<1>1. /\ Tail(t) \in Seq(Bus!Events) /\ Len(Tail(t)) = Len(t) - 1 /\ Len(t) \in Nat \ {0}
      /\ \A i \in 1..Len(Tail(t)) : Tail(t)[i] = t[i + 1]
      /\ Head(t) = t[1]
      /\ DOMAIN t = 1..Len(t) /\ DOMAIN Tail(t) = 1..(Len(t) - 1)
  BY HeadTailProperties, EmptySeq, LenProperties
<1>2. \A i \in 1..Len(t) : t[i] = Head(t) \/ (i - 1 \in 1..(Len(t) - 1) /\ Tail(t)[i - 1] = t[i])
  BY <1>1
<1>3. \A i \in 1..(Len(t) - 1) : i + 1 \in 1..Len(t) /\ t[i + 1] = Tail(t)[i]
  BY <1>1
<1>4. 1 \in 1..Len(t)
  BY <1>1
<1> QED BY <1>1, <1>2, <1>3, <1>4 DEF Bus!InSeq

\* A beginning of a sound tale is sound, and so is a tale that goes on with an
\* event newer than any of it.
LEMMA SoundBeginning ==
    ASSUME NEW w \in Seq(Bus!Events), NEW u \in Seq(Bus!Events), Sound(w \o u)
    PROVE  Sound(w)
<1>1. /\ Len(w \o u) = Len(w) + Len(u) /\ Len(w) \in Nat /\ Len(u) \in Nat
      /\ \A i \in 1..Len(w) : (w \o u)[i] = w[i]
  BY ConcatProperties, LenProperties
<1> QED BY <1>1 DEF Sound

LEMMA SoundAppend ==
    ASSUME NEW t \in Seq(Bus!Events), NEW x \in Bus!Events, Sound(t),
           \A i \in 1..Len(t) : t[i] < x
    PROVE  Sound(Append(t, x))
<1>1. /\ Len(Append(t, x)) = Len(t) + 1 /\ Len(t) \in Nat
      /\ \A i \in 1..Len(t) : Append(t, x)[i] = t[i] /\ t[i] \in Bus!Events
      /\ Append(t, x)[Len(t) + 1] = x
  BY AppendProperties, LenProperties
<1> SUFFICES ASSUME NEW i \in 1..(Len(t) + 1), NEW j \in 1..(Len(t) + 1), i < j,
                    Append(t, x)[j] <= Append(t, x)[i]
             PROVE  \E k \in 1..(j - 1) : Append(t, x)[k] = Append(t, x)[j]
  BY <1>1 DEF Sound
<1>2. CASE j = Len(t) + 1
  <2>1. i \in 1..Len(t) /\ t[i] < x /\ x <= t[i] /\ t[i] \in Bus!Events
    BY <1>1, <1>2
  <2> QED BY <2>1 DEF Bus!Events
<1>3. CASE j # Len(t) + 1
  <2>1. i \in 1..Len(t) /\ j \in 1..Len(t) /\ t[j] <= t[i]
    BY <1>1, <1>3
  <2>2. PICK k \in 1..(j - 1) : t[k] = t[j]
    BY <2>1 DEF Sound
  <2> QED BY <1>1, <2>1, <2>2
<1> QED BY <1>2, <1>3

-----------------------------------------------------------------------------
(* The ring *)

LEMMA BusInit == Bus!EventBusAssumption /\ Bus!Init => BusInv
  BY EmptySeq
     DEF Bus!EventBusAssumption, Bus!Init, BusInv, BusType, RingIsRecent, RingIsFull, Bus!Events

\* The queue of one stream and the ring take the event, or lose one.
LEMMA PublishRing ==
    ASSUME Bus!EventBusAssumption, BusInv, Bus!Publish
    PROVE  /\ history' \in Seq(Bus!Events) /\ Len(history') <= Ring
           /\ Len(history') <= published' /\ RingIsRecent' /\ RingIsFull'
<1> DEFINE h == Append(history, published')
<1>1. /\ published' = published + 1 /\ published \in Nat /\ published' \in Bus!Events
      /\ history \in Seq(Bus!Events) /\ Len(history) \in Nat /\ Ring \in Nat \ {0}
      /\ Len(history) <= Ring /\ Len(history) <= published
      /\ \A i \in 1..Len(history) : history[i] = published - Len(history) + i
      /\ history' = IF Len(h) > Ring THEN Tail(h) ELSE h
  BY EmptySeq, LenProperties
  DEF Bus!EventBusAssumption, BusInv, BusType, RingIsRecent, Bus!Publish, Bus!Events
<1>2. /\ h \in Seq(Bus!Events) /\ Len(h) = Len(history) + 1 /\ h # <<>>
      /\ \A i \in 1..Len(history) : h[i] = history[i]
      /\ h[Len(history) + 1] = published'
  BY <1>1, AppendProperties
<1> HIDE DEF h
<1>3. \A i \in 1..Len(h) : h[i] = published' - Len(h) + i
  <2> SUFFICES ASSUME NEW i \in 1..Len(h) PROVE h[i] = published' - Len(h) + i
    OBVIOUS
  <2>1. CASE i = Len(history) + 1
    BY <1>1, <1>2, <2>1
  <2>2. CASE i \in 1..Len(history)
    <3>1. h[i] = published - Len(history) + i
      BY <1>1, <1>2, <2>2
    <3> QED BY <1>1, <1>2, <3>1
  <2> QED BY <1>1, <1>2, <2>1, <2>2
<1>4. CASE Len(h) > Ring
  <2>1. /\ history' = Tail(h) /\ Tail(h) \in Seq(Bus!Events) /\ Len(Tail(h)) = Len(h) - 1
        /\ \A i \in 1..Len(Tail(h)) : Tail(h)[i] = h[i + 1]
    BY <1>1, <1>2, <1>4, HeadTailProperties
  <2>2. Len(history') = Ring /\ Len(history') = Len(history)
    BY <1>1, <1>2, <1>4, <2>1
  <2>3. \A i \in 1..Len(history') : history'[i] = published' - Len(history') + i
    <3> SUFFICES ASSUME NEW i \in 1..Len(history')
                 PROVE  history'[i] = published' - Len(history') + i
      OBVIOUS
    <3>1. /\ i + 1 \in 1..Len(h) /\ history'[i] = h[i + 1]
          /\ Len(history') = Len(h) - 1 /\ Len(h) \in Nat
      BY <1>1, <1>2, <2>1, <2>2
    <3>2. h[i + 1] = published' - Len(h) + (i + 1)
      BY <1>3, <3>1
    <3>3. published' \in Int /\ i \in Int
      BY <1>1
    <3> QED BY <3>1, <3>2, <3>3
  <2>4. RingIsRecent' /\ RingIsFull'
    BY <2>2, <2>3 DEF RingIsRecent, RingIsFull
  <2>5. Len(history') <= Ring /\ Len(history') <= published'
    <3> QED BY <1>1, <2>2
  <2>6. history' \in Seq(Bus!Events)
    BY <2>1
  <2> QED BY <2>4, <2>5, <2>6
<1>5. CASE ~(Len(h) > Ring)
  <2>1. history' = h
    BY <1>1, <1>5
  <2>2. Len(history) < Ring
    BY <1>1, <1>2, <1>5
  <2>3. Len(history) = published
    BY <2>2, <1>1 DEF BusInv, RingIsFull
  <2> QED BY <1>1, <1>2, <1>3, <1>5, <2>1, <2>3 DEF RingIsRecent, RingIsFull
<1> QED BY <1>4, <1>5

LEMMA BusNext ==
    ASSUME Bus!EventBusAssumption, BusInv, [Bus!Next]_Bus!vars
    PROVE  BusInv'
<1> USE DEF BusInv
<1>1. CASE Bus!Publish
  <2>1. /\ published' = published + 1 /\ published \in Nat /\ published' \in 1..Jobs["bus"]
        /\ Jobs["bus"] \in Nat /\ StreamRoom \in Nat
    BY <1>1 DEF Bus!Publish, BusType, Bus!EventBusAssumption
  <2>2. \A s \in Streams : q'[s] \in Seq(Bus!Events) /\ Len(q'[s]) <= StreamRoom
    <3> SUFFICES ASSUME NEW s \in Streams
                 PROVE  q'[s] \in Seq(Bus!Events) /\ Len(q'[s]) <= StreamRoom
      OBVIOUS
    <3>1. q[s] \in Seq(Bus!Events) /\ Len(q[s]) <= StreamRoom /\ Len(q[s]) \in Nat
      BY LenProperties DEF BusType
    <3>2. q'[s] = q[s] \/ (q'[s] = Append(q[s], published') /\ Len(q[s]) < StreamRoom)
      BY <1>1 DEF Bus!Publish
    <3>3. /\ Append(q[s], published') \in Seq(Bus!Events)
          /\ Len(Append(q[s], published')) = Len(q[s]) + 1
      BY <2>1, <3>1, AppendProperties DEF Bus!Events
    <3> QED BY <2>1, <3>1, <3>2, <3>3
  <2>3. q' \in [Streams -> Seq(Bus!Events)]
    <3>1. q' = [s \in Streams |-> q'[s]]
      BY <1>1 DEF Bus!Publish
    <3> QED BY <3>1, <2>2
  <2>4. dropped' \in [Streams -> SUBSET Bus!Events]
    BY <1>1, <2>1 DEF Bus!Publish, BusType, Bus!Events
  <2>5. /\ between' \in [Streams -> 0..Jobs["bus"]]
        /\ \A s \in Streams : between'[s] <= published'
    BY <1>1, <2>1 DEF Bus!Publish, BusType
  <2>6. UNCHANGED <<stage, replay, written>>
    BY <1>1 DEF Bus!Publish
  <2> QED BY <1>1, <2>1, <2>2, <2>3, <2>4, <2>5, <2>6, PublishRing DEF BusType
<1>2. ASSUME NEW s \in Streams,
             Bus!Subscribe(s) \/ Bus!Copy(s) \/ Bus!Replay(s) \/ Bus!Stream(s) \/ Bus!Close(s)
      PROVE  BusInv'
  <2>1. UNCHANGED <<published, history, dropped, between>>
    BY <1>2 DEF Bus!Subscribe, Bus!Copy, Bus!Replay, Bus!Stream, Bus!Close
  <2>2. RingIsRecent' /\ RingIsFull'
    BY <2>1 DEF RingIsRecent, RingIsFull
  <2>3. stage' \in [Streams -> {"new", "subscribed", "streaming", "closed"}]
    BY <1>2 DEF Bus!Subscribe, Bus!Copy, Bus!Replay, Bus!Stream, Bus!Close, BusType
  <2>4. /\ q[s] # <<>> => Head(q[s]) \in Bus!Events /\ Tail(q[s]) \in Seq(Bus!Events)
                          /\ Len(Tail(q[s])) = Len(q[s]) - 1
        /\ replay[s] # <<>> => Head(replay[s]) \in Bus!Events /\ Tail(replay[s]) \in Seq(Bus!Events)
        /\ Len(q[s]) \in Nat /\ StreamRoom \in Nat
    BY HeadTailProperties, LenProperties DEF BusType, Bus!EventBusAssumption
  <2>5. /\ q' \in [Streams -> Seq(Bus!Events)]
        /\ \A t \in Streams : Len(q'[t]) <= StreamRoom
    <3>1. CASE UNCHANGED q
      BY <3>1 DEF BusType
    <3>2. CASE Bus!Stream(s)
      BY <3>2, <2>4 DEF Bus!Stream, BusType
    <3>3. CASE Bus!Close(s)
      BY <3>3, <2>4, EmptySeq DEF Bus!Close, BusType
    <3> QED BY <1>2, <3>1, <3>2, <3>3 DEF Bus!Subscribe, Bus!Copy, Bus!Replay
  <2>6. replay' \in [Streams -> Seq(Bus!Events)]
    BY <1>2, <2>4 DEF Bus!Subscribe, Bus!Copy, Bus!Replay, Bus!Stream, Bus!Close, BusType
  <2>7. written' \in [Streams -> Seq(Bus!Events)]
    <3>1. /\ replay[s] # <<>> => Append(written[s], Head(replay[s])) \in Seq(Bus!Events)
          /\ q[s] # <<>> => Append(written[s], Head(q[s])) \in Seq(Bus!Events)
      BY <2>4, AppendProperties DEF BusType
    <3> QED BY <1>2, <3>1 DEF Bus!Subscribe, Bus!Copy, Bus!Replay, Bus!Stream, Bus!Close, BusType
  <2> QED BY <2>1, <2>2, <2>3, <2>5, <2>6, <2>7 DEF BusType
<1>3. CASE UNCHANGED Bus!vars
  BY <1>3 DEF Bus!vars, BusType, RingIsRecent, RingIsFull
<1> QED BY <1>1, <1>2, <1>3 DEF Bus!Next

\* Every variable has its type; the ring and the queues keep to their sizes.
THEOREM BusTypeCorrect == Bus!EventBusAssumption => (Bus!Spec => []Bus!TypeOK)
<1>1. Bus!EventBusAssumption /\ BusInv => Bus!TypeOK
  BY DEF Bus!EventBusAssumption, BusInv, BusType, Bus!TypeOK
<1> SUFFICES ASSUME Bus!EventBusAssumption PROVE Bus!Spec => []Bus!TypeOK
  OBVIOUS
<1> QED BY <1>1, BusInit, BusNext, PTL DEF Bus!Spec

-----------------------------------------------------------------------------
(* The streams *)

LEMMA TaleType ==
    ASSUME BusInv, NEW s \in Streams
    PROVE  /\ Tale(s) \in Seq(Bus!Events) /\ replay[s] \o q[s] \in Seq(Bus!Events)
           /\ written[s] \in Seq(Bus!Events) /\ replay[s] \in Seq(Bus!Events)
              /\ q[s] \in Seq(Bus!Events)
           /\ Len(written[s]) \in Nat /\ Len(replay[s]) \in Nat /\ Len(q[s]) \in Nat
           /\ Len(Tale(s)) \in Nat
           /\ (written[s] = <<>> /\ replay[s] = <<>>) => Tale(s) = q[s]
           /\ published \in Nat /\ between[s] \in Nat
<1>1. /\ written[s] \in Seq(Bus!Events) /\ replay[s] \in Seq(Bus!Events) /\ q[s] \in Seq(Bus!Events)
      /\ published \in 0..Jobs["bus"] /\ between[s] \in 0..Jobs["bus"]
  BY DEF BusInv, BusType
<1>2. /\ replay[s] \o q[s] \in Seq(Bus!Events) /\ Tale(s) \in Seq(Bus!Events)
  BY <1>1, ConcatProperties DEF Tale
<1>3. (written[s] = <<>> /\ replay[s] = <<>>) => Tale(s) = q[s]
  BY <1>1, ConcatEmptySeq DEF Tale
<1>4. published \in Nat /\ between[s] \in Nat
  BY <1>1
<1> QED BY <1>1, <1>2, <1>3, <1>4, LenProperties

\* A stream that does not move is not disturbed by one that does.
LEMMA OthersStand ==
    ASSUME NEW t \in Streams, Fine(t), published' = published,
           stage'[t] = stage[t], q'[t] = q[t], replay'[t] = replay[t],
           written'[t] = written[t], dropped'[t] = dropped[t], between'[t] = between[t]
    PROVE  Fine(t)'
<1>1. Tale(t)' = Tale(t) /\ Base(t)' = Base(t)
  BY DEF Tale, Base
<1>2. Waiting(t)'
  BY DEF Fine, Waiting
<1>3. Told(t)'
  BY <1>1 DEF Fine, Told
<1>4. Ordered(t)'
  BY <1>1 DEF Fine, Ordered
<1> QED BY <1>2, <1>3, <1>4 DEF Fine

LEMMA StreamPublishes ==
    ASSUME Bus!EventBusAssumption, BusInv, Bus!Publish, NEW s \in Streams, Fine(s)
    PROVE  Fine(s)'
<1> DEFINE x == published + 1
<1>1. /\ published' = x /\ published \in Nat /\ x \in Bus!Events /\ x \in Nat
      /\ stage' = stage /\ replay' = replay /\ written' = written
  BY DEF Bus!Publish, BusInv, BusType, Bus!Events, Bus!EventBusAssumption
<1>2. /\ \/ q'[s] = q[s] /\ (Bus!Subscribed(s) => x \in dropped'[s])
         \/ q'[s] = Append(q[s], x) /\ Bus!Subscribed(s)
      /\ dropped[s] \subseteq dropped'[s]
  <2>1. Len(q[s]) <= StreamRoom /\ Len(q[s]) \in Nat /\ StreamRoom \in Nat
    BY TaleType DEF BusInv, BusType, Bus!EventBusAssumption
  <2> QED BY <1>1, <2>1 DEF Bus!Publish
<1>3. between'[s] = IF stage[s] = "subscribed" THEN between[s] + 1 ELSE between[s]
  BY DEF Bus!Publish
<1> HIDE DEF x
<1>4. /\ \A i \in 1..Len(q[s]) : Append(q[s], x)[i] = q[s][i]
      /\ Len(Append(q[s], x)) = Len(q[s]) + 1
      /\ Append(q[s], x)[Len(q[s]) + 1] = x
  BY <1>1, TaleType, AppendProperties
<1>5. Waiting(s)'
  <2> SUFFICES ASSUME stage[s] \in {"new", "subscribed"}
               PROVE  Waiting(s)'
    BY <1>1 DEF Waiting
  <2>1. /\ written[s] = <<>> /\ replay[s] = <<>>
        /\ \A i \in 1..Len(q[s]) : published - between[s] < q[s][i]
        /\ \A i, j \in 1..Len(q[s]) : i < j => q[s][i] < q[s][j]
    BY DEF Fine, Waiting
  <2>2. \A i \in 1..Len(q[s]) : q[s][i] <= published
    BY <2>1, TaleType DEF Fine, Ordered
  <2>3. CASE stage[s] = "new"
    <3>1. q'[s] = q[s] /\ q[s] = <<>> /\ between'[s] = 0
      BY <1>2, <1>3, <2>3 DEF Fine, Waiting, Bus!Subscribed
    <3>2. Len(q'[s]) = 0
      BY <3>1
    <3> QED BY <1>1, <2>1, <3>1, <3>2 DEF Waiting
  <2>4. CASE stage[s] = "subscribed"
    <3>1. published' - between'[s] = published - between[s] /\ between[s] \in Nat
      <4>1. between[s] \in Nat
        BY TaleType
      <4> QED BY <1>1, <1>3, <2>4, <4>1 DEF x
    <3>2. CASE q'[s] = q[s]
      BY <1>1, <2>1, <2>4, <3>1, <3>2 DEF Waiting
    <3>3. CASE q'[s] = Append(q[s], x)
      <4>1. \A i \in 1..Len(q'[s]) : i \in 1..Len(q[s]) \/ (i = Len(q[s]) + 1 /\ q'[s][i] = x)
        BY <1>4, <3>3, TaleType
      <4>2. \A i \in 1..Len(q'[s]) : published' - between'[s] < q'[s][i]
        <5>1. published - between[s] < x
          BY <1>1, <3>1 DEF x
        <5> QED BY <1>4, <2>1, <3>1, <3>3, <4>1, <5>1
      <4>3. \A i, j \in 1..Len(q'[s]) : i < j => q'[s][i] < q'[s][j]
        <5> SUFFICES ASSUME NEW i \in 1..Len(q'[s]), NEW j \in 1..Len(q'[s]), i < j
                     PROVE  q'[s][i] < q'[s][j]
          OBVIOUS
        <5>1. i \in 1..Len(q[s]) /\ q'[s][i] = q[s][i] /\ q[s][i] \in Nat /\ q[s][i] < x
          <6>1. i \in 1..Len(q[s])
            BY <4>1, <1>4, <3>3, TaleType
          <6>2. q[s][i] \in Bus!Events /\ q[s][i] <= published
            BY <6>1, <2>2, TaleType, ElementOfSeq
          <6> QED BY <6>1, <6>2, <1>1, <1>4, <3>3 DEF Bus!Events, x
        <5>2. CASE j = Len(q[s]) + 1
          BY <5>1, <5>2, <4>1, <1>4, <3>3
        <5>3. CASE j \in 1..Len(q[s])
          BY <5>1, <5>3, <2>1, <1>4, <3>3
        <5> QED BY <4>1, <5>2, <5>3
      <4> QED BY <1>1, <2>1, <2>4, <4>2, <4>3 DEF Waiting
    <3> QED BY <1>2, <3>2, <3>3
  <2> QED BY <2>3, <2>4
<1>6. Told(s)'
  <2> SUFFICES ASSUME stage[s] = "streaming", NEW e \in Bus!Events, Base(s) <= e, e <= x
               PROVE  \/ Bus!InSeq(e, written[s]) \/ Bus!InSeq(e, replay[s]) \/ Bus!InSeq(e, q'[s])
                      \/ e \in dropped'[s]
    <3>1. Base(s)' = Base(s)
      BY <1>1 DEF Base
    <3> QED BY <1>1, <3>1 DEF Told
  <2>1. Bus!InSeq(e, q[s]) \/ e = x => Bus!InSeq(e, q'[s]) \/ e \in dropped'[s]
    <3>1. q[s] \in Seq(Bus!Events)
      BY TaleType
    <3>2. Bus!InSeq(e, Append(q[s], x)) <=> (Bus!InSeq(e, q[s]) \/ e = x)
      BY <1>1, <3>1, InAppend
    <3> QED BY <1>2, <3>2 DEF Bus!Subscribed
  <2>2. e # x => e <= published
    BY <1>1 DEF x, Bus!Events
  <2> QED BY <1>2, <2>1, <2>2 DEF Fine, Told
<1>7. Ordered(s)'
  <2>1. CASE q'[s] = q[s]
    <3>1. Tale(s)' = Tale(s)
      BY <1>1, <2>1 DEF Tale
    <3>2. \A i \in 1..Len(Tale(s)) : Tale(s)[i] <= published'
      <4> TAKE i \in 1..Len(Tale(s))
      <4>1. Tale(s)[i] \in Bus!Events /\ Tale(s)[i] <= published
        BY TaleType, ElementOfSeq DEF Fine, Ordered
      <4> QED BY <4>1, <1>1 DEF x, Bus!Events
    <3> QED BY <1>1, <1>3, <3>1, <3>2 DEF Fine, Ordered
  <2>2. CASE q'[s] = Append(q[s], x)
    <3>1. Tale(s)' = Append(Tale(s), x)
      <4>1. /\ written[s] \in Seq(Bus!Events) /\ replay[s] \in Seq(Bus!Events)
               /\ q[s] \in Seq(Bus!Events)
        BY TaleType
      <4>2. written[s] \o (replay[s] \o Append(q[s], x)) = Append(Tale(s), x)
        BY <1>1, <4>1, LastMoves DEF Tale
      <4> QED BY <1>1, <2>2, <4>2 DEF Tale
    <3>2. \A i \in 1..Len(Tale(s)) : Tale(s)[i] < x
      <4> TAKE i \in 1..Len(Tale(s))
      <4>1. Tale(s)[i] \in Bus!Events /\ Tale(s)[i] <= published
        BY TaleType, ElementOfSeq DEF Fine, Ordered
      <4> QED BY <4>1, <1>1 DEF x, Bus!Events
    <3>3. Sound(Tale(s)) => Sound(Append(Tale(s), x))
      BY <1>1, <3>2, TaleType, SoundAppend
    <3>4. \A i \in 1..Len(Append(Tale(s), x)) : Append(Tale(s), x)[i] <= x
      <4> TAKE i \in 1..Len(Append(Tale(s), x))
      <4>1. /\ Len(Append(Tale(s), x)) = Len(Tale(s)) + 1
               /\ Append(Tale(s), x)[Len(Tale(s)) + 1] = x
            /\ \A k \in 1..Len(Tale(s)) : Append(Tale(s), x)[k] = Tale(s)[k]
        BY <1>1, TaleType, AppendProperties
      <4>2. CASE i = Len(Tale(s)) + 1
        BY <1>1, <4>1, <4>2
      <4>3. CASE i \in 1..Len(Tale(s))
        <5>1. Tale(s)[i] \in Nat /\ Tale(s)[i] < x
          <6>1. Tale(s) \in Seq(Bus!Events)
            BY TaleType
          <6>2. Tale(s)[i] \in Bus!Events
            BY <4>3, <6>1, ElementOfSeq
          <6> QED BY <3>2, <4>3, <6>2 DEF Bus!Events
        <5> QED BY <1>1, <4>1, <4>3, <5>1
      <4> QED BY <4>1, <4>2, <4>3, TaleType
    <3> QED BY <1>1, <1>3, <3>1, <3>3, <3>4 DEF Fine, Ordered
  <2> QED BY <1>2, <2>1, <2>2
<1> QED BY <1>5, <1>6, <1>7 DEF Fine

\* The copy of the ring goes before the queue.
LEMMA StreamCopies ==
    ASSUME Bus!EventBusAssumption, BusInv, NEW s \in Streams, Bus!Copy(s), Fine(s)
    PROVE  Fine(s)'
<1>1. /\ stage[s] = "subscribed" /\ stage'[s] = "streaming" /\ replay'[s] = history
      /\ UNCHANGED <<published, history, q, written, dropped, between>>
  BY DEF Bus!Copy, BusInv, BusType
<1>2. /\ written[s] = <<>> /\ replay[s] = <<>>
      /\ \A i \in 1..Len(q[s]) : published - between[s] < q[s][i]
      /\ \A i, j \in 1..Len(q[s]) : i < j => q[s][i] < q[s][j]
  BY <1>1 DEF Fine, Waiting
<1>3. /\ published \in Nat /\ between[s] \in Nat /\ history \in Seq(Bus!Events)
         /\ q[s] \in Seq(Bus!Events)
      /\ Len(history) \in Nat /\ Len(q[s]) \in Nat /\ Len(history) <= published
      /\ Ring \in Nat \ {0}
      /\ \A i \in 1..Len(history) : history[i] = published - Len(history) + i
      /\ Len(history) = Ring \/ Len(history) = published
  BY TaleType, LenProperties
  DEF Bus!EventBusAssumption, BusInv, BusType, RingIsRecent, RingIsFull
<1>4. \A i \in 1..Len(q[s]) : q[s][i] <= published /\ q[s][i] \in Nat
  <2>1. \A i \in 1..Len(q[s]) : q[s][i] \in Bus!Events
    BY <1>3, ElementOfSeq
  <2> QED BY <1>2, <2>1, TaleType DEF Fine, Ordered, Bus!Events
<1>5. \A e \in Nat : (published - Len(history) < e /\ e <= published) =>
          \E i \in 1..Len(history) : history[i] = e
  <2> SUFFICES ASSUME NEW e \in Nat, published - Len(history) < e, e <= published
               PROVE  \E i \in 1..Len(history) : history[i] = e
    OBVIOUS
  <2>1. e - (published - Len(history)) \in 1..Len(history)
    BY <1>3
  <2>2. history[e - (published - Len(history))] = e
    BY <1>3, <2>1
  <2> QED BY <2>1, <2>2
<1>6. Told(s)'
  <2> SUFFICES ASSUME NEW e \in Bus!Events, Base(s)' <= e, e <= published
               PROVE  Bus!InSeq(e, replay'[s])
    BY <1>1 DEF Told
  <2>1. Base(s)' = IF history # <<>> THEN history[1] ELSE 1
    BY <1>1, <1>2 DEF Base
  <2>2. history # <<>>
    <3>1. history = <<>> => Len(history) = 0
      OBVIOUS
    <3> QED BY <1>3, <2>1, <3>1 DEF Bus!Events
  <2>3. Len(history) # 0
    BY <1>3, <2>2, EmptySeq
  <2>4. history[1] = published - Len(history) + 1
    BY <1>3, <2>3
  <2>5. \E i \in 1..Len(history) : history[i] = e
    <3>1. e \in Nat /\ published - Len(history) < e
      BY <1>3, <2>1, <2>2, <2>4 DEF Bus!Events
    <3> QED BY <1>5, <3>1
  <2>6. DOMAIN history = 1..Len(history)
    BY <1>3, LenProperties
  <2> QED BY <1>1, <2>5, <2>6 DEF Bus!InSeq
<1> DEFINE t == history \o q[s]
<1>7. /\ Tale(s)' = t /\ t \in Seq(Bus!Events) /\ Len(t) = Len(history) + Len(q[s])
      /\ \A i \in 1..Len(history) : t[i] = history[i]
      /\ \A i \in 1..Len(t) : i > Len(history) => t[i] = q[s][i - Len(history)]
  <2>1. /\ t \in Seq(Bus!Events) /\ Len(t) = Len(history) + Len(q[s])
        /\ \A i \in 1..(Len(history) + Len(q[s])) : t[i] =
               IF i <= Len(history) THEN history[i] ELSE q[s][i - Len(history)]
    BY <1>3, ConcatProperties
  <2>2. Tale(s)' = <<>> \o t
    BY <1>1, <1>2 DEF Tale
  <2>3. Tale(s)' = t
    BY <2>1, <2>2, ConcatEmptySeq
  <2> HIDE DEF t
  <2>4. \A i \in 1..Len(history) : t[i] = history[i]
    BY <1>3, <2>1
  <2>5. \A i \in 1..Len(t) : i > Len(history) => t[i] = q[s][i - Len(history)]
    BY <1>3, <2>1
  <2> QED BY <2>1, <2>3, <2>4, <2>5
<1> HIDE DEF t
<1>8. \A i \in 1..Len(t) : IF i <= Len(history)
                           THEN i \in 1..Len(history) /\ t[i] = published - Len(history) + i
                           ELSE i - Len(history) \in 1..Len(q[s]) /\ t[i] = q[s][i - Len(history)]
  <2> TAKE i \in 1..Len(t)
  <2>1. CASE i <= Len(history)
    <3>1. i \in 1..Len(history)
      BY <1>3, <2>1
    <3> QED BY <1>3, <1>7, <2>1, <3>1
  <2>2. CASE ~(i <= Len(history))
    <3>1. i - Len(history) \in 1..Len(q[s]) /\ i > Len(history)
      BY <1>3, <1>7, <2>2
    <3> QED BY <1>7, <2>2, <3>1
  <2> QED BY <2>1, <2>2
<1>9. \A i \in 1..Len(t) : t[i] \in Nat /\ t[i] <= published
  <2> TAKE i \in 1..Len(t)
  <2>1. CASE i <= Len(history)
    BY <1>3, <1>8, <2>1
  <2>2. CASE ~(i <= Len(history))
    BY <1>3, <1>4, <1>8, <2>2
  <2> QED BY <2>1, <2>2
<1>10. between[s] <= Ring => Sound(t)
  <2> SUFFICES ASSUME between[s] <= Ring, NEW i \in 1..Len(t), NEW j \in 1..Len(t),
                      i < j, t[j] <= t[i]
               PROVE  \E k \in 1..(j - 1) : t[k] = t[j]
    BY DEF Sound
  <2>1. ~(j <= Len(history))
    <3> SUFFICES ASSUME j <= Len(history) PROVE FALSE
      OBVIOUS
    <3>1. i <= Len(history)
      BY <1>3
    <3>2. t[i] = published - Len(history) + i /\ t[j] = published - Len(history) + j
      BY <1>8, <3>1
    <3> QED BY <1>3, <3>2
  <2>2. i <= Len(history)
    <3> SUFFICES ASSUME ~(i <= Len(history)) PROVE FALSE
      OBVIOUS
    <3>1. /\ i - Len(history) \in 1..Len(q[s]) /\ j - Len(history) \in 1..Len(q[s])
          /\ t[i] = q[s][i - Len(history)] /\ t[j] = q[s][j - Len(history)]
          /\ i - Len(history) < j - Len(history)
      BY <1>3, <1>8, <2>1
    <3>2. t[i] < t[j]
      BY <1>2, <3>1
    <3> QED BY <1>9, <3>2
  <2>3. published - between[s] < t[j]
    BY <1>2, <1>8, <2>1
  <2>4. published - Len(history) < t[j]
    <3>1. t[j] \in Nat /\ between[s] <= published
      BY <1>9 DEF BusInv, BusType
    <3> QED BY <1>3, <2>3, <3>1
  <2>5. PICK k \in 1..Len(history) : history[k] = t[j]
    BY <1>5, <1>9, <2>4
  <2> QED BY <1>3, <1>7, <2>1, <2>5
<1>11. Ordered(s)'
  BY <1>1, <1>7, <1>9, <1>10 DEF Ordered
<1>12. Waiting(s)'
  BY <1>1 DEF Waiting
<1> QED BY <1>6, <1>11, <1>12 DEF Fine

\* An event is written: the tale as a whole stays what it was.
LEMMA StreamWrites ==
    ASSUME BusInv, NEW s \in Streams, Bus!Replay(s) \/ Bus!Stream(s), Fine(s)
    PROVE  Fine(s)'
<1> DEFINE r == IF replay[s] # <<>> THEN replay[s] ELSE q[s]
<1>1. /\ stage[s] = "streaming" /\ r # <<>> /\ written'[s] = Append(written[s], Head(r))
      /\ UNCHANGED <<published, stage, dropped, between>>
      /\ \/ replay[s] # <<>> /\ replay'[s] = Tail(r) /\ q' = q
         \/ replay[s] = <<>> /\ q'[s] = Tail(r) /\ replay' = replay
  BY DEF Bus!Replay, Bus!Stream, BusInv, BusType
<1>2. /\ written[s] \in Seq(Bus!Events) /\ replay[s] \in Seq(Bus!Events) /\ q[s] \in Seq(Bus!Events)
      /\ r \in Seq(Bus!Events)
  BY TaleType
<1>3. Head(r) \in Bus!Events /\ Head(r) = r[1] /\ Tail(r) \in Seq(Bus!Events)
  BY <1>1, <1>2, HeadTailProperties
<1>4. Tale(s)' = Tale(s)
  <2>1. CASE replay[s] # <<>>
    <3>1. r = replay[s]
      BY <2>1
    <3>2. Append(written[s], Head(replay[s])) \o (Tail(replay[s]) \o q[s])
              = written[s] \o (replay[s] \o q[s])
      BY <1>2, <2>1, HeadMoves
    <3> QED BY <1>1, <2>1, <3>1, <3>2 DEF Tale
  <2>2. CASE replay[s] = <<>>
    <3>1. r = q[s] /\ <<>> \o q[s] = q[s] /\ <<>> \o Tail(q[s]) = Tail(q[s])
          /\ Tail(q[s]) \o <<>> = Tail(q[s]) /\ q[s] \o <<>> = q[s]
      BY <1>2, <1>3, <2>2, ConcatEmptySeq
    <3>2. Append(written[s], Head(q[s])) \o (Tail(q[s]) \o <<>>) = written[s] \o (q[s] \o <<>>)
      BY <1>1, <1>2, <3>1, HeadMoves, EmptySeq
    <3>3. Append(written[s], Head(q[s])) \o Tail(q[s]) = written[s] \o q[s]
      BY <3>1, <3>2
    <3> QED BY <1>1, <2>2, <3>1, <3>3 DEF Tale
  <2> QED BY <2>1, <2>2
<1> HIDE DEF r
<1>5. Told(s)'
  <2>1. \A e \in Bus!Events : /\ Bus!InSeq(e, written'[s])
                                 <=> (Bus!InSeq(e, written[s]) \/ e = Head(r))
                              /\ Bus!InSeq(e, r) <=> (Bus!InSeq(e, Tail(r)) \/ e = Head(r))
    BY <1>1, <1>2, <1>3, InAppend, InTail
  <2>2. \A e \in Bus!Events :
            (Bus!InSeq(e, written[s]) \/ Bus!InSeq(e, replay[s]) \/ Bus!InSeq(e, q[s])) =>
            (Bus!InSeq(e, written'[s]) \/ Bus!InSeq(e, replay'[s]) \/ Bus!InSeq(e, q'[s]))
    <3>1. CASE replay[s] # <<>>
      BY <1>1, <2>1, <3>1 DEF r
    <3>2. CASE replay[s] = <<>>
      BY <1>1, <2>1, <3>2 DEF r
    <3> QED BY <3>1, <3>2
  <2>3. \A e \in Bus!Events : Base(s)' <= e => Base(s) <= e
    <3>1. /\ Len(written[s]) \in Nat /\ Len(written'[s]) = Len(written[s]) + 1
          /\ written'[s] # <<>>
          /\ \A i \in 1..Len(written[s]) : written'[s][i] = written[s][i]
          /\ written'[s][Len(written[s]) + 1] = Head(r)
      BY <1>1, <1>2, <1>3, AppendProperties, LenProperties
    <3>2. CASE written[s] # <<>>
      <4>1. 1 \in 1..Len(written[s])
        BY <1>2, <3>2, EmptySeq
      <4> QED BY <3>1, <3>2, <4>1 DEF Base
    <3>3. CASE written[s] = <<>>
      <4>1. Len(written[s]) = 0
        BY <3>3
      <4>2. Base(s)' = Head(r)
        BY <3>1, <4>1 DEF Base
      <4>3. Base(s) = IF replay[s] # <<>> THEN Head(r) ELSE 1
        BY <1>3, <3>3 DEF Base, r
      <4> QED BY <1>3, <4>2, <4>3 DEF Bus!Events
    <3> QED BY <3>2, <3>3
  <2> QED BY <1>1, <2>2, <2>3 DEF Fine, Told
<1>6. Ordered(s)' /\ Waiting(s)'
  BY <1>1, <1>4 DEF Fine, Ordered, Waiting
<1> QED BY <1>5, <1>6 DEF Fine

\* The rest of the queue goes with the client.
LEMMA StreamCloses ==
    ASSUME BusInv, NEW s \in Streams, Bus!Close(s), Fine(s)
    PROVE  Fine(s)'
<1>1. /\ stage[s] \in {"subscribed", "streaming"} /\ stage'[s] = "closed" /\ q'[s] = <<>>
      /\ UNCHANGED <<published, replay, written, between>>
  BY DEF Bus!Close, Bus!Subscribed, BusInv, BusType
<1>2. /\ written[s] \in Seq(Bus!Events) /\ replay[s] \in Seq(Bus!Events) /\ q[s] \in Seq(Bus!Events)
      /\ written[s] \o replay[s] \in Seq(Bus!Events)
  BY TaleType, ConcatProperties
<1>3. Tale(s)' = written[s] \o replay[s]
  BY <1>1, <1>2, ConcatEmptySeq DEF Tale
<1>4. Tale(s) = (written[s] \o replay[s]) \o q[s]
  <2>1. (written[s] \o replay[s]) \o q[s] = written[s] \o (replay[s] \o q[s])
    BY <1>2, Regroup
  <2> QED BY <2>1 DEF Tale
<1> DEFINE w == written[s] \o replay[s]
<1>5. /\ Len(w \o q[s]) = Len(w) + Len(q[s]) /\ Len(w) \in Nat /\ Len(q[s]) \in Nat
      /\ \A i \in 1..Len(w) : (w \o q[s])[i] = w[i]
  <2> HIDE DEF w
  <2>1. w \in Seq(Bus!Events) /\ q[s] \in Seq(Bus!Events)
    BY <1>2 DEF w
  <2> QED BY <2>1, ConcatProperties, LenProperties
<1>6. Sound(Tale(s)) => Sound(w)
  BY <1>2, <1>4, SoundBeginning
<1> HIDE DEF w
<1>7. between[s] <= Ring => Sound(w)
  <2>1. CASE stage[s] = "streaming"
    BY <1>6, <2>1 DEF Fine, Ordered
  <2>2. CASE stage[s] = "subscribed"
    <3>1. w = <<>>
      BY <2>2, <1>2, ConcatEmptySeq, EmptySeq DEF Fine, Waiting, w
    <3> QED BY <3>1 DEF Sound
  <2> QED BY <1>1, <2>1, <2>2
<1>8. \A i \in 1..Len(w) : w[i] <= published
  <2> TAKE i \in 1..Len(w)
  <2>1. i \in 1..Len(Tale(s)) /\ Tale(s)[i] = w[i]
    <3>1. Tale(s) = w \o q[s]
      BY <1>4 DEF w
    <3>2. i \in 1..(Len(w) + Len(q[s]))
      BY <1>5
    <3> QED BY <1>5, <3>1, <3>2
  <2> QED BY <2>1 DEF Fine, Ordered
<1>9. Ordered(s)'
  BY <1>1, <1>3, <1>7, <1>8 DEF Ordered, w
<1>10. Told(s)' /\ Waiting(s)'
  BY <1>1 DEF Told, Waiting
<1> QED BY <1>9, <1>10 DEF Fine

LEMMA StreamInit == Bus!EventBusAssumption /\ Bus!Init => StreamInv
<1> SUFFICES ASSUME Bus!EventBusAssumption, Bus!Init, NEW s \in Streams PROVE Fine(s)
  BY DEF StreamInv
<1>1. /\ stage[s] = "new" /\ q[s] = <<>> /\ replay[s] = <<>> /\ written[s] = <<>> /\ between[s] = 0
  BY DEF Bus!Init
<1>2. Tale(s) = <<>> /\ Len(q[s]) = 0 /\ Len(Tale(s)) = 0
  <2>1. Tale(s) = <<>>
    BY <1>1, BusInit, TaleType
  <2> QED BY <1>1, <2>1
<1>3. Waiting(s) /\ Told(s) /\ Ordered(s)
  BY <1>1, <1>2 DEF Waiting, Told, Ordered
<1> QED BY <1>3 DEF Fine

LEMMA StreamNext ==
    ASSUME Bus!EventBusAssumption, BusInv, StreamInv, [Bus!Next]_Bus!vars
    PROVE  StreamInv'
<1>1. CASE Bus!Publish
  BY <1>1, StreamPublishes DEF StreamInv
<1>2. ASSUME NEW s \in Streams,
             Bus!Subscribe(s) \/ Bus!Copy(s) \/ Bus!Replay(s) \/ Bus!Stream(s) \/ Bus!Close(s)
      PROVE  StreamInv'
  <2> SUFFICES ASSUME NEW t \in Streams PROVE Fine(t)'
    BY DEF StreamInv
  <2>1. CASE t # s
    <3>1. /\ published' = published /\ stage'[t] = stage[t] /\ q'[t] = q[t]
          /\ replay'[t] = replay[t] /\ written'[t] = written[t]
          /\ dropped'[t] = dropped[t] /\ between'[t] = between[t]
      BY <1>2, <2>1 DEF Bus!Subscribe, Bus!Copy, Bus!Replay, Bus!Stream, Bus!Close, BusInv, BusType
    <3> QED BY <3>1, OthersStand DEF StreamInv
  <2>2. CASE Bus!Subscribe(t)
    <3>1. /\ stage[t] = "new" /\ stage'[t] = "subscribed"
          /\ UNCHANGED <<published, q, replay, written, between>>
      BY <2>2 DEF Bus!Subscribe, BusInv, BusType
    <3>2. Tale(t)' = Tale(t)
      BY <3>1 DEF Tale
    <3>3. Waiting(t)' /\ Told(t)' /\ Ordered(t)'
      BY <3>1, <3>2 DEF StreamInv, Fine, Waiting, Told, Ordered
    <3> QED BY <3>3 DEF Fine
  <2>3. CASE Bus!Copy(t)
    BY <2>3, StreamCopies DEF StreamInv
  <2>4. CASE Bus!Replay(t) \/ Bus!Stream(t)
    BY <2>4, StreamWrites DEF StreamInv
  <2>5. CASE Bus!Close(t)
    BY <2>5, StreamCloses DEF StreamInv
  <2> QED BY <1>2, <2>1, <2>2, <2>3, <2>4, <2>5
<1>3. CASE UNCHANGED Bus!vars
  BY <1>3, OthersStand DEF Bus!vars, StreamInv
<1> QED BY <1>1, <1>2, <1>3 DEF Bus!Next

\* The ring holds the last events, and what a stream has to tell is complete
\* and, but for repetitions, in its order: the inductive invariant.
THEOREM StreamInvariant == Bus!EventBusAssumption => (Bus!Spec => [](BusInv /\ StreamInv))
<1> SUFFICES ASSUME Bus!EventBusAssumption PROVE Bus!Spec => [](BusInv /\ StreamInv)
  OBVIOUS
<1>1. Bus!Init => BusInv /\ StreamInv
  BY BusInit, StreamInit
<1>2. BusInv /\ StreamInv /\ [Bus!Next]_Bus!vars => BusInv' /\ StreamInv'
  BY BusNext, StreamNext
<1> QED BY <1>1, <1>2, PTL DEF Bus!Spec

\* A stream has no gap, whatever the sizes of the ring and of its queue: each
\* event from its first one on is written, on its way, or was dropped.
THEOREM NoEventIsMissed == Bus!EventBusAssumption => (Bus!Spec => []Bus!NoGap)
<1>1. StreamInv => Bus!NoGap
  BY DEF StreamInv, Fine, Told, Base, Bus!NoGap
<1> QED BY <1>1, StreamInvariant, PTL

\* What a stream writes out of its order it wrote before, unless the ring turned
\* over between the subscription and the copy.
THEOREM EventsKeepTheirOrder == Bus!EventBusAssumption => (Bus!Spec => []Bus!OrderKept)
<1>1. ASSUME BusInv, StreamInv PROVE Bus!OrderKept
  <2> SUFFICES ASSUME NEW s \in Streams, between[s] <= Ring PROVE Sound(written[s])
    <3>1. \A s \in Streams : DOMAIN written[s] = 1..Len(written[s])
      BY <1>1, TaleType, LenProperties
    <3> QED BY <3>1 DEF Bus!OrderKept, Sound
  <2>1. CASE stage[s] \in {"new", "subscribed"}
    <3>1. written[s] = <<>>
      BY <1>1, <2>1 DEF StreamInv, Fine, Waiting
    <3> QED BY <3>1 DEF Sound
  <2>2. CASE stage[s] \in {"streaming", "closed"}
    <3>1. Sound(Tale(s))
      BY <1>1, <2>2 DEF StreamInv, Fine, Ordered
    <3> QED BY <1>1, <3>1, TaleType, SoundBeginning DEF Tale
  <2> QED BY <1>1, <2>1, <2>2 DEF BusInv, BusType
<1> QED BY <1>1, StreamInvariant, PTL

\* The PyQt window: a user who adds and clears at rest
PatientUser == Qt!QtQueueAssumption /\ ~Rough

-----------------------------------------------------------------------------
(* The PyQt window: filters of its list *)

\* A filter by position keeps elements of the sequence, each once, and all of
\* those it was to keep.
LEMMA FiltersKeep ==
    ASSUME NEW S, NEW s \in Seq(S), NEW I \in SUBSET DOMAIN s, NEW f \in Qt!InOrder(I)
    PROVE  /\ Cardinality(I) \in Nat /\ DOMAIN f = 1..Cardinality(I)
           /\ \A a \in DOMAIN f : f[a] \in I /\ f[a] \in DOMAIN s /\ s[f[a]] \in S
           /\ I = {} => DOMAIN f = {}
<1>1. DOMAIN s = 1..Len(s) /\ Len(s) \in Nat /\ \A i \in 1..Len(s) : s[i] \in S
  OBVIOUS
<1>2. IsFiniteSet(DOMAIN s) /\ I \subseteq DOMAIN s
  BY <1>1, FS_Interval
<1>3. Cardinality(I) \in Nat
  BY <1>2, FS_Subset, FS_CardinalityType
<1>4. f \in [1..Cardinality(I) -> I]
  BY SameCount DEF Qt!InOrder
<1>5. \A a \in DOMAIN f : f[a] \in I /\ f[a] \in DOMAIN s /\ s[f[a]] \in S
  BY <1>1, <1>4
<1>6. I = {} => DOMAIN f = {}
  BY <1>4
<1> QED BY <1>3, <1>4, <1>5, <1>6

-----------------------------------------------------------------------------
(* The PyQt window: types, and a file that waits *)

\* A conversion that was started is in its thread, or is followed by one question
\* or one timer at most.
Questions == {i \in DOMAIN dialogs : dialogs[i] = None}
Followed  == timers + Cardinality(Questions) + (IF thread = None THEN 0 ELSE 1) <= started

WindowType ==
    /\ entries \in Seq(Qt!Entry) /\ thread \in Qt!Thread \cup {None} /\ timers \in Nat
    /\ reported \in Qt!Files \cup {None} /\ dialogs \in Seq(Qt!Files \cup {None})
    /\ approved \in BOOLEAN /\ accepts \in BOOLEAN /\ crashed \in BOOLEAN
       /\ started \in 0..Jobs["qt"]

WindowInv == WindowType /\ Followed

LEMMA QuestionsCounted ==
    ASSUME WindowType
    PROVE  IsFiniteSet(Questions) /\ Questions \subseteq 1..Len(dialogs)
             /\ Cardinality(Questions) \in Nat
<1>1. DOMAIN dialogs = 1..Len(dialogs) /\ Len(dialogs) \in Nat
  BY DEF WindowType
<1>2. IsFiniteSet(1..Len(dialogs)) /\ Questions \subseteq 1..Len(dialogs)
  BY <1>1, FS_Interval DEF Questions
<1> QED BY <1>2, FS_Subset, FS_CardinalityType

\* A dialog more or less
LEMMA QuestionPut ==
    ASSUME WindowType, NEW d, dialogs' = Append(dialogs, d)
    PROVE  Cardinality(Questions') = Cardinality(Questions) + (IF d = None THEN 1 ELSE 0)
<1>1. /\ DOMAIN dialogs = 1..Len(dialogs) /\ Len(dialogs) \in Nat
      /\ DOMAIN dialogs' = 1..Len(dialogs) + 1 /\ dialogs'[Len(dialogs) + 1] = d
      /\ \A i \in 1..Len(dialogs) : dialogs'[i] = dialogs[i]
  BY DEF WindowType
<1>2. Questions' = IF d = None THEN Questions \cup {Len(dialogs) + 1} ELSE Questions
  BY <1>1 DEF Questions
<1>3. /\ IsFiniteSet(Questions) /\ Cardinality(Questions) \in Nat
      /\ Len(dialogs) + 1 \notin Questions
  BY <1>1, QuestionsCounted
<1>4. Cardinality(Questions \cup {Len(dialogs) + 1}) = Cardinality(Questions) + 1
  BY <1>3, FS_AddElement
<1> QED BY <1>2, <1>3, <1>4

LEMMA QuestionTaken ==
    ASSUME WindowType, dialogs # <<>>, dialogs' = Qt!Front(dialogs)
    PROVE  /\ dialogs' \in Seq(Qt!Files \cup {None}) /\ Len(dialogs') = Len(dialogs) - 1
           /\ \A i \in DOMAIN dialogs' : i \in DOMAIN dialogs /\ dialogs'[i] = dialogs[i]
           /\ Qt!Last(dialogs) \in Qt!Files \cup {None}
           /\ Cardinality(Questions') = Cardinality(Questions)
                - (IF Qt!Last(dialogs) = None THEN 1 ELSE 0)
<1>1. /\ DOMAIN dialogs = 1..Len(dialogs) /\ Len(dialogs) \in Nat \ {0}
      /\ \A i \in 1..Len(dialogs) : dialogs[i] \in Qt!Files \cup {None}
  BY DEF WindowType
<1>2. dialogs' = SubSeq(dialogs, 1, Len(dialogs) - 1) /\ Qt!Last(dialogs) = dialogs[Len(dialogs)]
  BY DEF Qt!Front, Qt!Last
<1>3. /\ dialogs' \in Seq(Qt!Files \cup {None}) /\ Len(dialogs') = Len(dialogs) - 1
      /\ \A i \in 1..Len(dialogs) - 1 : dialogs'[i] = dialogs[i]
  BY <1>1, <1>2 DEF WindowType
<1>4. DOMAIN dialogs' = 1..Len(dialogs) - 1
  BY <1>1, <1>3
<1>5. Questions' = IF Qt!Last(dialogs) = None THEN Questions \ {Len(dialogs)} ELSE Questions
  BY <1>1, <1>2, <1>3, <1>4 DEF Questions
<1>6. Qt!Last(dialogs) = None <=> Len(dialogs) \in Questions
  BY <1>1, <1>2 DEF Questions
<1>7. IsFiniteSet(Questions) /\ Cardinality(Questions) \in Nat
  BY QuestionsCounted
<1>8. ASSUME Qt!Last(dialogs) = None
      PROVE  Cardinality(Questions \ {Len(dialogs)}) = Cardinality(Questions) - 1
  BY <1>6, <1>7, <1>8, FS_RemoveElement
<1>9. Cardinality(Questions') = Cardinality(Questions) - (IF Qt!Last(dialogs) = None THEN 1 ELSE 0)
  BY <1>5, <1>7, <1>8
<1> QED BY <1>1, <1>2, <1>3, <1>4, <1>9

\* The first file that waits exists.
LEMMA FirstExists ==
    ASSUME NEW s \in Seq(Qt!Entry), Qt!PendingIn(s) # {}
    PROVE  (CHOOSE k \in Qt!PendingIn(s) : \A j \in Qt!PendingIn(s) : k <= j) \in Qt!PendingIn(s)
<1> DEFINE I == Qt!PendingIn(s)
           R == {ss \in Nat \X Nat : ss[1] < ss[2]}
<1>1. I \subseteq Nat /\ I # {}
  <2>1. DOMAIN s = 1..Len(s) /\ Len(s) \in Nat
    OBVIOUS
  <2> QED BY <2>1 DEF Qt!PendingIn
<1>2. IsWellFoundedOn(R, Nat)
  BY NatLessThanWellFounded DEF OpToRel
<1>3. \A x, y \in Nat : x < y => <<x, y>> \in R
  OBVIOUS
<1> HIDE DEF I, R
<1>4. PICK m \in I : \A y \in I : ~ (<<y, m>> \in R)
  BY <1>1, <1>2, WFMin
<1>5. \A y \in I : m <= y
  <2> TAKE y \in I
  <2>1. m \in Nat /\ y \in Nat /\ ~(y < m)
    BY <1>1, <1>3, <1>4
  <2> QED BY <2>1
<1>6. (CHOOSE k \in I : \A j \in I : k <= j) \in I
  BY <1>5
<1> QED BY <1>6 DEF I

\* _start_next_in_queue starts a file that waits, if there is one.
Starts(s, i) ==
    /\ entries' = [s EXCEPT ![i].status = "processing"]
    /\ thread' = [file |-> s[i].file, index |-> i, stage |-> "working",
                  decision |-> "none", cancelled |-> FALSE]
    /\ thread' \in Qt!Thread /\ thread' # None
    /\ crashed' = (thread # None) /\ started' = started + 1

LEMMA StartNextStep ==
    ASSUME Qt!QtQueueAssumption, WindowType, NEW s \in Seq(Qt!Entry), Qt!StartNext(s)
    PROVE  /\ entries' \in Seq(Qt!Entry) /\ thread' \in Qt!Thread \cup {None}
              /\ accepts' \in BOOLEAN
           /\ crashed' \in BOOLEAN /\ started' \in 0..Jobs["qt"]
           /\ \/ Qt!PendingIn(s) = {} /\ entries' = s /\ UNCHANGED <<thread, crashed, started>>
              \/ \E i \in Qt!PendingIn(s) : Starts(s, i)
<1>1. CASE Qt!PendingIn(s) = {}
  BY <1>1 DEF Qt!StartNext, WindowType
<1>2. CASE Qt!PendingIn(s) # {}
  <2> DEFINE i == CHOOSE k \in Qt!PendingIn(s) : \A j \in Qt!PendingIn(s) : k <= j
  <2>1. i \in Qt!PendingIn(s)
    BY <1>2, FirstExists
  <2>2. /\ started < Jobs["qt"] /\ started' = started + 1 /\ crashed' = (thread # None)
           /\ accepts' = FALSE
        /\ entries' = [s EXCEPT ![i].status = "processing"]
        /\ thread' = [file |-> s[i].file, index |-> i, stage |-> "working",
                      decision |-> "none", cancelled |-> FALSE]
    BY <1>2 DEF Qt!StartNext
  <2> HIDE DEF i
  <2>3. i \in 1..Len(s) /\ i \in Nat \ {0} /\ s[i] \in Qt!Entry
    BY <2>1 DEF Qt!PendingIn
  <2>4. thread' \in Qt!Thread /\ thread' # None
    <3>1. thread' \in Qt!Thread
      BY <2>2, <2>3 DEF Qt!Thread, Qt!Entry
    <3> QED BY <3>1 DEF Qt!QtQueueAssumption
  <2>5. entries' \in Seq(Qt!Entry)
    <3>1. [s[i] EXCEPT !.status = "processing"] \in Qt!Entry
      BY <2>3 DEF Qt!Entry
    <3>2. entries' = [s EXCEPT ![i] = [s[i] EXCEPT !.status = "processing"]]
      BY <2>2
    <3> QED BY <2>3, <3>1, <3>2, ExceptSeq
  <2>6. started' \in 0..Jobs["qt"]
    BY <2>2 DEF WindowType, Qt!QtQueueAssumption
  <2>7. Starts(s, i)
    BY <2>2, <2>4 DEF Starts
  <2> QED BY <2>1, <2>2, <2>4, <2>5, <2>6, <2>7
<1> QED BY <1>1, <1>2

\* add_files appends files that wait, and leaves the others as they were.
LEMMA DropAppends ==
    ASSUME Qt!QtQueueAssumption, WindowType, NEW s \in Seq(Qt!Files), Qt!OnFilesDropped(s)
    PROVE  \E t \in Seq(Qt!Entry) :
              /\ Qt!StartNext(t) /\ Len(entries) <= Len(t)
              /\ \A i \in 1..Len(entries) : t[i] = entries[i]
              /\ \A i \in 1..Len(t) : i > Len(entries)
                 => t[i].status = "pending" /\ t[i].result = None
<1> DEFINE I == {i \in DOMAIN s : \A k \in DOMAIN entries : entries[k].file # s[i]}
<1>1. PICK new \in Qt!InOrder(I) :
          Qt!StartNext(entries \o [i \in DOMAIN new |->
                        [file |-> s[new[i]], status |-> "pending", result |-> None]])
  BY DEF Qt!OnFilesDropped
<1> DEFINE appended == [i \in DOMAIN new |-> [file |-> s[new[i]], status |-> "pending",
                                              result |-> None]]
<1>2. /\ Cardinality(I) \in Nat /\ DOMAIN new = 1..Cardinality(I)
      /\ \A a \in DOMAIN new : s[new[a]] \in Qt!Files
  <2>1. I \in SUBSET DOMAIN s
    OBVIOUS
  <2> HIDE DEF I
  <2> QED BY <2>1, FiltersKeep
<1>3. appended \in Seq(Qt!Entry) /\ Len(appended) = Cardinality(I)
  <2>1. \A a \in DOMAIN new :
          [file |-> s[new[a]], status |-> "pending", result |-> None] \in Qt!Entry
    BY <1>2 DEF Qt!Entry
  <2>2. appended \in [1..Cardinality(I) -> Qt!Entry]
    BY <1>2, <2>1
  <2> HIDE DEF I, appended
  <2> QED BY <1>2, <2>2
<1>4. \A a \in 1..Len(appended) : appended[a].status = "pending" /\ appended[a].result = None
  <2>1. DOMAIN appended = DOMAIN new /\ 1..Len(appended) = DOMAIN new
    BY <1>2, <1>3
  <2> HIDE DEF I
  <2> QED BY <2>1
<1>5. Qt!StartNext(entries \o appended)
  BY <1>1
<1> HIDE DEF appended, I
<1>6. /\ entries \o appended \in Seq(Qt!Entry)
         /\ Len(entries \o appended) = Len(entries) + Len(appended)
      /\ \A i \in 1..Len(entries) : (entries \o appended)[i] = entries[i]
      /\ \A i \in 1..Len(entries) + Len(appended) :
             i > Len(entries) => (entries \o appended)[i] = appended[i - Len(entries)]
      /\ Len(entries) \in Nat /\ Len(appended) \in Nat
  <2>1. entries \in Seq(Qt!Entry) /\ appended \in Seq(Qt!Entry)
    BY <1>3 DEF WindowType
  <2> QED BY <2>1
<1>7. \A i \in 1..Len(entries) + Len(appended) :
          i > Len(entries) => /\ (entries \o appended)[i].status = "pending"
                              /\ (entries \o appended)[i].result = None
  <2> SUFFICES ASSUME NEW i \in 1..Len(entries) + Len(appended), i > Len(entries)
               PROVE  appended[i - Len(entries)].status = "pending"
                        /\ appended[i - Len(entries)].result = None
    BY <1>6
  <2>1. i - Len(entries) \in 1..Len(appended)
    BY <1>6
  <2> QED BY <1>4, <2>1
<1> DEFINE t == entries \o appended
<1>8. /\ t \in Seq(Qt!Entry) /\ Qt!StartNext(t) /\ Len(entries) <= Len(t)
      /\ \A i \in 1..Len(entries) : t[i] = entries[i]
      /\ \A i \in 1..Len(t) : i > Len(entries) => t[i].status = "pending" /\ t[i].result = None
  BY <1>5, <1>6, <1>7
<1> HIDE DEF t
<1> QED BY <1>8

\* clear keeps what is being processed.
LEMMA ResetKeeps ==
    ASSUME WindowType, Qt!ResetUi
    PROVE  /\ entries' \in Seq(Qt!Entry)
              /\ \A i \in DOMAIN entries' : entries'[i].status = "processing"
           /\ (\A i \in DOMAIN entries : entries[i].status # "processing") => DOMAIN entries' = {}
<1> DEFINE I == {i \in DOMAIN entries : entries[i].status = "processing"}
<1>1. PICK kept \in Qt!InOrder(I) : entries' = [i \in DOMAIN kept |-> entries[kept[i]]]
  BY DEF Qt!ResetUi
<1>2. entries \in Seq(Qt!Entry) /\ I \in SUBSET DOMAIN entries
  BY DEF WindowType
<1>3. /\ Cardinality(I) \in Nat /\ DOMAIN kept = 1..Cardinality(I)
      /\ \A a \in DOMAIN kept : kept[a] \in I /\ entries[kept[a]] \in Qt!Entry
      /\ I = {} => DOMAIN kept = {}
  <2> HIDE DEF I
  <2> QED BY <1>2, FiltersKeep
<1>4. entries' \in [1..Cardinality(I) -> Qt!Entry]
  <2> HIDE DEF I
  <2> QED BY <1>1, <1>3
<1>5. entries' \in Seq(Qt!Entry)
  <2> HIDE DEF I
  <2> QED BY <1>3, <1>4
<1>6. \A i \in DOMAIN entries' : entries'[i].status = "processing"
  BY <1>1, <1>3
<1>7. (\A i \in DOMAIN entries : entries[i].status # "processing") => DOMAIN entries' = {}
  BY <1>1, <1>3
<1> QED BY <1>5, <1>6, <1>7

\* Files are added by the drop zone or by the dialog for addresses.
Drops == (\E t \in Adds : Qt!Drop(t)) \/ (\E f \in Qt!Files : Qt!Download(f))

LEMMA DropStep ==
    ASSUME Qt!QtQueueAssumption, WindowType, Drops
    PROVE  /\ UNCHANGED <<timers, reported, dialogs, approved>> /\ (~Rough => Qt!AtRest)
           /\ \E t \in Seq(Qt!Entry) :
                 /\ Qt!StartNext(t) /\ Len(entries) <= Len(t)
                 /\ \A i \in 1..Len(entries) : t[i] = entries[i]
                 /\ \A i \in 1..Len(t) : i > Len(entries)
                    => t[i].status = "pending" /\ t[i].result = None
<1>1. PICK s \in Seq(Qt!Files) : Qt!OnFilesDropped(s) /\ (~Rough => Qt!AtRest)
  <2>1. ASSUME NEW s \in Adds, Qt!Drop(s)
        PROVE  s \in Seq(Qt!Files) /\ Qt!OnFilesDropped(s) /\ (~Rough => Qt!AtRest)
    BY <2>1 DEF Qt!QtQueueAssumption, Qt!Drop
  <2>2. ASSUME NEW f \in Qt!Files, Qt!Download(f)
        PROVE  <<f>> \in Seq(Qt!Files) /\ Qt!OnFilesDropped(<<f>>) /\ (~Rough => Qt!AtRest)
    BY <2>2 DEF Qt!Download
  <2> QED BY <2>1, <2>2 DEF Drops
<1>2. UNCHANGED <<timers, reported, dialogs, approved>>
  BY <1>1 DEF Qt!OnFilesDropped
<1> QED BY <1>1, <1>2, DropAppends

LEMMA InitWindow == ASSUME Qt!QtQueueAssumption, Qt!Init PROVE WindowInv
<1>0. Jobs["qt"] \in Nat
  BY DEF Qt!QtQueueAssumption
<1>a. <<>> \in Seq(Qt!Entry) /\ <<>> \in Seq(Qt!Files \cup {None}) /\ 0 \in 0..Jobs["qt"]
  BY <1>0
<1>1. WindowType
  BY <1>a DEF Qt!Init, WindowType
<1>2. Questions = {}
  BY DEF Qt!Init, Questions
<1> QED BY <1>1, <1>2, FS_EmptySet DEF WindowInv, Followed, Qt!Init

\* Actions that look for the next file: what is started takes the place of a
\* timer, or of nothing.
LEMMA StartingWindow ==
    ASSUME Qt!QtQueueAssumption, WindowInv, Drops \/ Qt!TimerFires
    PROVE  WindowInv'
<1>0. WindowType
  BY DEF WindowInv
<1>1. PICK s \in Seq(Qt!Entry) :
          /\ Qt!StartNext(s) /\ UNCHANGED <<reported, dialogs, approved>>
          /\ timers' = timers \/ (timers > 0 /\ timers' = timers - 1)
  <2>1. ASSUME Qt!TimerFires
        PROVE  /\ entries \in Seq(Qt!Entry) /\ Qt!StartNext(entries)
                  /\ UNCHANGED <<reported, dialogs, approved>>
               /\ timers > 0 /\ timers' = timers - 1
    BY <1>0, <2>1 DEF Qt!TimerFires, WindowType
  <2>2. ASSUME Drops
        PROVE  \E t \in Seq(Qt!Entry) : Qt!StartNext(t)
                 /\ UNCHANGED <<timers, reported, dialogs, approved>>
    BY <1>0, <2>2, DropStep
  <2> QED BY <2>1, <2>2
<1>2. /\ entries' \in Seq(Qt!Entry) /\ thread' \in Qt!Thread \cup {None} /\ accepts' \in BOOLEAN
      /\ crashed' \in BOOLEAN /\ started' \in 0..Jobs["qt"]
      /\ UNCHANGED <<thread, started>> \/ started' = started + 1
  BY <1>0, <1>1, StartNextStep DEF Starts
<1>3. WindowType'
  BY <1>0, <1>1, <1>2 DEF WindowType
<1>4. Cardinality(Questions') = Cardinality(Questions) /\ Cardinality(Questions) \in Nat
  BY <1>0, <1>1, QuestionsCounted DEF Questions
<1>5. Followed'
  BY <1>0, <1>1, <1>2, <1>4 DEF WindowInv, Followed, WindowType
<1> QED BY <1>3, <1>5 DEF WindowInv

\* Actions that change what the thread knows, not whether there is one
LEMMA ThreadWindow ==
    ASSUME Qt!QtQueueAssumption, WindowInv, Qt!Report \/ Qt!Fails \/ Qt!IsDecided \/ Qt!OnCancel
    PROVE  WindowInv' /\ thread' # None /\ UNCHANGED <<entries, timers, dialogs, crashed>>
<1>1. /\ thread # None /\ thread \in Qt!Thread
      /\ UNCHANGED <<entries, timers, dialogs, approved, accepts, crashed, started>>
      /\ reported' \in Qt!Files \cup {None}
  BY DEF Qt!Report, Qt!Fails, Qt!IsDecided, Qt!OnCancel, Qt!Runs, Qt!EndsWith, WindowInv,
         WindowType, Qt!Thread
<1>2. \/ \E stp \in {"working", "waiting", "decided", "failed"} :
         thread' = [thread EXCEPT !.stage = stp]
      \/ thread' = [thread EXCEPT !.cancelled = TRUE]
  BY DEF Qt!Report, Qt!Fails, Qt!IsDecided, Qt!OnCancel, Qt!EndsWith
<1>3. thread' \in Qt!Thread
  BY <1>1, <1>2 DEF Qt!Thread
<1>4. thread' # None
  BY <1>3 DEF Qt!QtQueueAssumption
<1>5. WindowType'
  BY <1>1, <1>3 DEF WindowInv, WindowType
<1>6. Questions' = Questions
  BY <1>1 DEF Questions
<1> QED BY <1>1, <1>4, <1>5, <1>6 DEF WindowInv, Followed

LEMMA ResetWindow == ASSUME WindowInv, Qt!ResetUi PROVE WindowInv'
<1>1. entries' \in Seq(Qt!Entry)
  BY ResetKeeps DEF WindowInv
<1>2. /\ UNCHANGED <<thread, timers, reported, dialogs, approved, crashed, started>>
         /\ accepts' = TRUE
  BY DEF Qt!ResetUi
<1>3. Questions' = Questions
  BY <1>2 DEF Questions
<1> QED BY <1>1, <1>2, <1>3 DEF WindowInv, WindowType, Followed

LEMMA ReportWindow ==
    ASSUME Qt!QtQueueAssumption, WindowInv, Qt!OnCompatibilityReady
    PROVE  WindowInv'
<1>0. WindowType
  BY DEF WindowInv
<1>1. /\ reported # None /\ reported \in Qt!Files /\ reported' = None
         /\ dialogs' = Append(dialogs, reported)
      /\ UNCHANGED <<entries, thread, timers, approved, accepts, crashed, started>>
  BY <1>0 DEF Qt!OnCompatibilityReady, WindowType
<1>2. dialogs' \in Seq(Qt!Files \cup {None})
  BY <1>0, <1>1 DEF WindowType
<1>3. Cardinality(Questions') = Cardinality(Questions) /\ Cardinality(Questions) \in Nat
  BY <1>0, <1>1, QuestionPut, QuestionsCounted
<1>4. WindowType'
  BY <1>0, <1>1, <1>2 DEF WindowType
<1>5. Followed'
  BY <1>1, <1>3 DEF Followed, WindowInv
<1> QED BY <1>4, <1>5 DEF WindowInv

LEMMA AnswerWindow ==
    ASSUME Qt!QtQueueAssumption, WindowInv, NEW d \in {"approved", "dismissed"}, Qt!AnswerReport(d)
    PROVE  WindowInv' /\ (thread' = None <=> thread = None)
<1>0. WindowType
  BY DEF WindowInv
<1>1. /\ dialogs # <<>> /\ Qt!Last(dialogs) # None /\ dialogs' = Qt!Front(dialogs)
      /\ thread' = IF thread = None THEN None ELSE [thread EXCEPT !.decision = d]
      /\ accepts' \in BOOLEAN /\ approved' \in BOOLEAN
      /\ UNCHANGED <<entries, timers, reported, crashed, started>>
  BY <1>0 DEF Qt!AnswerReport, WindowType
<1>2. dialogs' \in Seq(Qt!Files \cup {None}) /\ Cardinality(Questions') = Cardinality(Questions) - 0
  BY <1>0, <1>1, QuestionTaken
<1>3. thread # None => thread' \in Qt!Thread
  BY <1>0, <1>1 DEF WindowType, Qt!Thread
<1>4. (thread' = None <=> thread = None) /\ thread' \in Qt!Thread \cup {None}
  BY <1>1, <1>3 DEF Qt!QtQueueAssumption
<1>5. WindowType'
  BY <1>0, <1>1, <1>2, <1>4 DEF WindowType
<1>6. Followed'
  BY <1>0, <1>1, <1>2, <1>4, QuestionsCounted DEF Followed, WindowInv
<1> QED BY <1>4, <1>5, <1>6 DEF WindowInv

\* The end of a conversion is followed by a question, by a timer, or by nothing
\* if no file waits.
LEMMA FinishedStep ==
    ASSUME Qt!QtQueueAssumption, WindowInv, Qt!OnPipelineFinished
    PROVE  /\ thread \in Qt!Thread /\ thread' = None /\ reported = None
           /\ accepts' = TRUE /\ approved' \in BOOLEAN
           /\ UNCHANGED <<reported, crashed, started>> /\ ~crashed
           /\ thread.stage \in {"decided", "failed"}
           /\ \/ /\ dialogs' = Append(dialogs, None) /\ UNCHANGED timers
                 /\ ~thread.cancelled /\ thread.decision = "approved"
              \/ UNCHANGED dialogs /\ Qt!Later(entries')
           /\ entries' \in Seq(Qt!Entry) /\ Len(entries') = Len(entries)
           /\ \A i \in 1..Len(entries) :
                 IF i = thread.index
                 THEN /\ entries'[i].status = "finished" /\ entries'[i].result = thread.file
                      /\ entries'[i].file = entries[i].file
                 ELSE entries'[i] = entries[i]
<1>1. /\ thread \in Qt!Thread /\ entries \in Seq(Qt!Entry) /\ Len(entries) \in Nat
      /\ DOMAIN entries = 1..Len(entries) /\ approved \in BOOLEAN
  BY DEF WindowInv, WindowType, Qt!OnPipelineFinished, Qt!Runs
<1>2. /\ thread' = None /\ accepts' = TRUE /\ reported = None
         /\ thread.stage \in {"decided", "failed"}
      /\ UNCHANGED <<reported, crashed, started>> /\ ~crashed /\ approved' \in BOOLEAN
  BY DEF Qt!OnPipelineFinished, Qt!Runs
<1>3. \/ /\ dialogs' = Append(dialogs, None) /\ UNCHANGED timers
         /\ ~thread.cancelled /\ thread.decision = "approved"
      \/ UNCHANGED dialogs /\ Qt!Later(entries')
  BY DEF Qt!OnPipelineFinished
<1>4. CASE thread.index \notin DOMAIN entries
  <2>1. entries' = entries
    BY <1>4 DEF Qt!OnPipelineFinished
  <2> QED BY <1>1, <1>2, <1>3, <1>4, <2>1
<1>5. CASE thread.index \in DOMAIN entries
  <2> DEFINE k == thread.index
             e == [entries[k] EXCEPT !.status = "finished", !.result = thread.file]
  <2>1. entries' = [entries EXCEPT ![k] = e]
    BY <1>5 DEF Qt!OnPipelineFinished
  <2>2. /\ e \in Qt!Entry /\ e.status = "finished" /\ e.result = thread.file
           /\ e.file = entries[k].file
    <3>1. entries[k] \in Qt!Entry /\ thread.file \in Qt!Files
      BY <1>1, <1>5 DEF Qt!Thread
    <3> QED BY <3>1 DEF Qt!Entry
  <2> HIDE DEF k, e
  <2>3. k \in 1..Len(entries)
    BY <1>1, <1>5 DEF k
  <2>4. entries' \in Seq(Qt!Entry) /\ Len(entries') = Len(entries)
    BY <1>1, <2>1, <2>2, <2>3, ExceptSeq
  <2>5. \A i \in 1..Len(entries) : entries'[i] = IF i = k THEN e ELSE entries[i]
    BY <1>1, <2>1, <2>3
  <2> QED BY <1>1, <1>2, <1>3, <2>2, <2>3, <2>4, <2>5 DEF k
<1> QED BY <1>4, <1>5

LEMMA FinishedWindow ==
    ASSUME Qt!QtQueueAssumption, WindowInv, Qt!OnPipelineFinished
    PROVE  WindowInv'
<1>0. WindowType /\ Cardinality(Questions) \in Nat
  BY QuestionsCounted DEF WindowInv
<1>1. /\ thread # None /\ thread' = None /\ entries' \in Seq(Qt!Entry)
      /\ accepts' \in BOOLEAN /\ approved' \in BOOLEAN /\ UNCHANGED <<reported, crashed, started>>
  BY FinishedStep DEF Qt!OnPipelineFinished, Qt!Runs
<1>a. /\ timers \in Nat /\ started \in Nat
      /\ timers + Cardinality(Questions) + 1 <= started
  BY <1>0, <1>1 DEF WindowInv, WindowType, Followed
<1>2. CASE dialogs' = Append(dialogs, None) /\ UNCHANGED timers
  <2>1. Cardinality(Questions') = Cardinality(Questions) + 1
    BY <1>0, <1>2, QuestionPut
  <2>2. dialogs' \in Seq(Qt!Files \cup {None})
    BY <1>0, <1>2 DEF WindowType
  <2>3. WindowType'
    BY <1>0, <1>1, <1>2, <2>2 DEF WindowType
  <2>4. Followed'
    BY <1>0, <1>1, <1>a, <1>2, <2>1 DEF Followed
  <2> QED BY <2>3, <2>4 DEF WindowInv
<1>3. CASE UNCHANGED dialogs /\ Qt!Later(entries')
  <2>1. Questions' = Questions
    BY <1>3 DEF Questions
  <2>2. timers' \in {timers, timers + 1}
    BY <1>3 DEF Qt!Later
  <2>3. WindowType'
    BY <1>0, <1>1, <1>3, <2>2 DEF WindowType
  <2>4. Followed'
    BY <1>0, <1>1, <1>a, <2>1, <2>2 DEF Followed
  <2> QED BY <2>3, <2>4 DEF WindowInv
<1> QED BY <1>2, <1>3, FinishedStep

LEMMA LaunchWindow == ASSUME WindowInv, Qt!AnswerLaunch PROVE WindowInv'
<1>0. WindowType /\ Cardinality(Questions) \in Nat
  BY QuestionsCounted DEF WindowInv
<1>1. /\ dialogs # <<>> /\ Qt!Last(dialogs) = None /\ dialogs' = Qt!Front(dialogs)
      /\ timers' \in {timers, timers + 1}
      /\ UNCHANGED <<entries, thread, reported, approved, accepts, crashed, started>>
  BY DEF Qt!AnswerLaunch, Qt!Later
<1>2. dialogs' \in Seq(Qt!Files \cup {None}) /\ Cardinality(Questions') = Cardinality(Questions) - 1
  BY <1>0, <1>1, QuestionTaken
<1> QED BY <1>0, <1>1, <1>2 DEF WindowInv, WindowType, Followed

LEMMA WindowNext == ASSUME Qt!QtQueueAssumption, WindowInv, [Qt!Next]_Qt!vars PROVE WindowInv'
<1>1. CASE UNCHANGED Qt!vars
  <2>1. Questions' = Questions
    BY <1>1 DEF Qt!vars, Questions
  <2> QED BY <1>1, <2>1 DEF Qt!vars, WindowInv, WindowType, Followed
<1> QED BY <1>1, StartingWindow, ThreadWindow, ResetWindow, ReportWindow, AnswerWindow,
           FinishedWindow,
           LaunchWindow DEF Qt!Next, Drops

\* Every variable keeps its type, whatever the user does and whenever: a timer
\* belongs to a conversion that was started.
THEOREM QtTypeCorrect == Qt!QtQueueAssumption => (Qt!Spec => []Qt!TypeOK)
<1> SUFFICES ASSUME Qt!QtQueueAssumption PROVE Qt!Spec => []Qt!TypeOK
  OBVIOUS
<1>1. WindowInv => Qt!TypeOK
  <2> SUFFICES ASSUME WindowInv PROVE timers \in 0..Jobs["qt"]
    BY DEF WindowInv, WindowType, Qt!TypeOK
  <2>1. Cardinality(Questions) \in Nat /\ Jobs["qt"] \in Nat
    BY QuestionsCounted DEF WindowInv, Qt!QtQueueAssumption
  <2> QED BY <2>1 DEF WindowInv, WindowType, Followed
<1> QED BY <1>1, InitWindow, WindowNext, PTL DEF Qt!Spec

-----------------------------------------------------------------------------
(* No file is forgotten *)

\* The entries of a step that starts nothing new
LEMMA StartingNeverStalls ==
    ASSUME Qt!QtQueueAssumption, WindowType, NEW s \in Seq(Qt!Entry), Qt!StartNext(s)
    PROVE  Qt!NeverStalls'
<1>1. Qt!PendingIn(entries') = {} \/ thread' # None
  BY StartNextStep DEF Starts
<1> QED BY <1>1 DEF Qt!NeverStalls

LEMMA NeverStallsNext ==
    ASSUME Qt!QtQueueAssumption, WindowInv, Qt!NeverStalls, [Qt!Next]_Qt!vars
    PROVE  Qt!NeverStalls'
<1>0. WindowType /\ DOMAIN dialogs = 1..Len(dialogs) /\ Len(dialogs) \in Nat
  BY DEF WindowInv, WindowType
<1>1. CASE Drops \/ Qt!TimerFires
  <2>1. ASSUME Qt!TimerFires PROVE entries \in Seq(Qt!Entry) /\ Qt!StartNext(entries)
    BY <1>0, <2>1 DEF Qt!TimerFires, WindowType
  <2>2. \E t \in Seq(Qt!Entry) : Qt!StartNext(t)
    BY <1>0, <1>1, <2>1, DropStep
  <2> QED BY <1>0, <2>2, StartingNeverStalls
<1>2. CASE Qt!ResetUi
  <2>1. Qt!PendingIn(entries') = {}
    BY <1>0, <1>2, ResetKeeps DEF Qt!PendingIn
  <2> QED BY <2>1 DEF Qt!NeverStalls
<1>3. CASE Qt!Report \/ Qt!Fails \/ Qt!IsDecided \/ Qt!OnCancel
  BY <1>3, ThreadWindow DEF Qt!NeverStalls
<1>4. CASE Qt!OnCompatibilityReady
  <2>1. /\ UNCHANGED <<entries, thread, timers, crashed>> /\ dialogs' = Append(dialogs, reported)
    BY <1>4 DEF Qt!OnCompatibilityReady
  <2>2. \A i \in DOMAIN dialogs : i \in DOMAIN dialogs' /\ dialogs'[i] = dialogs[i]
    BY <1>0, <2>1 DEF WindowType
  <2> QED BY <2>1, <2>2 DEF Qt!NeverStalls
<1>5. ASSUME NEW d \in {"approved", "dismissed"}, Qt!AnswerReport(d) PROVE Qt!NeverStalls'
  <2>1. /\ dialogs # <<>> /\ Qt!Last(dialogs) # None /\ dialogs' = Qt!Front(dialogs)
        /\ UNCHANGED <<entries, timers, crashed>> /\ (thread' = None <=> thread = None)
    BY <1>5, AnswerWindow DEF Qt!AnswerReport
  <2>2. \A i \in DOMAIN dialogs : dialogs[i] = None => i \in DOMAIN dialogs' /\ dialogs'[i] = None
    <3>1. Len(dialogs) # 0
      BY <1>0, <2>1 DEF WindowType
    <3>2. dialogs' = SubSeq(dialogs, 1, Len(dialogs) - 1) /\ dialogs[Len(dialogs)] # None
      BY <2>1 DEF Qt!Front, Qt!Last
    <3>3. DOMAIN dialogs' = 1..Len(dialogs) - 1
            /\ \A i \in 1..Len(dialogs) - 1 : dialogs'[i] = dialogs[i]
      BY <1>0, <3>1, <3>2 DEF WindowType
    <3> QED BY <1>0, <3>2, <3>3
  <2> QED BY <2>1, <2>2 DEF Qt!NeverStalls
<1>6. CASE Qt!OnPipelineFinished
  <2>1. CASE UNCHANGED dialogs /\ Qt!Later(entries')
    BY <1>0, <2>1 DEF Qt!Later, Qt!NeverStalls, WindowType
  <2>2. CASE dialogs' = Append(dialogs, None)
    <3>1. Len(dialogs) + 1 \in DOMAIN dialogs' /\ dialogs'[Len(dialogs) + 1] = None
      BY <1>0, <2>2 DEF WindowType
    <3> QED BY <3>1 DEF Qt!NeverStalls
  <2> QED BY <1>6, <2>1, <2>2, FinishedStep
<1>7. CASE Qt!AnswerLaunch
  BY <1>0, <1>7 DEF Qt!AnswerLaunch, Qt!Later, Qt!NeverStalls, WindowType
<1>8. CASE UNCHANGED Qt!vars
  BY <1>8 DEF Qt!vars, Qt!NeverStalls
<1> QED BY <1>1, <1>2, <1>3, <1>4, <1>5, <1>6, <1>7, <1>8 DEF Qt!Next, Drops

\* A file that waits is waited for: by the conversion that runs, by a timer or by
\* the question whether to launch what was installed.  No start that could be
\* lost is the only one, whatever the user drops, clears, cancels or closes.
THEOREM NoFileIsForgotten == Qt!QtQueueAssumption => (Qt!Spec => []Qt!NeverStalls)
<1> SUFFICES ASSUME Qt!QtQueueAssumption PROVE Qt!Spec => []Qt!NeverStalls
  OBVIOUS
<1>1. Qt!Init => Qt!NeverStalls
  BY DEF Qt!Init, Qt!NeverStalls, Qt!PendingIn
<1> QED BY <1>1, InitWindow, WindowNext, NeverStallsNext, PTL DEF Qt!Spec

-----------------------------------------------------------------------------
(* The PyQt window with a patient user: its phases                         *)

\* A conversion whose report is still to come, or has been answered
NotAsked(t) == reported = None /\ dialogs = <<>> /\ (t.stage = "working" => t.decision = "none")
\* One whose report waits for an answer, by which only a cancellation ends it
InDialog(t) ==
    /\ t.stage # "working" /\ t.decision = "none"
    /\ t.stage \in {"decided", "failed"} => t.cancelled
    /\ \/ reported = t.file /\ dialogs = <<>>
       \/ reported = None /\ dialogs = <<t.file>>
\* The report of a conversion that was cancelled may be left open; no file waits.
LeftOpen == (\E f \in Qt!Files : dialogs = <<f>>) /\ Qt!PendingIn(entries) = {}

PhaseInv ==
    /\ ~crashed
    /\ thread = None =>
        /\ reported = None
        /\ \/ timers = 1 /\ dialogs = <<>>
           \/ timers = 0 /\ (dialogs = <<>> \/ dialogs = <<None>> \/ LeftOpen)
    /\ thread # None =>
        /\ timers = 0 /\ (NotAsked(thread) \/ InDialog(thread))
        /\ thread.cancelled => Qt!PendingIn(entries) = {}

\* The thread's index is that of its file.
OwnerInv ==
    /\ \A i \in DOMAIN entries :
        /\ entries[i].result \in {None, entries[i].file}
        /\ entries[i].status = "processing" => thread # None /\ thread.index = i
    /\ thread # None => thread.index \in DOMAIN entries /\ entries[thread.index].file = thread.file

PatientInv == WindowInv /\ PhaseInv /\ OwnerInv

LEMMA InitPatient == ASSUME Qt!Init PROVE PhaseInv /\ OwnerInv
BY DEF Qt!Init, PhaseInv, OwnerInv

\* With nothing under way, the next conversion is the only one.
LEMMA StartPatient ==
    ASSUME Qt!QtQueueAssumption, WindowType, NEW s \in Seq(Qt!Entry), Qt!StartNext(s),
           thread = None, reported' = None, dialogs' = <<>>, timers' = 0, ~crashed,
           \A i \in 1..Len(s) : s[i].result \in {None, s[i].file} /\ s[i].status # "processing"
    PROVE  PhaseInv' /\ OwnerInv'
<1>0. DOMAIN s = 1..Len(s)
  OBVIOUS
<1>1. CASE Qt!PendingIn(s) = {} /\ entries' = s /\ UNCHANGED <<thread, crashed, started>>
  BY <1>0, <1>1 DEF PhaseInv, OwnerInv
<1>2. ASSUME NEW i \in Qt!PendingIn(s), Starts(s, i) PROVE PhaseInv' /\ OwnerInv'
  <2>1. /\ thread' # None /\ thread'.index = i /\ thread'.file = s[i].file
           /\ thread'.stage = "working"
        /\ thread'.decision = "none" /\ ~thread'.cancelled /\ crashed' = FALSE
        /\ entries' = [s EXCEPT ![i].status = "processing"] /\ i \in 1..Len(s)
    BY <1>0, <1>2 DEF Starts, Qt!PendingIn
  <2>2. PhaseInv'
    BY <2>1 DEF PhaseInv, NotAsked
  <2>3. /\ DOMAIN entries' = 1..Len(s) /\ s[i] \in Qt!Entry
        /\ \A k \in 1..Len(s) : k # i => entries'[k] = s[k]
        /\ entries'[i] = [s[i] EXCEPT !.status = "processing"]
    BY <1>0, <2>1
  <2>4. entries'[i].file = s[i].file /\ entries'[i].result = s[i].result
    BY <2>3 DEF Qt!Entry
  <2>5. OwnerInv'
    BY <2>1, <2>3, <2>4 DEF OwnerInv
  <2> QED BY <2>2, <2>5
<1> QED BY <1>1, <1>2, StartNextStep

LEMMA LookingPatient ==
    ASSUME Qt!QtQueueAssumption, ~Rough, PatientInv, Drops \/ Qt!TimerFires
    PROVE  PhaseInv' /\ OwnerInv'
<1>0. /\ WindowType /\ DOMAIN entries = 1..Len(entries) /\ Len(entries) \in Nat /\ ~crashed
      /\ entries \in Seq(Qt!Entry)
  BY DEF PatientInv, PhaseInv, WindowInv, WindowType
<1>1. CASE Drops
  <2>1. thread = None /\ timers' = 0 /\ dialogs' = <<>> /\ reported' = None
    BY <1>0, <1>1, DropStep DEF Qt!AtRest, PatientInv, PhaseInv
  <2>2. \A i \in 1..Len(entries) : entries[i].result \in {None, entries[i].file}
                                   /\ entries[i].status # "processing"
    BY <1>0, <2>1 DEF PatientInv, OwnerInv
  <2>3. PICK t \in Seq(Qt!Entry) :
            /\ Qt!StartNext(t) /\ Len(entries) <= Len(t)
            /\ \A i \in 1..Len(entries) : t[i] = entries[i]
            /\ \A i \in 1..Len(t) : i > Len(entries)
               => t[i].status = "pending" /\ t[i].result = None
    BY <1>0, <1>1, DropStep
  <2>4. \A i \in 1..Len(t) : t[i].result \in {None, t[i].file} /\ t[i].status # "processing"
    <3> TAKE i \in 1..Len(t)
    <3>1. CASE i > Len(entries)
      BY <2>3, <3>1
    <3>2. CASE i <= Len(entries)
      <4>1. i \in 1..Len(entries)
        BY <1>0, <3>2
      <4> QED BY <2>2, <2>3, <4>1
    <3> QED BY <1>0, <3>1, <3>2
  <2> QED BY <1>0, <2>1, <2>3, <2>4, StartPatient
<1>2. CASE Qt!TimerFires
  <2>1. timers > 0 /\ timers' = timers - 1 /\ Qt!StartNext(entries)
          /\ UNCHANGED <<reported, dialogs>>
    BY <1>2 DEF Qt!TimerFires
  <2>2. thread = None /\ timers' = 0 /\ dialogs' = <<>> /\ reported' = None
    BY <2>1 DEF PatientInv, PhaseInv
  <2>3. \A i \in 1..Len(entries) : entries[i].result \in {None, entries[i].file}
                                   /\ entries[i].status # "processing"
    BY <1>0, <2>2 DEF PatientInv, OwnerInv
  <2> QED BY <1>0, <2>1, <2>2, <2>3, StartPatient
<1> QED BY <1>1, <1>2

LEMMA ResetPatient == ASSUME ~Rough, PatientInv, Qt!ResetUi PROVE PhaseInv' /\ OwnerInv'
<1>1. /\ thread = None /\ timers = 0 /\ dialogs = <<>>
      /\ UNCHANGED <<thread, timers, reported, dialogs, crashed>>
  BY DEF Qt!ResetUi, Qt!AtRest
<1>2. \A i \in DOMAIN entries : entries[i].status # "processing"
  BY <1>1 DEF PatientInv, OwnerInv
<1>3. DOMAIN entries' = {}
  BY <1>2, ResetKeeps DEF PatientInv, WindowInv
<1> QED BY <1>1, <1>3 DEF PatientInv, PhaseInv, OwnerInv

\* The thread goes on, or is cancelled.
LEMMA ThreadPatient ==
    ASSUME Qt!QtQueueAssumption, ~Rough, PatientInv,
           Qt!Report \/ Qt!Fails \/ Qt!IsDecided \/ Qt!OnCancel
    PROVE  PhaseInv' /\ OwnerInv'
<1>0. /\ thread # None /\ thread \in Qt!Thread /\ thread' # None
      /\ UNCHANGED <<entries, timers, dialogs, crashed>>
  <2>1. thread # None
    BY DEF Qt!Report, Qt!Fails, Qt!IsDecided, Qt!OnCancel, Qt!Runs
  <2> QED BY <2>1, ThreadWindow DEF PatientInv, WindowInv, WindowType
<1>1. OwnerInv'
  <2>1. thread'.index = thread.index /\ thread'.file = thread.file
    BY <1>0 DEF Qt!Report, Qt!Fails, Qt!IsDecided, Qt!OnCancel, Qt!EndsWith, Qt!Thread
  <2> QED BY <1>0, <2>1 DEF PatientInv, OwnerInv
<1>2. /\ timers = 0 /\ ~crashed /\ (NotAsked(thread) \/ InDialog(thread))
      /\ thread.cancelled => Qt!PendingIn(entries) = {}
  BY <1>0 DEF PatientInv, PhaseInv
<1>3. CASE Qt!Report
  <2>1. /\ thread.stage = "working" /\ reported' = thread.file
        /\ thread'.stage = "waiting" /\ thread'.decision = thread.decision
        /\ thread'.cancelled = thread.cancelled /\ thread'.file = thread.file
    BY <1>0, <1>3 DEF Qt!Report, Qt!Runs, Qt!Thread
  <2> QED BY <1>0, <1>1, <1>2, <2>1 DEF PhaseInv, NotAsked, InDialog
<1>4. CASE Qt!Fails \/ Qt!IsDecided
  <2>1. /\ thread.stage \in {"working", "waiting"} /\ reported' = reported
        /\ thread.stage = "waiting" => thread.decision # "none" \/ thread.cancelled
        /\ thread'.stage \in {"decided", "failed"} /\ thread'.decision = thread.decision
        /\ thread'.cancelled = thread.cancelled /\ thread'.file = thread.file
    BY <1>0, <1>4 DEF Qt!Fails, Qt!IsDecided, Qt!EndsWith, Qt!Runs, Qt!Thread
  <2> QED BY <1>0, <1>1, <1>2, <2>1 DEF PhaseInv, NotAsked, InDialog
<1>5. CASE Qt!OnCancel
  <2>1. /\ Qt!PendingIn(entries) = {} /\ reported' = reported
        /\ thread'.stage = thread.stage /\ thread'.decision = thread.decision
        /\ thread'.cancelled /\ thread'.file = thread.file
    BY <1>0, <1>5 DEF Qt!OnCancel, Qt!Thread
  <2> QED BY <1>0, <1>1, <1>2, <2>1 DEF PhaseInv, NotAsked, InDialog
<1> QED BY <1>3, <1>4, <1>5

LEMMA ReportPatient ==
    ASSUME Qt!QtQueueAssumption, PatientInv, Qt!OnCompatibilityReady
    PROVE  PhaseInv' /\ OwnerInv'
<1>1. /\ reported # None /\ reported' = None /\ dialogs' = Append(dialogs, reported)
      /\ UNCHANGED <<entries, thread, timers, crashed>>
  BY DEF Qt!OnCompatibilityReady
<1>2. thread # None /\ InDialog(thread) /\ reported = thread.file /\ dialogs = <<>>
  BY <1>1 DEF PatientInv, PhaseInv, NotAsked, InDialog
<1>3. dialogs' = <<thread.file>>
  BY <1>1, <1>2
<1> QED BY <1>1, <1>2, <1>3 DEF PatientInv, PhaseInv, OwnerInv, InDialog

LEMMA AnswerPatient ==
    ASSUME Qt!QtQueueAssumption, PatientInv, NEW d \in {"approved", "dismissed"}, Qt!AnswerReport(d)
    PROVE  PhaseInv' /\ OwnerInv'
<1>1. /\ dialogs # <<>> /\ Qt!Last(dialogs) # None /\ dialogs' = Qt!Front(dialogs)
      /\ thread' = IF thread = None THEN None ELSE [thread EXCEPT !.decision = d]
      /\ UNCHANGED <<entries, timers, reported, crashed>>
  BY DEF Qt!AnswerReport
<1>2. dialogs # <<None>>
  <2>1. Qt!Last(<<None>>) = None
    BY DEF Qt!Last
  <2> QED BY <1>1, <2>1
<1>3. \E f : dialogs = <<f>>
  BY <1>1, <1>2 DEF PatientInv, PhaseInv, LeftOpen, NotAsked, InDialog
<1>4. dialogs' = <<>>
  BY <1>1, <1>3 DEF Qt!Front
<1>5. CASE thread = None
  BY <1>1, <1>2, <1>4, <1>5 DEF PatientInv, PhaseInv, OwnerInv
<1>6. CASE thread # None
  <2>1. /\ thread' # None /\ thread'.decision = d /\ thread'.stage = thread.stage
        /\ thread'.cancelled = thread.cancelled /\ thread'.index = thread.index
           /\ thread'.file = thread.file
    <3>1. thread \in Qt!Thread /\ (thread' = None <=> thread = None)
      BY <1>6, AnswerWindow DEF PatientInv, WindowInv, WindowType
    <3> QED BY <1>1, <1>6, <3>1 DEF Qt!Thread
  <2>2. InDialog(thread) /\ reported = None
    BY <1>1, <1>6 DEF PatientInv, PhaseInv, NotAsked, InDialog
  <2> QED BY <1>1, <1>4, <1>6, <2>1, <2>2 DEF PatientInv, PhaseInv, OwnerInv, NotAsked, InDialog
<1> QED BY <1>5, <1>6

LEMMA FinishedPatient ==
    ASSUME Qt!QtQueueAssumption, PatientInv, Qt!OnPipelineFinished
    PROVE  PhaseInv' /\ OwnerInv'
<1>0. /\ thread # None /\ thread' = None /\ reported = None /\ reported' = None /\ ~crashed'
         /\ timers = 0
      /\ DOMAIN entries = 1..Len(entries) /\ DOMAIN entries' = 1..Len(entries)
      /\ \A i \in 1..Len(entries) :
            IF i = thread.index
            THEN /\ entries'[i].status = "finished" /\ entries'[i].result = thread.file
                 /\ entries'[i].file = entries[i].file
            ELSE entries'[i] = entries[i]
  <2>1. entries \in Seq(Qt!Entry)
    BY DEF PatientInv, WindowInv, WindowType
  <2>2. thread # None /\ timers = 0
    BY DEF Qt!OnPipelineFinished, Qt!Runs, PatientInv, PhaseInv
  <2> QED BY <2>1, <2>2, FinishedStep DEF PatientInv
<1>1. OwnerInv'
  BY <1>0 DEF PatientInv, OwnerInv
<1>2. Qt!PendingIn(entries') \subseteq Qt!PendingIn(entries)
  BY <1>0 DEF Qt!PendingIn
<1>3. CASE NotAsked(thread)
  <2>1. CASE dialogs' = Append(dialogs, None) /\ UNCHANGED timers
    <3>1. dialogs' = <<None>>
      BY <1>3, <2>1 DEF NotAsked
    <3> QED BY <1>0, <1>1, <2>1, <3>1 DEF PhaseInv
  <2>2. CASE UNCHANGED dialogs /\ Qt!Later(entries')
    <3>1. dialogs' = <<>> /\ timers' \in {0, 1}
      BY <1>0, <1>3, <2>2 DEF NotAsked, Qt!Later
    <3> QED BY <1>0, <1>1, <3>1 DEF PhaseInv
  <2> QED BY <2>1, <2>2, FinishedStep DEF PatientInv
<1>4. CASE InDialog(thread)
  <2>1. /\ thread.cancelled /\ Qt!PendingIn(entries) = {} /\ dialogs = <<thread.file>>
        /\ thread.decision = "none" /\ thread.file \in Qt!Files
    <3>1. thread \in Qt!Thread /\ thread.stage \in {"decided", "failed"} /\ reported = None
      BY FinishedStep DEF PatientInv
    <3>2. thread.file \in Qt!Files /\ thread.file # None
      BY <3>1 DEF Qt!Thread, Qt!QtQueueAssumption
    <3> QED BY <1>0, <1>4, <3>1, <3>2 DEF InDialog, PatientInv, PhaseInv
  <2>2. UNCHANGED dialogs /\ Qt!Later(entries')
    BY <2>1, FinishedStep DEF PatientInv
  <2>3. dialogs' = <<thread.file>> /\ timers' = 0 /\ Qt!PendingIn(entries') = {}
    BY <1>0, <1>2, <2>1, <2>2 DEF Qt!Later
  <2> QED BY <1>0, <1>1, <2>1, <2>3 DEF PhaseInv, LeftOpen
<1> QED BY <1>0, <1>3, <1>4 DEF PatientInv, PhaseInv

LEMMA LaunchPatient ==
    ASSUME Qt!QtQueueAssumption, PatientInv, Qt!AnswerLaunch
    PROVE  PhaseInv' /\ OwnerInv'
<1>1. /\ dialogs # <<>> /\ Qt!Last(dialogs) = None /\ dialogs' = Qt!Front(dialogs)
         /\ Qt!Later(entries)
      /\ UNCHANGED <<entries, thread, reported, crashed>>
  BY DEF Qt!AnswerLaunch
<1>2. \A f \in Qt!Files : dialogs # <<f>>
  <2>1. \A f : Qt!Last(<<f>>) = f
    BY DEF Qt!Last
  <2> QED BY <1>1, <2>1 DEF Qt!QtQueueAssumption
<1>3. thread = None
  <2> SUFFICES ASSUME thread # None PROVE FALSE
    OBVIOUS
  <2>1. thread.file \in Qt!Files
    BY DEF PatientInv, WindowInv, WindowType, Qt!Thread
  <2> QED BY <1>1, <1>2, <2>1 DEF PatientInv, PhaseInv, NotAsked, InDialog
<1>4. dialogs = <<None>> /\ timers = 0 /\ reported = None
  BY <1>1, <1>2, <1>3 DEF PatientInv, PhaseInv, LeftOpen
<1>5. dialogs' = <<>> /\ timers' \in {0, 1}
  BY <1>1, <1>4 DEF Qt!Front, Qt!Later
<1> QED BY <1>1, <1>3, <1>4, <1>5 DEF PatientInv, PhaseInv, OwnerInv

LEMMA PatientNext ==
    ASSUME Qt!QtQueueAssumption, ~Rough, PatientInv, [Qt!Next]_Qt!vars
    PROVE  PatientInv'
<1>1. WindowInv'
  BY WindowNext DEF PatientInv
<1>2. CASE UNCHANGED Qt!vars
  BY <1>1, <1>2 DEF Qt!vars, PatientInv, PhaseInv, OwnerInv, NotAsked, InDialog, LeftOpen
<1> QED BY <1>1, <1>2, LookingPatient, ResetPatient, ThreadPatient, ReportPatient, AnswerPatient,
           FinishedPatient, LaunchPatient DEF Qt!Next, Drops, PatientInv

\* The window is at rest, waits for a timer or a question, or converts one file
\* whose index is still that of its entry: the inductive invariant.
THEOREM PatientInvariant == PatientUser => (Qt!Spec => []PatientInv)
<1> SUFFICES ASSUME PatientUser PROVE Qt!Spec => []PatientInv
  OBVIOUS
<1>1. Qt!Init => PatientInv
  BY InitWindow, InitPatient DEF PatientInv, PatientUser
<1>2. PatientInv /\ [Qt!Next]_Qt!vars => PatientInv'
  BY PatientNext DEF PatientUser
<1> QED BY <1>1, <1>2, PTL DEF Qt!Spec

\* With a patient user no conversion is started while another one runs, so that
\* no running thread is dropped and the program does not end.
THEOREM OneAtATime == PatientUser => (Qt!Spec => []Qt!OneConversion)
<1>1. PatientInv => Qt!OneConversion
  BY DEF PatientInv, PhaseInv, Qt!OneConversion
<1> QED BY <1>1, PatientInvariant, PTL

\* A result is kept with the file it is about, though onPipelineFinished goes by
\* the index the file had when it was started.
THEOREM OutcomeIsOwn == PatientUser => (Qt!Spec => []Qt!OwnOutcome)
<1>1. PatientInv => Qt!OwnOutcome
  BY DEF PatientInv, OwnerInv, Qt!OwnOutcome
<1> QED BY <1>1, PatientInvariant, PTL

\* The answer to a report reaches the pipeline that wrote it, and none if that
\* one has ended.
THEOREM AnswersReach == PatientUser => (Qt!Spec => []Qt!AnswerReaches)
<1>1. PatientInv => Qt!AnswerReaches
  BY DEF PatientInv, PhaseInv, NotAsked, InDialog, Qt!AnswerReaches
<1> QED BY <1>1, PatientInvariant, PTL

-----------------------------------------------------------------------------
(* The band of the convert page *)

\* An installation that is under way keeps the button of the band off.
BandCalls == \A j \in jobs : j = [id |-> j.id, op |-> j.op, pkg |-> j.pkg, phase |-> j.phase]
BandInv ==
    installing \in BOOLEAN /\ BandCalls /\ Actions!OneBandInstall
      /\ (Actions!Installs # {} => installing)

\* The calls that install change with handleInstall and with their answers only.
LEMMA BandNext == BandInv /\ [Actions!Next]_Actions!vars => BandInv'
<1> SUFFICES ASSUME BandInv, [Actions!Next]_Actions!vars PROVE BandInv'
  OBVIOUS
<1> USE DEF BandInv, BandCalls, Actions!OneBandInstall, Actions!Installs
<1>1. CASE Actions!handleInstall
  <2>1. /\ ~installing /\ installing'
        /\ jobs' = jobs \cup {[id |-> issued', op |-> "install", pkg |-> outputPkg,
                               phase |-> "sent"]}
    BY <1>1 DEF Actions!handleInstall, Actions!Call
  <2> QED BY <2>1
<1>2. ASSUME NEW op \in {"graph", "oci", "open", "source"}, NEW pkg, Actions!Call(op, pkg),
             UNCHANGED installing
      PROVE  BandInv'
  BY <1>2 DEF Actions!Call
<1>3. ASSUME NEW j \in jobs, NEW phase, jobs' = (jobs \ {j}) \cup {[j EXCEPT !.phase = phase]},
             UNCHANGED installing
      PROVE  BandInv'
  BY <1>3
<1>4. ASSUME NEW j \in jobs, jobs' = jobs \ {j}, installing' = (installing /\ j.op # "install")
      PROVE  BandInv'
  BY <1>4
<1>5. CASE UNCHANGED <<jobs, installing>>
  BY <1>5
<1>6. ASSUME NEW j \in jobs,
             Actions!Begin(j) \/ \E s \in Actions!Steps : Actions!SourceProgress(j, s)
      PROVE  BandInv'
  <2>1. UNCHANGED installing /\ \E p : jobs' = (jobs \ {j}) \cup {[j EXCEPT !.phase = p]}
    BY <1>6 DEF Actions!Begin, Actions!SourceProgress, Actions!At, Actions!band
  <2> QED BY <2>1, <1>3
<1>7. ASSUME NEW j \in jobs,
             \/ Actions!InstallDone(j) \/ Actions!Unheard(j) \/ Actions!Refused(j)
             \/ \E ok \in BOOLEAN : Actions!GraphDone(j, ok) \/ Actions!SourceDone(j, ok)
      PROVE  BandInv'
  <2>1. jobs' = jobs \ {j} /\ installing' = (installing /\ j.op # "install")
    BY <1>7
       DEF Actions!InstallDone, Actions!Unheard, Actions!Refused, Actions!GraphDone,
           Actions!SourceDone, Actions!band
  <2> QED BY <2>1, <1>4
<1>8. CASE \/ Actions!StartNext \/ Actions!EditUrl
              \/ (\E to \in {"convert", "fromsource"} : Actions!SelectTab(to))
           \/ (\E ok \in BOOLEAN : Actions!Finished(ok)) \/ UNCHANGED Actions!vars
  BY <1>8, <1>5
     DEF Actions!StartNext, Actions!EditUrl, Actions!SelectTab, Actions!Finished, Actions!vars,
         Actions!band
<1>9. CASE Actions!handleShowGraph \/ Actions!handleOciExport \/ Actions!handleOpenFolder
             \/ Actions!handleGenerate
  BY <1>2, <1>9
     DEF Actions!handleShowGraph, Actions!handleOciExport, Actions!handleOpenFolder,
         Actions!handleGenerate, Actions!band
<1> QED BY <1>1, <1>9, <1>6, <1>7, <1>8 DEF Actions!Next

\* The band installs one package at a time, for any bounds.
THEOREM OneInstallation == Actions!Spec => []Actions!OneBandInstall
<1>1. Actions!Init => BandInv
  BY DEF Actions!Init, BandInv, BandCalls, Actions!OneBandInstall, Actions!Installs
<1>2. BandInv => Actions!OneBandInstall
  BY DEF BandInv
<1> QED BY <1>1, <1>2, BandNext, PTL DEF Actions!Spec

\* Each kind of call is made once at a time, while the page waits for it.
BandWaits(b, op) ==
    /\ b <=> \E j \in jobs : j.op = op
    /\ \A j, k \in jobs : j.op = op /\ k.op = op => j = k
\* The step of a wizard's thread, as the page shows it
BandStep(j) == IF j.phase \in {"sent", "working"} THEN "starting" ELSE j.phase
BandWait ==
    /\ BandCalls
    /\ graphLoading \in BOOLEAN /\ installing \in BOOLEAN /\ sourceBusy \in BOOLEAN
    /\ BandWaits(graphLoading, "graph") /\ BandWaits(installing, "install")
    /\ BandWaits(sourceBusy, "source")
    /\ sourceStep = "" <=> ~sourceBusy
    /\ \A j \in jobs : j.op = "source" =>
         /\ j.phase \in {"sent", "working", "clone", "detect", "generate"}
         /\ sourceStep = BandStep(j)

LEMMA BandPhase ==
    ASSUME NEW j, j = [id |-> j.id, op |-> j.op, pkg |-> j.pkg, phase |-> j.phase], NEW p,
           NEW k, k = [j EXCEPT !.phase = p]
    PROVE  /\ k.op = j.op /\ k.phase = p
           /\ k = [id |-> k.id, op |-> k.op, pkg |-> k.pkg, phase |-> k.phase]
OBVIOUS

\* What the convert page waits for is under way, and its wizard is at the step
\* of its thread, whatever is refused.
THEOREM ActionsRest == Actions!Spec => []Actions!WaitsEnd
<1>1. Actions!Init => BandWait
  BY DEF Actions!Init, BandWait, BandCalls, BandWaits
<1>2. BandWait /\ [Actions!Next]_Actions!vars => BandWait'
  <2> SUFFICES ASSUME BandWait, [Actions!Next]_Actions!vars PROVE BandWait'
    OBVIOUS
  <2> USE DEF BandWait, BandCalls, BandWaits, BandStep, Actions!band, Actions!wizard
  <2>1. CASE UNCHANGED <<jobs, graphLoading, installing, sourceBusy, sourceStep>>
    BY <2>1
  <2>2. CASE \/ Actions!StartNext \/ Actions!EditUrl
                \/ (\E to \in {"convert", "fromsource"} : Actions!SelectTab(to))
             \/ (\E ok \in BOOLEAN : Actions!Finished(ok)) \/ UNCHANGED Actions!vars
    BY <2>1, <2>2
       DEF Actions!StartNext, Actions!EditUrl, Actions!SelectTab, Actions!Finished, Actions!vars
  <2>3. ASSUME NEW op, NEW pkg, Actions!Call(op, pkg)
        PROVE  \E r : /\ jobs' = jobs \cup {r} /\ r.op = op /\ r.phase = "sent"
                      /\ r = [id |-> r.id, op |-> r.op, pkg |-> r.pkg, phase |-> r.phase]
    <3> DEFINE r == [id |-> issued', op |-> op, pkg |-> pkg, phase |-> "sent"]
    <3>1. jobs' = jobs \cup {r}
      BY <2>3 DEF Actions!Call
    <3>2. /\ r.op = op /\ r.phase = "sent"
          /\ r = [id |-> r.id, op |-> r.op, pkg |-> r.pkg, phase |-> r.phase]
      OBVIOUS
    <3> HIDE DEF r
    <3> QED BY <3>1, <3>2
  <2>4. CASE Actions!handleInstall
    <3>1. PICK r : /\ jobs' = jobs \cup {r} /\ r.op = "install" /\ r.phase = "sent"
                   /\ r = [id |-> r.id, op |-> r.op, pkg |-> r.pkg, phase |-> r.phase]
      BY <2>3, <2>4 DEF Actions!handleInstall
    <3>2. /\ ~installing /\ installing' = TRUE
          /\ UNCHANGED <<graphLoading, sourceBusy, sourceStep>>
      BY <2>4 DEF Actions!handleInstall
    <3> QED BY <3>1, <3>2
  <2>5. CASE Actions!handleShowGraph
    <3>1. PICK r : /\ jobs' = jobs \cup {r} /\ r.op = "graph" /\ r.phase = "sent"
                   /\ r = [id |-> r.id, op |-> r.op, pkg |-> r.pkg, phase |-> r.phase]
      BY <2>3, <2>5 DEF Actions!handleShowGraph
    <3>2. /\ ~graphLoading /\ graphLoading' = TRUE
          /\ UNCHANGED <<installing, sourceBusy, sourceStep>>
      BY <2>5 DEF Actions!handleShowGraph
    <3> QED BY <3>1, <3>2
  <2>6. CASE Actions!handleGenerate
    <3>1. PICK r : /\ jobs' = jobs \cup {r} /\ r.op = "source" /\ r.phase = "sent"
                   /\ r = [id |-> r.id, op |-> r.op, pkg |-> r.pkg, phase |-> r.phase]
      BY <2>3, <2>6 DEF Actions!handleGenerate
    <3>2. /\ ~sourceBusy /\ sourceBusy' = TRUE /\ sourceStep' = "starting"
          /\ UNCHANGED <<graphLoading, installing>>
      BY <2>6 DEF Actions!handleGenerate
    <3> QED BY <3>1, <3>2
  <2>7. CASE Actions!handleOciExport \/ Actions!handleOpenFolder
    <3>1. PICK r : /\ jobs' = jobs \cup {r} /\ r.op \in {"oci", "open"}
                   /\ r = [id |-> r.id, op |-> r.op, pkg |-> r.pkg, phase |-> r.phase]
      BY <2>3, <2>7 DEF Actions!handleOciExport, Actions!handleOpenFolder
    <3>2. UNCHANGED <<graphLoading, installing, sourceBusy, sourceStep>>
      BY <2>7 DEF Actions!handleOciExport, Actions!handleOpenFolder
    <3> QED BY <3>1, <3>2
  <2>8. ASSUME NEW j \in jobs, NEW p, Actions!At(j, p),
               UNCHANGED <<graphLoading, installing, sourceBusy>>,
               IF j.op = "source"
               THEN /\ p \in {"working", "clone", "detect", "generate"}
                    /\ sourceStep' = IF p = "working" THEN "starting" ELSE p
               ELSE sourceStep' = sourceStep
        PROVE  BandWait'
    <3>0. j = [id |-> j.id, op |-> j.op, pkg |-> j.pkg, phase |-> j.phase]
      OBVIOUS
    <3> DEFINE k == [j EXCEPT !.phase = p]
    <3>1. /\ k.op = j.op /\ k.phase = p
          /\ k = [id |-> k.id, op |-> k.op, pkg |-> k.pkg, phase |-> k.phase]
      BY ONLY <3>0, BandPhase
    <3>2. jobs' = (jobs \ {j}) \cup {k}
      BY <2>8 DEF Actions!At
    <3> HIDE DEF k
    <3>3. BandCalls'
      BY <3>1, <3>2
    <3>4. \A op : (\E i \in jobs' : i.op = op) <=> (\E i \in jobs : i.op = op)
      BY <3>1, <3>2
    <3>5. ASSUME NEW op, \A i, l \in jobs : i.op = op /\ l.op = op => i = l
          PROVE  \A i, l \in jobs' : i.op = op /\ l.op = op => i = l
      BY <3>1, <3>2, <3>5
    <3>6. BandWaits(graphLoading, "graph")' /\ BandWaits(installing, "install")'
          /\ BandWaits(sourceBusy, "source")'
      BY <2>8, <3>4, <3>5
    <3>7. /\ sourceStep' = "" <=> ~sourceBusy'
          /\ \A i \in jobs' : i.op = "source" =>
               /\ i.phase \in {"sent", "working", "clone", "detect", "generate"}
               /\ sourceStep' = BandStep(i)
      BY <2>8, <3>1, <3>2
    <3> QED BY <2>8, <3>3, <3>6, <3>7
  <2>9. ASSUME NEW j \in jobs, Actions!Begin(j) PROVE BandWait'
    <3>1. /\ j.phase = "sent" /\ Actions!At(j, "working")
          /\ UNCHANGED <<graphLoading, installing, sourceBusy, sourceStep>>
      BY <2>9 DEF Actions!Begin
    <3>2. j.op = "source" => sourceStep = "starting"
      BY <3>1
    <3> QED BY <2>8, <3>1, <3>2
  <2>10. ASSUME NEW j \in jobs, NEW s \in Actions!Steps, Actions!SourceProgress(j, s)
         PROVE  BandWait'
    <3>1. /\ j.op = "source" /\ s \in {"clone", "detect", "generate"} /\ Actions!At(j, s)
          /\ sourceStep' = s /\ UNCHANGED <<graphLoading, installing, sourceBusy>>
      BY <2>10 DEF Actions!SourceProgress
    <3> QED BY <2>8, <3>1
  <2>11. ASSUME NEW j \in jobs, jobs' = jobs \ {j},
                graphLoading' = (graphLoading /\ j.op # "graph"),
                installing' = (installing /\ j.op # "install"),
                sourceBusy' = (sourceBusy /\ j.op # "source"),
                sourceStep' = IF j.op = "source" THEN "" ELSE sourceStep
         PROVE  BandWait'
    <3>1. BandCalls'
      BY <2>11
    <3>2. BandWaits(graphLoading, "graph")'
      BY <2>11
    <3>3. BandWaits(installing, "install")'
      BY <2>11
    <3>4. BandWaits(sourceBusy, "source")'
      BY <2>11
    <3>5. /\ sourceStep' = "" <=> ~sourceBusy'
          /\ \A i \in jobs' : i.op = "source" =>
               /\ i.phase \in {"sent", "working", "clone", "detect", "generate"}
               /\ sourceStep' = BandStep(i)
      BY <2>11
    <3> QED BY <2>11, <3>1, <3>2, <3>3, <3>4, <3>5
  <2>12. ASSUME NEW j \in jobs,
                \/ Actions!InstallDone(j) \/ Actions!Unheard(j) \/ Actions!Refused(j)
                \/ \E ok \in BOOLEAN : Actions!GraphDone(j, ok) \/ Actions!SourceDone(j, ok)
         PROVE  BandWait'
    <3>1. CASE Actions!InstallDone(j)
      BY <3>1, <2>11 DEF Actions!InstallDone
    <3>2. CASE Actions!Unheard(j)
      BY <3>2, <2>11 DEF Actions!Unheard
    <3>3. CASE Actions!Refused(j)
      BY <3>3, <2>11 DEF Actions!Refused
    <3>4. ASSUME NEW ok \in BOOLEAN, Actions!GraphDone(j, ok) \/ Actions!SourceDone(j, ok)
          PROVE  BandWait'
      BY <3>4, <2>11 DEF Actions!GraphDone, Actions!SourceDone
    <3> QED BY <2>12, <3>1, <3>2, <3>3, <3>4
  <2> QED
    BY <2>2, <2>4, <2>5, <2>6, <2>7, <2>9, <2>10, <2>12 DEF Actions!Next
<1>3. BandWait => Actions!WaitsEnd
  BY DEF BandWait, BandWaits, BandStep, Actions!WaitsEnd, Actions!Installs
<1> QED BY <1>1, <1>2, <1>3, PTL DEF Actions!Spec

-----------------------------------------------------------------------------
(* The fleet page *)

\* The fleet page, opened once: the settings page does not wait for the end of
\* a transfer, and neither does a page that is opened while one is under way.
FleetOnce == Cloud!CloudAssumption /\ CloudPages = {"fleet"} /\ Visits["cloud"] <= 1

Writes == {j \in jobs : j.op # "status"}
CloudCalls ==
    \A j \in jobs : j = [id |-> j.id, op |-> j.op, visit |-> j.visit, phase |-> j.phase]
FleetOpen ==
    /\ visit \in {0, 1} /\ page \in CloudPages \cup {None}
    /\ visit = 0 => (page = None /\ jobs = {})

\* What is not a look keeps the buttons of the page off, and is the only call
\* of its kind.
CloudInv ==
    /\ CloudCalls /\ FleetOpen /\ syncBusy \in BOOLEAN
    /\ \A j, k \in Writes : j = k
    /\ (page # None /\ Writes # {}) => syncBusy

LEMMA CloudNext == FleetOnce /\ CloudInv /\ [Cloud!Next]_Cloud!vars => CloudInv'
<1> SUFFICES ASSUME FleetOnce, CloudInv, [Cloud!Next]_Cloud!vars PROVE CloudInv'
  OBVIOUS
<1>0. /\ Visits["cloud"] \in {0, 1} /\ visit \in {0, 1}
      /\ page \in {None, "fleet"} /\ None \notin {"fleet", "settings"}
  BY DEF FleetOnce, Cloud!CloudAssumption, CloudInv, FleetOpen
<1> USE <1>0 DEF CloudInv, CloudCalls, FleetOpen, Writes
<1>1. CASE Cloud!OpenFleet
  <2>1. /\ visit = 0 /\ jobs = {} /\ visit' = 1 /\ page' = "fleet"
        /\ syncBusy' = FALSE
        /\ jobs' = {[id |-> issued', op |-> "status", visit |-> visit', phase |-> "sent"]}
    BY <1>1 DEF Cloud!OpenFleet, Cloud!Call
  <2>2. Writes' = {} /\ page' \in CloudPages
    BY <2>1 DEF FleetOnce
  <2>3. CloudCalls'
    BY <2>1
  <2>4. FleetOpen'
    BY <2>1, <2>2
  <2> QED BY <2>1, <2>2, <2>3, <2>4
<1>2. CASE Cloud!RefreshFleet
  <2>1. /\ visit = 1 /\ UNCHANGED <<page, visit, syncBusy>>
        /\ jobs' = jobs \cup {[id |-> issued', op |-> "status", visit |-> visit, phase |-> "sent"]}
    BY <1>2 DEF Cloud!RefreshFleet, Cloud!FleetCard, Cloud!Call
  <2>2. Writes' = Writes
    BY <2>1
  <2> QED BY <2>1, <2>2
<1>3. ASSUME NEW op, Cloud!FleetSync(op) PROVE CloudInv'
  <2>1. Writes = {} /\ page = "fleet" /\ visit = 1
    BY <1>3 DEF Cloud!FleetSync, Cloud!FleetCard
  <2>2. /\ jobs' = jobs \cup {[id |-> issued', op |-> op, visit |-> visit, phase |-> "sent"]}
        /\ syncBusy' /\ syncBusy' \in BOOLEAN /\ UNCHANGED <<page, visit>>
    BY <1>3 DEF Cloud!FleetSync, Cloud!Call
  <2> QED BY <2>1, <2>2
<1>4. ASSUME NEW op, Cloud!OpenSettings \/ Cloud!EditUrl \/ Cloud!runSyncCall(op) PROVE CloudInv'
  BY <1>4 DEF Cloud!OpenSettings, Cloud!EditUrl, Cloud!runSyncCall, Cloud!CloudTab, FleetOnce
<1>5. CASE Cloud!Leave
  BY <1>5 DEF Cloud!Leave
<1>6. ASSUME NEW j \in jobs, Cloud!Begin(j) PROVE CloudInv'
  <2>1. /\ jobs' = (jobs \ {j}) \cup {[j EXCEPT !.phase = "started"]} /\ j \in Writes
        /\ UNCHANGED <<page, visit, syncBusy>>
    BY <1>6 DEF Cloud!Begin, Cloud!Transfers
  <2> QED BY <2>1
<1>7. ASSUME NEW j \in jobs, Cloud!SyncDone(j) \/ Cloud!Respond(j) PROVE CloudInv'
  <2>1. /\ jobs' = jobs \ {j} /\ j \in Writes /\ syncBusy' \in BOOLEAN /\ UNCHANGED <<page, visit>>
    BY <1>7 DEF Cloud!SyncDone, Cloud!Respond, Cloud!Transfers
  <2> QED BY <2>1
<1>8. ASSUME NEW j \in jobs, NEW ok \in BOOLEAN, Cloud!Looked(j, ok) PROVE CloudInv'
  BY <1>8 DEF Cloud!Looked
<1>9. CASE UNCHANGED Cloud!vars
  BY <1>9 DEF Cloud!vars
<1> QED BY <1>1, <1>2, <1>3, <1>4, <1>5, <1>6, <1>7, <1>8, <1>9 DEF Cloud!Next

\* On a fleet page that is opened once a push and a pull are not under way
\* together.
THEOREM TransfersAlone == FleetOnce => (Cloud!Spec => []Cloud!OneTransfer)
<1> SUFFICES ASSUME FleetOnce PROVE Cloud!Spec => []Cloud!OneTransfer
  OBVIOUS
<1>1. Cloud!Init => CloudInv
  BY DEF Cloud!Init, CloudInv, CloudCalls, FleetOpen, Writes, FleetOnce, Cloud!CloudAssumption
<1>3. CloudInv /\ [Cloud!Next]_Cloud!vars => CloudInv'
  BY CloudNext
<1>2. CloudInv => Cloud!OneTransfer
  BY DEF CloudInv, Writes, Cloud!OneTransfer, Cloud!Transfers
<1> QED BY <1>1, <1>2, <1>3, PTL DEF Cloud!Spec

\* What a page waits for is a call of this visit; the settings page waits for
\* no transfer that has begun.
CloudWait ==
    /\ CloudCalls /\ page \in {None, "fleet", "settings"}
    /\ page # None /\ syncBusy =>
         \E j \in jobs : j.visit = visit /\ j.op # "status" /\ (page # "fleet" => j.phase = "sent")
    /\ page # None /\ busy => \E j \in jobs : j.visit = visit /\ j.op = "status"

LEMMA CloudAdds ==
    ASSUME CloudWait, NEW op, NEW v, Cloud!Call(op, v)
    PROVE  \E r : /\ jobs' = jobs \cup {r} /\ r.op = op /\ r.visit = v /\ r.phase = "sent"
                  /\ r = [id |-> r.id, op |-> r.op, visit |-> r.visit, phase |-> r.phase]
<1> DEFINE r == [id |-> issued', op |-> op, visit |-> v, phase |-> "sent"]
<1>1. jobs' = jobs \cup {r}
  BY DEF Cloud!Call
<1>2. /\ r.op = op /\ r.visit = v /\ r.phase = "sent"
      /\ r = [id |-> r.id, op |-> r.op, visit |-> r.visit, phase |-> r.phase]
  OBVIOUS
<1> HIDE DEF r
<1> QED BY <1>1, <1>2

\* The fleet page and the cloud tab wait only for calls of theirs that are
\* under way, whatever is refused, overtakes or was left behind.
THEOREM CloudRests == Cloud!Spec => []Cloud!WaitsEnd
<1>1. Cloud!Init => CloudWait
  BY DEF Cloud!Init, CloudWait, CloudCalls
<1>2. CloudWait /\ [Cloud!Next]_Cloud!vars => CloudWait'
  <2> SUFFICES ASSUME CloudWait, [Cloud!Next]_Cloud!vars PROVE CloudWait'
    OBVIOUS
  <2>1. CASE UNCHANGED Cloud!vars \/ Cloud!Leave \/ Cloud!EditUrl
    BY <2>1 DEF Cloud!vars, Cloud!Leave, Cloud!EditUrl, CloudWait, CloudCalls
  <2>2. CASE Cloud!OpenFleet
    <3>1. /\ page' = "fleet" /\ syncBusy' = FALSE
          /\ \E v : v = visit' /\ Cloud!Call("status", v)
      BY <2>2 DEF Cloud!OpenFleet
    <3>2. PICK r : /\ jobs' = jobs \cup {r} /\ r.op = "status" /\ r.visit = visit'
                   /\ r = [id |-> r.id, op |-> r.op, visit |-> r.visit, phase |-> r.phase]
      BY <3>1, CloudAdds
    <3> QED BY <3>1, <3>2 DEF CloudWait, CloudCalls
  <2>3. CASE Cloud!OpenSettings
    BY <2>3 DEF Cloud!OpenSettings, CloudWait, CloudCalls
  <2>4. CASE Cloud!RefreshFleet
    <3>1. UNCHANGED <<page, visit, syncBusy>> /\ \E v : v = visit /\ Cloud!Call("status", v)
      BY <2>4 DEF Cloud!RefreshFleet
    <3>2. PICK r : /\ jobs' = jobs \cup {r} /\ r.op = "status" /\ r.visit = visit
                   /\ r = [id |-> r.id, op |-> r.op, visit |-> r.visit, phase |-> r.phase]
      BY <3>1, CloudAdds
    <3> QED BY <3>1, <3>2 DEF CloudWait, CloudCalls
  <2>5. ASSUME NEW op \in Cloud!Transfers \cup Cloud!Direct,
               Cloud!FleetSync(op) \/ Cloud!runSyncCall(op)
        PROVE  CloudWait'
    <3>1. UNCHANGED <<page, visit, busy>> /\ \E v : v = visit /\ Cloud!Call(op, v)
      BY <2>5 DEF Cloud!FleetSync, Cloud!runSyncCall
    <3>2. PICK r : /\ jobs' = jobs \cup {r} /\ r.op = op /\ r.visit = visit /\ r.phase = "sent"
                   /\ r = [id |-> r.id, op |-> r.op, visit |-> r.visit, phase |-> r.phase]
      BY <3>1, CloudAdds
    <3>3. op # "status"
      BY DEF Cloud!Transfers, Cloud!Direct
    <3> QED BY <3>1, <3>2, <3>3 DEF CloudWait, CloudCalls
  <2>6. ASSUME NEW j \in jobs, Cloud!Begin(j) PROVE CloudWait'
    <3> DEFINE k == [j EXCEPT !.phase = "started"]
    <3>1. /\ j.op \in Cloud!Transfers /\ jobs' = (jobs \ {j}) \cup {k}
             /\ UNCHANGED <<page, visit, busy>>
          /\ syncBusy' = IF Cloud!Here(j) /\ page = "settings" THEN FALSE ELSE syncBusy
      BY <2>6 DEF Cloud!Begin
    <3>2. /\ k = [id |-> k.id, op |-> k.op, visit |-> k.visit, phase |-> k.phase]
          /\ k.op = j.op /\ k.visit = j.visit
      BY DEF CloudWait, CloudCalls
    <3>3. j.op # "status"
      BY <3>1 DEF Cloud!Transfers
    <3> HIDE DEF k
    <3> QED BY <3>1, <3>2, <3>3 DEF CloudWait, CloudCalls, Cloud!Here
  <2>7. ASSUME NEW j \in jobs, Cloud!SyncDone(j) PROVE CloudWait'
    <3>1. /\ j.op # "status" /\ j.phase = "started" /\ jobs' = jobs \ {j}
          /\ UNCHANGED <<page, visit, busy>> /\ syncBusy' = (syncBusy /\ page # "fleet")
      BY <2>7 DEF Cloud!SyncDone, Cloud!Transfers
    <3> QED BY <3>1 DEF CloudWait, CloudCalls
  <2>8. ASSUME NEW j \in jobs, Cloud!Respond(j) PROVE CloudWait'
    <3>1. /\ j.op # "status" /\ jobs' = jobs \ {j}
          /\ UNCHANGED <<page, visit, busy>> /\ syncBusy' = (syncBusy /\ ~Cloud!Here(j))
      BY <2>8 DEF Cloud!Respond
    <3> QED BY <3>1 DEF CloudWait, CloudCalls, Cloud!Here
  <2>9. ASSUME NEW j \in jobs, NEW ok \in BOOLEAN, Cloud!Looked(j, ok) PROVE CloudWait'
    <3>1. /\ j.op = "status" /\ jobs' = jobs \ {j}
          /\ UNCHANGED <<page, visit, syncBusy>> /\ busy' = (busy /\ ~Cloud!Here(j))
      BY <2>9 DEF Cloud!Looked
    <3> QED BY <3>1 DEF CloudWait, CloudCalls, Cloud!Here
  <2> QED BY <2>1, <2>2, <2>3, <2>4, <2>5, <2>6, <2>7, <2>8, <2>9 DEF Cloud!Next
<1>3. CloudWait => Cloud!WaitsEnd
  BY DEF CloudWait, Cloud!WaitsEnd
<1> QED BY <1>1, <1>2, <1>3, PTL DEF Cloud!Spec

-----------------------------------------------------------------------------
(* The batch tab *)

\* What the queue has still to be told, to do or to say of a run, of which
\* there is one thing at most: a start that is not taken yet or was refused,
\* the dispatcher, or the news of its end.
StartCalls  == {j \in jobs : j.op = "start" /\ j.phase # "done"}
Unruly  == {j \in jobs : j.op \in {"add", "clear"} /\ j.phase = "sent"}
BatchCall(j) == j = [id |-> j.id, op |-> j.op, item |-> j.item, arg |-> j.arg,
                     install |-> j.install, phase |-> j.phase, saw |-> j.saw]
\* Nobody's time-out passes.
Heard(j) == j.phase # "unheard"
BatchCalls ==
    /\ \A j \in jobs : Heard(j)
    /\ issued \in Nat /\ \A j \in jobs : BatchCall(j) /\ j.id \in Nat /\ j.id <= issued
OneRun ==
    /\ \A j, k \in StartCalls : j = k
    /\ doneEvents \in {0, 1}
    /\ StartCalls # {} => (dispatcher = {} /\ doneEvents = 0)
    /\ dispatcher # {} => doneEvents = 0
\* The tab knows of it; its dialog is not open meanwhile, and what it sent
\* before comes first.
TabKnows ==
    /\ batchRunning \in BOOLEAN /\ confirmBatchClear \in BOOLEAN
    /\ (StartCalls # {} \/ dispatcher # {} \/ doneEvents # 0) => batchRunning
    /\ confirmBatchClear => ~batchRunning
    /\ \A s \in StartCalls, k \in Unruly : s.phase = "sent" => k.id < s.id
    /\ dispatcher # {} => Unruly = {}
BatchInv == BatchCalls /\ OneRun /\ TabKnows

LEMMA BatchAnswered ==
    ASSUME NEW j, BatchCall(j), NEW p, NEW s
    PROVE  [j EXCEPT !.phase = p, !.saw = s]
             = [id |-> j.id, op |-> j.op, item |-> j.item, arg |-> j.arg,
                install |-> j.install, phase |-> p, saw |-> s]
<1> DEFINE k == [j EXCEPT !.phase = p]
<1>1. k = [id |-> j.id, op |-> j.op, item |-> j.item, arg |-> j.arg,
           install |-> j.install, phase |-> p, saw |-> j.saw]
  BY DEF BatchCall
<1>2. [j EXCEPT !.phase = p, !.saw = s] = [k EXCEPT !.saw = s]
  OBVIOUS
<1> HIDE DEF k
<1> QED BY <1>1, <1>2

\* A call of the tab that starts nothing
LEMMA BatchAsks ==
    ASSUME BatchInv, NEW op, NEW i, NEW arg, BatchList!Call(op, i, arg), op # "start",
           op \in {"add", "clear"} => ~batchRunning,
           UNCHANGED <<batchRunning, dispatcher, doneEvents>>,
           confirmBatchClear' \in BOOLEAN, confirmBatchClear' => ~batchRunning
    PROVE  BatchInv'
<1> DEFINE r == BatchList!Request(issued', op, i, arg)
<1>1. /\ issued' = issued + 1 /\ issued' \in Nat /\ jobs' = jobs \cup {r}
      /\ r.id = issued' /\ r.op = op /\ r.phase = "sent"
      /\ BatchCall(r) /\ Heard(r)
  BY DEF BatchList!Call, BatchList!Request, BatchInv, BatchCalls, BatchCall, Heard
<1> HIDE DEF r
<1>2. BatchCalls'
  BY <1>1 DEF BatchInv, BatchCalls, BatchCall, Heard
<1>3. StartCalls' = StartCalls
  BY <1>1 DEF StartCalls
<1>4. Unruly' \subseteq Unruly \cup {r} /\ (op \notin {"add", "clear"} => Unruly' \subseteq Unruly)
  BY <1>1 DEF Unruly
<1>5. OneRun'
  BY <1>3 DEF BatchInv, OneRun
<1>6. TabKnows'
  BY <1>3, <1>4 DEF BatchInv, TabKnows
<1> QED BY <1>2, <1>5, <1>6 DEF BatchInv

\* A call is worked on, or ends, and it was no start.
LEMMA BatchGoesOn ==
    ASSUME BatchInv, NEW j \in jobs, j.op # "start" \/ j.phase = "done", NEW J,
           jobs' = (jobs \ {j}) \cup J,
           \A k \in J : /\ k.op # "start" /\ (k.op \notin {"add", "clear"} \/ k.phase # "sent")
                        /\ BatchCall(k) /\ Heard(k) /\ k.id \in Nat /\ k.id <= issued',
           issued' \in {issued, issued + 1},
           UNCHANGED <<batchRunning, confirmBatchClear, dispatcher, doneEvents>>
    PROVE  BatchInv'
<1>1. issued \in Nat /\ issued' \in Nat /\ issued <= issued'
  BY DEF BatchInv, BatchCalls
<1>2. BatchCalls'
  BY <1>1 DEF BatchInv, BatchCalls, BatchCall, Heard
<1>3. StartCalls' = StartCalls
  BY DEF StartCalls
<1>4. Unruly' \subseteq Unruly
  BY DEF Unruly
<1>5. OneRun'
  BY <1>3 DEF BatchInv, OneRun
<1>6. TabKnows'
  BY <1>3, <1>4 DEF BatchInv, TabKnows
<1> QED BY <1>2, <1>5, <1>6 DEF BatchInv

\* The same without a step of a call
LEMMA BatchRests ==
    ASSUME BatchInv, UNCHANGED <<jobs, issued, batchRunning, dispatcher, doneEvents>>,
           confirmBatchClear' \in BOOLEAN, confirmBatchClear' => ~batchRunning
    PROVE  BatchInv'
  BY DEF BatchInv, BatchCalls, BatchCall, Heard, OneRun, TabKnows, StartCalls, Unruly

LEMMA BatchNext == ~Rough /\ BatchInv /\ [BatchList!Next]_BatchList!vars => BatchInv'
<1> SUFFICES ASSUME ~Rough, BatchInv, [BatchList!Next]_BatchList!vars PROVE BatchInv'
  OBVIOUS
<1>0. /\ batchRunning \in BOOLEAN /\ confirmBatchClear \in BOOLEAN
      /\ confirmBatchClear => ~batchRunning
  BY DEF BatchInv, TabKnows
<1>1. CASE BatchList!OpenTab \/ BatchList!Refresh
  BY <1>0, <1>1, BatchAsks DEF BatchList!OpenTab, BatchList!Refresh, BatchList!page, BatchList!queue
<1>2. CASE BatchList!CloseTab \/ BatchList!SetInstall \/ BatchList!handleBatchClearRequest
             \/ UNCHANGED BatchList!vars
  <2>1. UNCHANGED <<jobs, issued, batchRunning, dispatcher, doneEvents>>
    BY <1>2
       DEF BatchList!CloseTab, BatchList!SetInstall, BatchList!handleBatchClearRequest,
           BatchList!vars, BatchList!page, BatchList!queue
  <2>2. CASE BatchList!handleBatchClearRequest
    BY <2>1, <2>2, BatchRests DEF BatchList!handleBatchClearRequest
  <2>3. CASE UNCHANGED confirmBatchClear
    BY <1>0, <2>1, <2>3, BatchRests
  <2>4. BatchList!handleBatchClearRequest \/ UNCHANGED confirmBatchClear
    BY <1>2 DEF BatchList!CloseTab, BatchList!SetInstall, BatchList!vars, BatchList!page
  <2> QED BY <2>2, <2>3, <2>4
<1>3. CASE BatchList!handleBatchAdd
  BY <1>0, <1>3, BatchAsks DEF BatchList!handleBatchAdd, BatchList!page, BatchList!queue
<1>4. ASSUME NEW i, NEW d,
             BatchList!handleBatchPriority(i, d) \/ BatchList!handleBatchRemove(i)
               \/ BatchList!handleBatchCancel(i)
      PROVE  BatchInv'
  BY <1>0, <1>4, BatchAsks
     DEF BatchList!handleBatchPriority, BatchList!handleBatchRemove, BatchList!handleBatchCancel,
         BatchList!page, BatchList!queue
<1>5. ASSUME NEW yes \in BOOLEAN, BatchList!handleBatchClear(yes) PROVE BatchInv'
  BY <1>0, <1>5, BatchAsks, BatchRests DEF BatchList!handleBatchClear, BatchList!queue
<1>6. CASE BatchList!handleBatchStart
  <2> DEFINE r == BatchList!Request(issued', "start", 0, 0)
  <2>1. /\ ~batchRunning /\ ~confirmBatchClear /\ batchRunning' = TRUE
        /\ UNCHANGED <<confirmBatchClear, dispatcher, doneEvents>>
        /\ issued' = issued + 1 /\ issued' \in Nat /\ jobs' = jobs \cup {r}
    BY <1>6
       DEF BatchList!handleBatchStart, BatchList!Tab, BatchList!Call, BatchList!queue, BatchInv,
           BatchCalls
  <2>2. BatchCall(r) /\ Heard(r) /\ r.id = issued' /\ r.op = "start" /\ r.phase = "sent"
    BY DEF BatchList!Request, BatchCall, Heard
  <2>3. StartCalls = {} /\ dispatcher = {} /\ doneEvents = 0
    BY <2>1 DEF BatchInv, TabKnows
  <2> HIDE DEF r
  <2>4. BatchCalls'
    BY <2>1, <2>2 DEF BatchInv, BatchCalls, BatchCall, Heard
  <2>5. StartCalls' = {r} /\ Unruly' = Unruly
    BY <2>1, <2>2, <2>3 DEF StartCalls, Unruly
  <2>6. OneRun'
    BY <2>1, <2>3, <2>5 DEF OneRun
  <2>7. \A k \in Unruly : k.id < r.id
    BY <2>1, <2>2 DEF Unruly, BatchInv, BatchCalls
  <2>8. TabKnows'
    BY <1>0, <2>1, <2>3, <2>5, <2>7 DEF TabKnows
  <2> QED BY <2>4, <2>6, <2>8 DEF BatchInv
<1>7. ASSUME NEW j \in jobs,
             BatchList!QueueList(j) \/ BatchList!QueueChange(j) \/ BatchList!QueueCancel(j)
      PROVE  BatchInv'
  <2>0. j.phase # "unheard"
    BY DEF BatchInv, BatchCalls, Heard
  <2>1. PICK phase \in {"done", "refused"} : \E s :
                                               jobs' = (jobs \ {j}) \cup
                                                 {[j EXCEPT !.phase = phase, !.saw = s]}
    BY <1>7, <2>0 DEF BatchList!QueueList, BatchList!QueueChange, BatchList!QueueCancel, BatchList!Answer
  <2>2. PICK s : jobs' = (jobs \ {j}) \cup {[j EXCEPT !.phase = phase, !.saw = s]}
    BY <2>1
  <2> DEFINE k == [j EXCEPT !.phase = phase, !.saw = s]
  <2>3. BatchCall(k) /\ Heard(k) /\ k.op = j.op /\ k.id = j.id /\ k.phase = phase
    <3>1. BatchCall(j)
      BY DEF BatchInv, BatchCalls
    <3>2. k = [id |-> j.id, op |-> j.op, item |-> j.item, arg |-> j.arg,
               install |-> j.install, phase |-> phase, saw |-> s]
      BY <3>1, BatchAnswered
    <3> HIDE DEF k
    <3> QED BY <3>2 DEF BatchCall, Heard
  <2>4. /\ j.op # "start"
           /\ UNCHANGED <<issued, batchRunning, confirmBatchClear, dispatcher, doneEvents>>
    BY <1>7
       DEF BatchList!QueueList, BatchList!QueueChange, BatchList!QueueCancel, BatchList!page,
           BatchList!queue
  <2>5. j.id \in Nat /\ j.id <= issued
    BY DEF BatchInv, BatchCalls
  <2> HIDE DEF k
  <2>6. \A x \in {k} : /\ x.op # "start" /\ (x.op \notin {"add", "clear"} \/ x.phase # "sent")
                       /\ BatchCall(x) /\ Heard(x) /\ x.id \in Nat /\ x.id <= issued'
    BY <2>3, <2>4, <2>5
  <2>7. jobs' = (jobs \ {j}) \cup {k} /\ issued' \in {issued, issued + 1}
    BY <2>2, <2>4 DEF k
  <2> QED BY <2>4, <2>6, <2>7, BatchGoesOn
<1>8. ASSUME NEW j \in jobs, BatchList!QueueStart(j) PROVE BatchInv'
  <2>0. j.phase # "unheard"
    BY DEF BatchInv, BatchCalls, Heard
  <2>1. PICK phase \in {"done", "refused"} :
          /\ jobs' = (jobs \ {j}) \cup {[j EXCEPT !.phase = phase, !.saw = BatchList!Nothing]}
          /\ phase = "refused" => UNCHANGED dispatcher
    BY <1>8, <2>0 DEF BatchList!QueueStart, BatchList!Answer
  <2> DEFINE k == [j EXCEPT !.phase = phase, !.saw = BatchList!Nothing]
  <2>2. BatchCall(j) /\ j.op = "start" /\ j.phase = "sent" /\ j \in StartCalls /\ j.id \in Nat
          /\ j.id <= issued
    BY <1>8, <2>0
       DEF BatchList!QueueStart, BatchList!Turn, BatchList!Queued, StartCalls, BatchInv, BatchCalls
  <2>3. BatchCall(k) /\ Heard(k) /\ k.op = "start" /\ k.id = j.id /\ k.phase = phase
    <3>1. k = [id |-> j.id, op |-> j.op, item |-> j.item, arg |-> j.arg,
               install |-> j.install, phase |-> phase, saw |-> BatchList!Nothing]
      BY <2>2, BatchAnswered
    <3> HIDE DEF k
    <3> QED BY <2>2, <3>1 DEF BatchCall, Heard
  <2>4. /\ dispatcher = {} /\ doneEvents = 0 /\ StartCalls = {j} /\ batchRunning
        /\ UNCHANGED <<issued, doneEvents, batchRunning, confirmBatchClear>>
    BY <1>8, <2>2 DEF BatchList!QueueStart, BatchList!page, BatchInv, OneRun, TabKnows
  <2>5. Unruly = {}
    BY <1>8, <2>2, <2>4
       DEF BatchList!QueueStart, BatchList!Turn, BatchList!Queued, Unruly, BatchInv, BatchCalls,
           TabKnows
  <2>6. jobs' = (jobs \ {j}) \cup {k}
    BY <2>1
  <2> HIDE DEF k
  <2>7. BatchCalls'
    BY <2>2, <2>3, <2>4, <2>6 DEF BatchInv, BatchCalls, BatchCall, Heard
  <2>8. Unruly' = {} /\ StartCalls' = IF phase = "done" THEN {} ELSE {k}
    BY <2>3, <2>4, <2>5, <2>6 DEF Unruly, StartCalls
  <2>9. OneRun'
    BY <2>1, <2>4, <2>8 DEF OneRun
  <2>10. TabKnows'
    BY <1>0, <2>4, <2>8 DEF TabKnows, BatchInv
  <2> QED BY <2>7, <2>9, <2>10 DEF BatchInv
<1>9. CASE BatchList!Wave \/ BatchList!RunEnds
             \/ \E i \in BatchList!Ids, ok \in BOOLEAN : BatchList!ItemEnds(i, ok)
  <2>1. UNCHANGED <<jobs, issued, batchRunning, confirmBatchClear>>
    BY <1>9 DEF BatchList!Wave, BatchList!RunEnds, BatchList!ItemEnds, BatchList!page
  <2>2. CASE UNCHANGED <<dispatcher, doneEvents>>
    BY <1>0, <2>1, <2>2, BatchRests
  <2>3. CASE BatchList!RunEnds
    <3>1. dispatcher # {} /\ dispatcher' = {} /\ doneEvents = 0 /\ doneEvents' = 1
            /\ StartCalls = {}
      BY <2>3 DEF BatchList!RunEnds, BatchInv, OneRun
    <3>2. StartCalls' = StartCalls /\ Unruly' = Unruly
      BY <2>1 DEF StartCalls, Unruly
    <3>3. BatchCalls'
      BY <2>1 DEF BatchInv, BatchCalls
    <3>4. OneRun' /\ TabKnows'
      BY <2>1, <3>1, <3>2 DEF BatchInv, OneRun, TabKnows
    <3> QED BY <3>3, <3>4 DEF BatchInv
  <2> QED BY <1>9, <2>2, <2>3 DEF BatchList!Wave, BatchList!ItemEnds
<1>10. CASE BatchList!QueueDone
  <2>1. /\ doneEvents = 1 /\ doneEvents' = 0 /\ StartCalls = {} /\ dispatcher = {}
        /\ batchRunning' = FALSE /\ BatchList!Call("list", 0, 0)
           /\ UNCHANGED <<confirmBatchClear, dispatcher>>
    BY <1>10 DEF BatchList!QueueDone, BatchInv, OneRun
  <2> DEFINE r == BatchList!Request(issued', "list", 0, 0)
  <2>2. /\ issued' = issued + 1 /\ issued' \in Nat /\ jobs' = jobs \cup {r}
        /\ BatchCall(r) /\ Heard(r) /\ r.id = issued' /\ r.op = "list"
    BY <2>1 DEF BatchList!Call, BatchList!Request, BatchInv, BatchCalls, BatchCall, Heard
  <2> HIDE DEF r
  <2>3. BatchCalls'
    BY <2>2 DEF BatchInv, BatchCalls, BatchCall, Heard
  <2>4. StartCalls' = {} /\ Unruly' = Unruly
    BY <2>1, <2>2 DEF StartCalls, Unruly
  <2>5. OneRun' /\ TabKnows'
    BY <1>0, <2>1, <2>4 DEF OneRun, TabKnows
  <2> QED BY <2>3, <2>5 DEF BatchInv
<1>11. ASSUME NEW j \in jobs, NEW ok \in BOOLEAN,
              BatchList!Listed(j, ok) \/ BatchList!Changed(j, ok)
       PROVE  BatchInv'
  <2>1. /\ j.op # "start" /\ UNCHANGED <<batchRunning, confirmBatchClear, dispatcher, doneEvents>>
    BY <1>11
       DEF BatchList!Listed, BatchList!Changed, BatchList!Changes, BatchList!page, BatchList!queue
  <2> DEFINE r == BatchList!Request(issued', "list", 0, 0)
  <2>2. CASE jobs' = jobs \ {j} /\ UNCHANGED issued
    <3> DEFINE J == {}
    <3>1. jobs' = (jobs \ {j}) \cup J /\ issued' \in {issued, issued + 1}
      BY <2>2
    <3>2. \A x \in J : /\ x.op # "start" /\ (x.op \notin {"add", "clear"} \/ x.phase # "sent")
                       /\ BatchCall(x) /\ Heard(x) /\ x.id \in Nat /\ x.id <= issued'
      OBVIOUS
    <3> HIDE DEF J
    <3> QED BY <2>1, <3>1, <3>2, BatchGoesOn
  <2>3. CASE issued' = issued + 1 /\ jobs' = (jobs \ {j}) \cup {r}
    <3>1. issued' \in Nat
      BY <2>3 DEF BatchInv, BatchCalls
    <3>2. \A x \in {r} : /\ x.op # "start" /\ (x.op \notin {"add", "clear"} \/ x.phase # "sent")
                         /\ BatchCall(x) /\ Heard(x) /\ x.id \in Nat /\ x.id <= issued'
      BY <3>1 DEF BatchList!Request, BatchCall, Heard
    <3>3. issued' \in {issued, issued + 1} /\ jobs' = (jobs \ {j}) \cup {r}
      BY <2>3
    <3> HIDE DEF r
    <3> QED BY <2>1, <3>2, <3>3, BatchGoesOn
  <2> QED BY <1>11, <2>2, <2>3 DEF BatchList!Listed, BatchList!Changed
<1>12. ASSUME NEW j \in jobs, NEW ok \in BOOLEAN, BatchList!Started(j, ok) PROVE BatchInv'
  <2>1. /\ j.op = "start" /\ jobs' = jobs \ {j} /\ batchRunning' \in BOOLEAN
        /\ UNCHANGED <<issued, confirmBatchClear, dispatcher, doneEvents>>
    BY <1>12 DEF BatchList!Started, BatchList!queue
  <2>2. BatchCalls' /\ StartCalls' = StartCalls \ {j} /\ Unruly' = Unruly
    BY <2>1 DEF BatchInv, BatchCalls, StartCalls, Unruly
  <2>3. OneRun'
    BY <2>1, <2>2 DEF BatchInv, OneRun
  <2>4. CASE j \in StartCalls
    <3>1. StartCalls' = {} /\ dispatcher' = {} /\ doneEvents' = 0 /\ batchRunning
            /\ confirmBatchClear' = FALSE
      BY <1>0, <2>1, <2>2, <2>4 DEF BatchInv, OneRun, TabKnows
    <3> QED BY <2>1, <2>2, <2>3, <3>1 DEF TabKnows, BatchInv
  <2>5. CASE j \notin StartCalls
    <3>1. j.phase = "done" /\ ok
      BY <1>12, <2>1, <2>5 DEF BatchList!Started, BatchList!Answered, BatchList!Queued, StartCalls
    <3>2. batchRunning' = batchRunning
      BY <1>0, <1>12, <3>1 DEF BatchList!Started
    <3>3. StartCalls' = StartCalls
      BY <2>2, <2>5
    <3>4. TabKnows'
      BY <2>1, <2>2, <3>2, <3>3 DEF TabKnows, BatchInv
    <3> QED BY <2>2, <2>3, <3>4 DEF BatchInv
  <2> QED BY <2>4, <2>5
<1>13. \A j : ~BatchList!TimesOut(j)
  BY DEF BatchList!TimesOut
<1> QED
  BY <1>1, <1>2, <1>3, <1>4, <1>5, <1>6, <1>7, <1>8, <1>9, <1>10, <1>11, <1>12, <1>13
     DEF BatchList!Next

\* While no call fails, and calls are served in their order, there is of a run of
\* the batch tab one thing at most still to come, and the running list is not
\* offered to be cleared.
THEOREM BatchInvariant == ~Rough => (BatchList!Spec => []BatchInv)
<1> SUFFICES ASSUME ~Rough PROVE BatchList!Spec => []BatchInv
  OBVIOUS
<1>1. BatchList!Init => BatchInv
  <2> SUFFICES ASSUME BatchList!Init PROVE BatchInv
    OBVIOUS
  <2>1. /\ jobs = {} /\ issued = 0 /\ dispatcher = {} /\ doneEvents = 0
        /\ batchRunning = FALSE /\ confirmBatchClear = FALSE
    BY DEF BatchList!Init
  <2>2. StartCalls = {} /\ Unruly = {}
    BY <2>1 DEF StartCalls, Unruly
  <2>3. BatchCalls /\ OneRun
    BY <2>1, <2>2 DEF BatchCalls, OneRun
  <2>4. TabKnows
    BY <2>1, <2>2 DEF TabKnows
  <2> QED BY <2>3, <2>4 DEF BatchInv
<1>2. BatchInv /\ [BatchList!Next]_BatchList!vars => BatchInv'
  BY BatchNext
<1> QED BY <1>1, <1>2, PTL DEF BatchList!Spec

\* A change that clears or adds is among what was sent before the start.
LEMMA BatchClears == BatchInv => BatchList!ClearsAtRest
  BY DEF BatchInv, BatchCalls, Heard, TabKnows, Unruly, BatchList!ClearsAtRest,
         BatchList!QueueChange, BatchList!Turn, BatchList!Queued

\* The tab waits for a start that is not taken yet, a run or the news of its end.
StartTold      == \E j \in jobs : j.op = "start" /\ j.phase \notin {"done", "unheard"}
BatchWait ==
    /\ doneEvents \in Nat
    /\ \A j \in jobs : j = [id |-> j.id, op |-> j.op, item |-> j.item, arg |-> j.arg,
                            install |-> j.install, phase |-> j.phase, saw |-> j.saw]
    /\ batchRunning => StartTold \/ dispatcher # {} \/ doneEvents # 0

\* A call is made.
LEMMA BatchWaitCalls ==
    ASSUME BatchWait, NEW op, NEW i, NEW arg, BatchList!Call(op, i, arg),
           batchRunning' => op = "start" \/ batchRunning,
           UNCHANGED <<dispatcher, doneEvents>>
    PROVE  BatchWait'
<1> DEFINE r == BatchList!Request(issued', op, i, arg)
<1>1. jobs' = jobs \cup {r}
  BY DEF BatchList!Call
<1>2. /\ r.op = op /\ r.phase = "sent"
      /\ r = [id |-> r.id, op |-> r.op, item |-> r.item, arg |-> r.arg,
              install |-> r.install, phase |-> r.phase, saw |-> r.saw]
  BY DEF BatchList!Request
<1> HIDE DEF r
<1> QED BY <1>1, <1>2 DEF BatchWait, StartTold

\* A call is worked on.
LEMMA BatchWaitWorks ==
    ASSUME BatchWait, NEW j \in jobs, NEW p, NEW s, BatchList!Answer(j, p, s),
           batchRunning' = batchRunning, doneEvents' = doneEvents,
           \/ j.op # "start" /\ dispatcher' = dispatcher
           \/ p \notin {"done", "unheard"} /\ dispatcher' = dispatcher
           \/ dispatcher' # {}
    PROVE  BatchWait'
<1> DEFINE i == [j EXCEPT !.phase = p]
           k == [i EXCEPT !.saw = s]
<1>0. CASE j.phase = "unheard"
  <2>1. jobs' = jobs \ {j}
    BY <1>0 DEF BatchList!Answer
  <2> QED BY <1>0, <2>1 DEF BatchWait, StartTold
<1> SUFFICES ASSUME j.phase # "unheard" PROVE BatchWait'
  BY <1>0
<1>1. jobs' = (jobs \ {j}) \cup {k}
  BY DEF BatchList!Answer
<1>2. /\ i.op = j.op /\ i.phase = p
      /\ i = [id |-> i.id, op |-> i.op, item |-> i.item, arg |-> i.arg,
              install |-> i.install, phase |-> i.phase, saw |-> i.saw]
  BY DEF BatchWait
<1> HIDE DEF i
<1>3. /\ k.op = j.op /\ k.phase = p
      /\ k = [id |-> k.id, op |-> k.op, item |-> k.item, arg |-> k.arg,
              install |-> k.install, phase |-> k.phase, saw |-> k.saw]
  BY <1>2
<1> HIDE DEF k
<1> QED BY <1>1, <1>3 DEF BatchWait, StartTold

\* The batch tab waits only while a start, a run or the news of its end is
\* under way, for any queue, whatever is refused.
THEOREM BatchWaitsEnd == BatchList!Spec => []BatchList!WaitsEnd
<1>1. BatchList!Init => BatchWait
  BY DEF BatchList!Init, BatchWait
<1>2. BatchWait /\ [BatchList!Next]_BatchList!vars => BatchWait'
  <2> SUFFICES ASSUME BatchWait, [BatchList!Next]_BatchList!vars PROVE BatchWait'
    OBVIOUS
  <2> USE DEF BatchList!queue, BatchList!page
  <2>1. CASE UNCHANGED <<jobs, dispatcher, doneEvents, batchRunning>>
    BY <2>1 DEF BatchWait, StartTold
  <2>2. CASE \/ BatchList!CloseTab \/ BatchList!SetInstall \/ BatchList!handleBatchClearRequest
                \/ BatchList!Wave
             \/ (\E i \in BatchList!Ids, ok \in BOOLEAN : BatchList!ItemEnds(i, ok))
                \/ UNCHANGED BatchList!vars
    BY <2>1, <2>2
       DEF BatchList!CloseTab, BatchList!SetInstall, BatchList!handleBatchClearRequest,
           BatchList!Wave, BatchList!ItemEnds, BatchList!vars
  <2>3. CASE \/ BatchList!OpenTab \/ BatchList!Refresh \/ BatchList!handleBatchAdd
                \/ BatchList!handleBatchStart
             \/ \E i \in BatchList!Ids : \/ BatchList!handleBatchRemove(i)
                                            \/ BatchList!handleBatchCancel(i)
                                         \/ \E d \in {-1, 1} : BatchList!handleBatchPriority(i, d)
    BY <2>3, BatchWaitCalls
       DEF BatchList!OpenTab, BatchList!Refresh, BatchList!handleBatchAdd,
           BatchList!handleBatchStart,
       BatchList!handleBatchRemove, BatchList!handleBatchCancel, BatchList!handleBatchPriority
  <2>4. ASSUME NEW yes \in BOOLEAN, BatchList!handleBatchClear(yes) PROVE BatchWait'
    BY <2>4, <2>1, BatchWaitCalls DEF BatchList!handleBatchClear
  <2>5. ASSUME NEW j \in jobs,
               BatchList!QueueList(j) \/ BatchList!QueueChange(j) \/ BatchList!QueueStart(j)
                 \/ BatchList!QueueCancel(j)
        PROVE  BatchWait'
    <3>1. CASE BatchList!QueueList(j) \/ BatchList!QueueChange(j) \/ BatchList!QueueCancel(j)
      BY <3>1, BatchWaitWorks DEF BatchList!QueueList, BatchList!QueueChange, BatchList!QueueCancel
    <3>2. CASE BatchList!QueueStart(j)
      BY <3>2, BatchWaitWorks DEF BatchList!QueueStart
    <3> QED BY <2>5, <3>1, <3>2
  <2>6. ASSUME NEW j \in jobs, NEW ok \in BOOLEAN, BatchList!Listed(j, ok) PROVE BatchWait'
    BY <2>6 DEF BatchList!Listed, BatchWait, StartTold
  <2>7. ASSUME NEW j \in jobs, NEW ok \in BOOLEAN, BatchList!Started(j, ok) PROVE BatchWait'
    BY <2>7 DEF BatchList!Started, BatchWait, StartTold
  <2>8. ASSUME NEW j \in jobs, NEW ok \in BOOLEAN, BatchList!Changed(j, ok) PROVE BatchWait'
    <3> DEFINE r == BatchList!Request(issued', "list", 0, 0)
    <3>1. /\ j.op # "start" /\ UNCHANGED <<dispatcher, doneEvents, batchRunning>>
          /\ jobs' = (jobs \ {j}) \cup {r} \/ jobs' = jobs \ {j}
      BY <2>8 DEF BatchList!Changed, BatchList!Changes
    <3>2. /\ r = [id |-> r.id, op |-> r.op, item |-> r.item, arg |-> r.arg,
                  install |-> r.install, phase |-> r.phase, saw |-> r.saw]
      BY DEF BatchList!Request
    <3> HIDE DEF r
    <3> QED BY <3>1, <3>2 DEF BatchWait, StartTold
  <2>9. CASE BatchList!RunEnds
    BY <2>9 DEF BatchList!RunEnds, BatchWait, StartTold
  <2>10. CASE BatchList!QueueDone
    <3> DEFINE r == BatchList!Request(issued', "list", 0, 0)
    <3>1. jobs' = jobs \cup {r} /\ batchRunning' = FALSE /\ doneEvents > 0
          /\ doneEvents' = doneEvents - 1
      BY <2>10 DEF BatchList!QueueDone, BatchList!Call
    <3>2. r = [id |-> r.id, op |-> r.op, item |-> r.item, arg |-> r.arg,
               install |-> r.install, phase |-> r.phase, saw |-> r.saw]
      BY DEF BatchList!Request
    <3>3. doneEvents' \in Nat
      BY <3>1 DEF BatchWait
    <3> HIDE DEF r
    <3> QED BY <3>1, <3>2, <3>3 DEF BatchWait, StartTold
  <2>11. ASSUME NEW j \in jobs, BatchList!TimesOut(j) PROVE BatchWait'
    <3> DEFINE k == [j EXCEPT !.phase = "unheard"]
    <3>1. /\ UNCHANGED <<dispatcher, doneEvents>> /\ (j.op = "start" => ~batchRunning')
          /\ batchRunning' => batchRunning
          /\ jobs' = (jobs \ {j}) \cup {k} \/ jobs' = jobs \ {j}
      BY <2>11 DEF BatchList!TimesOut
    <3>2. k = [id |-> j.id, op |-> j.op, item |-> j.item, arg |-> j.arg,
               install |-> j.install, phase |-> "unheard", saw |-> j.saw]
      BY DEF BatchWait
    <3> HIDE DEF k
    <3>3. k = [id |-> k.id, op |-> k.op, item |-> k.item, arg |-> k.arg,
               install |-> k.install, phase |-> k.phase, saw |-> k.saw]
      BY <3>2
    <3> QED BY <3>1, <3>3 DEF BatchWait, StartTold
  <2> QED
    BY <2>2, <2>3, <2>4, <2>5, <2>6, <2>7, <2>8, <2>9, <2>10, <2>11 DEF BatchList!Next
<1>3. BatchWait => BatchList!WaitsEnd
  BY DEF BatchWait, StartTold, BatchList!WaitsEnd
<1> QED BY <1>1, <1>2, <1>3, PTL DEF BatchList!Spec

\* Calls are numbered; an item has a status and a priority, and none runs
\* without the dispatcher.
BatchEntry(j) ==
    /\ j = [id |-> j.id, op |-> j.op, item |-> j.item, arg |-> j.arg,
            install |-> j.install, phase |-> j.phase, saw |-> j.saw]
    /\ j.id \in Nat /\ j.id <= issued /\ (j.op = "list" => j.phase # "refused")
    /\ Heard(j)
BatchQueued ==
    /\ issued \in Nat /\ doneEvents \in Nat
    /\ \A j \in jobs : BatchEntry(j)
    /\ \A j, k \in jobs : j.id = k.id => j = k
BatchItems ==
    /\ \A i \in DOMAIN items :
          items[i] = [status |-> items[i].status, priority |-> items[i].priority]
    /\ dispatcher = {} => \A i \in DOMAIN items : items[i].status # "running"
LastList(j) == j.op = "list" /\ \A k \in jobs : k.op = "list" => k.id <= j.id
\* The open tab is to hear of a change or of a run, or the last list has yet to
\* be made or is right, or the tab shows it.
BatchNews ==
    \/ \E j \in jobs : j.op \in BatchList!Changes /\ j.phase = "done"
    \/ \E j \in jobs : LastList(j) /\ (j.phase = "sent" \/ (j.phase = "done" /\ j.saw = items))
    \/ dispatcher # {} \/ doneEvents # 0
    \/ batch = items /\ \A j \in jobs : j.op # "list"
BatchTruth == BatchQueued /\ BatchItems /\ (tab => BatchNews)

\* A call is made, and another may have ended.
LEMMA BatchJoins ==
    ASSUME BatchQueued, NEW op, NEW i, NEW arg, NEW gone, gone \subseteq jobs,
           issued' = issued + 1, jobs' = (jobs \ gone) \cup
             {BatchList!Request(issued', op, i, arg)},
           doneEvents' \in Nat
    PROVE  /\ BatchQueued'
           /\ \E r : /\ jobs' = (jobs \ gone) \cup {r} /\ r.op = op /\ r.phase = "sent"
                     /\ op = "list" => LastList(r)'
                     /\ op # "list" => \A h \in jobs \ gone : LastList(h) => LastList(h)'
<1>1. /\ issued \in Nat /\ issued' \in Nat
      /\ \A j \in jobs : BatchEntry(j) /\ j.id \in Nat /\ j.id < issued'
  BY DEF BatchQueued, BatchEntry
<1>2. PICK r : /\ jobs' = (jobs \ gone) \cup {r} /\ r.op = op /\ r.phase = "sent" /\ r.id = issued'
               /\ r = [id |-> r.id, op |-> r.op, item |-> r.item, arg |-> r.arg,
                       install |-> r.install, phase |-> r.phase, saw |-> r.saw]
  <2> DEFINE r == BatchList!Request(issued', op, i, arg)
  <2>1. /\ r.op = op /\ r.phase = "sent" /\ r.id = issued'
        /\ r = [id |-> r.id, op |-> r.op, item |-> r.item, arg |-> r.arg,
                install |-> r.install, phase |-> r.phase, saw |-> r.saw]
    BY DEF BatchList!Request
  <2>2. jobs' = (jobs \ gone) \cup {r}
    OBVIOUS
  <2> HIDE DEF r
  <2> QED BY <2>1, <2>2
<1>3. BatchEntry(r)'
  BY <1>1, <1>2 DEF BatchEntry, Heard
<1>4. \A j \in jobs : BatchEntry(j)'
  BY <1>1 DEF BatchEntry
<1>5. \A j, k \in jobs' : j.id = k.id => j = k
  BY <1>1, <1>2 DEF BatchQueued
<1>6. BatchQueued'
  BY <1>1, <1>2, <1>3, <1>4, <1>5 DEF BatchQueued
<1>7. op = "list" => LastList(r)'
  BY <1>1, <1>2 DEF LastList
<1>8. op # "list" => \A h \in jobs \ gone : LastList(h) => LastList(h)'
  BY <1>2 DEF LastList
<1> QED BY <1>2, <1>6, <1>7, <1>8

\* A call of the tab
LEMMA BatchTruthAsks ==
    ASSUME BatchTruth, NEW op, NEW i, NEW arg, BatchList!Call(op, i, arg), doneEvents' \in Nat,
           UNCHANGED <<batch, items, dispatcher>>,
           op = "list" \/ (tab' = tab /\ doneEvents' = doneEvents)
    PROVE  BatchTruth'
<1>1. PICK gone : gone = {}
  OBVIOUS
<1>2. /\ issued' = issued + 1 /\ jobs' = (jobs \ gone) \cup {BatchList!Request(issued', op, i, arg)}
      /\ gone \subseteq jobs /\ BatchQueued
  BY <1>1 DEF BatchList!Call, BatchTruth
<1>3. /\ BatchQueued'
      /\ \E r : /\ jobs' = (jobs \ gone) \cup {r} /\ r.op = op /\ r.phase = "sent"
                /\ op = "list" => LastList(r)'
                /\ op # "list" => \A h \in jobs \ gone : LastList(h) => LastList(h)'
  BY <1>2, BatchJoins
<1>4. BatchItems'
  BY DEF BatchTruth, BatchItems
<1>5. tab' => BatchNews'
  BY <1>1, <1>3 DEF BatchTruth, BatchNews
<1> QED BY <1>3, <1>4, <1>5 DEF BatchTruth

\* A call is worked on.
LEMMA BatchTruthWorks ==
    ASSUME BatchTruth, NEW j \in jobs, NEW p, NEW s, BatchList!Answer(j, p, s),
           UNCHANGED <<issued, doneEvents, tab, batch>>, j.phase = "sent",
           BatchItems', dispatcher # {} => dispatcher' # {}, p # "unheard",
           \/ j.op = "list" /\ p = "done" /\ s = items /\ items' = items
           \/ j.op # "list" /\ items' = items
           \/ j.op \in BatchList!Changes /\ p = "done"
    PROVE  BatchTruth'
<1>1. PICK k : /\ jobs' = (jobs \ {j}) \cup {k} /\ k.id = j.id /\ k.op = j.op
               /\ k.phase = p /\ k.saw = s
               /\ k = [id |-> k.id, op |-> k.op, item |-> k.item, arg |-> k.arg,
                       install |-> k.install, phase |-> k.phase, saw |-> k.saw]
  <2> DEFINE i == [j EXCEPT !.phase = p]
             k == [i EXCEPT !.saw = s]
  <2>1. jobs' = (jobs \ {j}) \cup {k}
    BY DEF BatchList!Answer
  <2>2. /\ i.id = j.id /\ i.op = j.op /\ i.phase = p
        /\ i = [id |-> i.id, op |-> i.op, item |-> i.item, arg |-> i.arg,
                install |-> i.install, phase |-> i.phase, saw |-> i.saw]
    BY DEF BatchTruth, BatchQueued, BatchEntry
  <2> HIDE DEF i
  <2>3. /\ k.id = j.id /\ k.op = j.op /\ k.phase = p /\ k.saw = s
        /\ k = [id |-> k.id, op |-> k.op, item |-> k.item, arg |-> k.arg,
                install |-> k.install, phase |-> k.phase, saw |-> k.saw]
    BY <2>2
  <2> HIDE DEF k
  <2> QED BY <2>1, <2>3
<1>2. \A h \in jobs' : h = k \/ (h \in jobs /\ h # j)
  BY <1>1
<1>3. BatchQueued'
  <2>1. BatchEntry(k)'
    BY <1>1 DEF BatchTruth, BatchQueued, BatchEntry, Heard, BatchList!Changes
  <2>2. \A h \in jobs : BatchEntry(h)'
    BY DEF BatchTruth, BatchQueued, BatchEntry
  <2>3. \A h, l \in jobs' : h.id = l.id => h = l
    BY <1>1, <1>2 DEF BatchTruth, BatchQueued
  <2> QED BY <1>2, <2>1, <2>2, <2>3 DEF BatchTruth, BatchQueued
<1>4. ASSUME tab PROVE BatchNews'
  <2>1. CASE j.op \in BatchList!Changes /\ p = "done"
    BY <1>1, <2>1 DEF BatchNews
  <2>2. CASE items' = items
    <3>1. \A h \in jobs : h # j /\ LastList(h) => LastList(h)'
      BY <1>1, <1>2 DEF LastList
    <3>2. LastList(j) => LastList(k)'
      BY <1>1, <1>2 DEF LastList
    <3>3. CASE \E h \in jobs : h.op \in BatchList!Changes /\ h.phase = "done"
      BY <1>1, <3>3 DEF BatchNews
    <3>4. CASE dispatcher # {} \/ doneEvents # 0
      BY <3>4 DEF BatchNews
    <3>5. CASE \E h \in jobs : h # j /\ LastList(h)
                               /\ (h.phase = "sent" \/ (h.phase = "done" /\ h.saw = items))
      BY <1>1, <2>2, <3>1, <3>5 DEF BatchNews
    <3>6. CASE LastList(j)
      BY <1>1, <2>2, <3>2, <3>6 DEF BatchNews, LastList, BatchList!Changes
    <3>7. CASE batch = items /\ \A h \in jobs : h.op # "list"
      BY <1>1, <1>2, <2>2, <3>7 DEF BatchNews
    <3> QED BY <1>4, <3>3, <3>4, <3>5, <3>6, <3>7 DEF BatchTruth, BatchNews
  <2> QED BY <2>1, <2>2
<1> QED BY <1>3, <1>4 DEF BatchTruth

\* What a call of the queue does to the items.
LEMMA BatchItemsChange ==
    ASSUME BatchTruth, NEW j \in jobs,
           BatchList!QueueList(j) \/ BatchList!QueueChange(j) \/ BatchList!QueueStart(j)
             \/ BatchList!QueueCancel(j)
    PROVE  BatchItems' /\ (dispatcher # {} => dispatcher' # {})
<1>1. BatchItems
  BY DEF BatchTruth
<1>2. CASE BatchList!QueueList(j)
  BY <1>1, <1>2 DEF BatchList!QueueList, BatchList!queue, BatchItems
<1>3. CASE BatchList!QueueStart(j)
  BY <1>1, <1>3 DEF BatchList!QueueStart, BatchItems
<1>4. CASE BatchList!QueueCancel(j)
  <2>1. dispatcher' = dispatcher
    BY <1>4 DEF BatchList!QueueCancel
  <2>2. CASE j.item \in BatchList!Running
    <3>1. items' = [items EXCEPT ![j.item].status = "error"] /\ j.item \in DOMAIN items
          /\ dispatcher # {}
      BY <1>1, <1>4, <2>2 DEF BatchList!QueueCancel, BatchList!Running, BatchItems
    <3>2. DOMAIN items' = DOMAIN items
          /\ \A i \in DOMAIN items :
               items'[i] = IF i = j.item THEN [items[i] EXCEPT !.status = "error"] ELSE items[i]
      BY <3>1
    <3> QED BY <1>1, <2>1, <3>1, <3>2 DEF BatchItems
  <2>3. CASE j.item \notin BatchList!Running
    BY <1>1, <1>4, <2>1, <2>3 DEF BatchList!QueueCancel, BatchItems
  <2> QED BY <2>2, <2>3
<1>5. CASE BatchList!QueueChange(j)
  <2>1. dispatcher' = dispatcher
    BY <1>5 DEF BatchList!QueueChange
  <2>2. CASE j.op = "add"
    <3>1. PICK it : it = [status |-> "pending", priority |-> 0]
                      /\ items' = BatchList!With(added', it)
      BY <1>5, <2>2 DEF BatchList!QueueChange
    <3>2. PICK n : n = added'
      OBVIOUS
    <3>3. /\ it = [status |-> it.status, priority |-> it.priority] /\ it.status # "running"
      BY <3>1
    <3>4. /\ DOMAIN items' = DOMAIN items \cup {n}
          /\ \A i \in DOMAIN items' : items'[i] = it \/ (i \in DOMAIN items /\ items'[i] = items[i])
      BY <3>1, <3>2 DEF BatchList!With
    <3> QED BY <1>1, <2>1, <3>3, <3>4 DEF BatchItems
  <2>3. CASE j.op = "priority"
    <3>1. CASE j.item \in DOMAIN items
      <4>1. items' = [items EXCEPT ![j.item].priority = j.arg]
        BY <1>5, <2>3, <3>1 DEF BatchList!QueueChange
      <4>2. DOMAIN items' = DOMAIN items
            /\ \A i \in DOMAIN items :
                 items'[i] = IF i = j.item THEN [items[i] EXCEPT !.priority = j.arg] ELSE items[i]
        BY <3>1, <4>1
      <4> QED BY <1>1, <2>1, <4>2 DEF BatchItems
    <3>2. CASE j.item \notin DOMAIN items
      <4>1. items' = items
        BY <1>5, <2>3, <3>2 DEF BatchList!QueueChange
      <4> QED BY <1>1, <2>1, <4>1 DEF BatchItems
    <3> QED BY <3>1, <3>2
  <2>4. CASE j.op = "remove"
    <3>1. items' = BatchList!Without(j.item)
      BY <1>5, <2>4 DEF BatchList!QueueChange
    <3> QED BY <1>1, <2>1, <3>1 DEF BatchItems, BatchList!Without
  <2>5. CASE j.op = "clear"
    <3>1. items' = BatchList!Nothing
      BY <1>5, <2>5 DEF BatchList!QueueChange
    <3> QED BY <1>1, <2>1, <3>1 DEF BatchItems, BatchList!Nothing
  <2> QED BY <1>5, <2>1, <2>2, <2>3, <2>4, <2>5 DEF BatchList!QueueChange
<1> QED BY <1>2, <1>3, <1>4, <1>5

LEMMA BatchTruthCalls ==
    ASSUME BatchTruth, NEW j \in jobs,
           BatchList!QueueList(j) \/ BatchList!QueueChange(j) \/ BatchList!QueueStart(j)
             \/ BatchList!QueueCancel(j)
    PROVE  BatchTruth'
<1>1. BatchItems' /\ (dispatcher # {} => dispatcher' # {})
  BY BatchItemsChange
<1>0. j.phase # "unheard"
  BY DEF BatchTruth, BatchQueued, BatchEntry, Heard
<1>2. /\ UNCHANGED <<issued, doneEvents, tab, batch>> /\ j.phase = "sent"
      /\ \E p, s : /\ BatchList!Answer(j, p, s) /\ p # "unheard"
                   /\ \/ j.op = "list" /\ p = "done" /\ s = items /\ items' = items
                      \/ j.op # "list" /\ items' = items
                      \/ j.op \in BatchList!Changes /\ p = "done"
  <2>1. CASE BatchList!QueueList(j)
    BY <2>1, <1>0 DEF BatchList!QueueList, BatchList!queue, BatchList!page, BatchList!Turn,
             BatchList!Queued
  <2>2. CASE BatchList!QueueStart(j)
    BY <2>2, <1>0 DEF BatchList!QueueStart, BatchList!page, BatchList!Turn,
             BatchList!Queued
  <2>3. CASE BatchList!QueueCancel(j)
    BY <2>3, <1>0 DEF BatchList!QueueCancel, BatchList!page, BatchList!Turn,
             BatchList!Queued, BatchList!Changes
  <2>4. CASE BatchList!QueueChange(j)
    <3>1. CASE j.op = "priority" /\ j.item \notin DOMAIN items
      BY <2>4, <3>1, <1>0 DEF BatchList!QueueChange, BatchList!page, BatchList!Turn,
             BatchList!Queued
    <3>2. CASE ~(j.op = "priority" /\ j.item \notin DOMAIN items)
      BY <2>4, <3>2, <1>0 DEF BatchList!QueueChange, BatchList!page, BatchList!Turn,
             BatchList!Queued, BatchList!Changes
    <3> QED BY <3>1, <3>2
  <2> QED BY <2>1, <2>2, <2>3, <2>4
<1> QED BY <1>1, <1>2, BatchTruthWorks

\* The dispatcher works.
LEMMA BatchTruthRuns ==
    ASSUME BatchTruth, BatchList!Wave \/ BatchList!RunEnds \/ \E i \in BatchList!Ids,
           ok \in BOOLEAN : BatchList!ItemEnds(i, ok)
    PROVE  BatchTruth'
<1>1. BatchQueued /\ BatchItems /\ doneEvents \in Nat
  BY DEF BatchTruth, BatchQueued
<1>2. UNCHANGED <<jobs, issued, tab>> /\ doneEvents' \in Nat
  BY <1>1 DEF BatchList!Wave, BatchList!RunEnds, BatchList!ItemEnds, BatchList!page
<1>3. BatchQueued'
  BY <1>1, <1>2 DEF BatchQueued, BatchEntry
<1>4. CASE BatchList!RunEnds
  <2>1. BatchItems'
    BY <1>1, <1>4 DEF BatchList!RunEnds, BatchItems, BatchList!Running
  <2>2. BatchNews'
    BY <1>1, <1>4 DEF BatchList!RunEnds, BatchNews
  <2> QED BY <1>3, <2>1, <2>2 DEF BatchTruth
<1>5. ASSUME NEW i \in BatchList!Ids, NEW ok \in BOOLEAN, BatchList!ItemEnds(i, ok)
      PROVE  BatchTruth'
  <2>1. dispatcher # {} /\ dispatcher' = dispatcher /\ i \in DOMAIN items
    BY <1>1, <1>5 DEF BatchList!ItemEnds, BatchList!Running, BatchItems
  <2>2. PICK s : items' = [items EXCEPT ![i].status = s]
    BY <1>5 DEF BatchList!ItemEnds
  <2>3. DOMAIN items' = DOMAIN items
        /\ \A k \in DOMAIN items :
             items'[k] = IF k = i THEN [items[k] EXCEPT !.status = s] ELSE items[k]
    BY <2>1, <2>2
  <2>4. BatchItems'
    BY <1>1, <2>1, <2>3 DEF BatchItems
  <2> QED BY <1>3, <2>1, <2>4 DEF BatchTruth, BatchNews
<1>6. CASE BatchList!Wave
  <2>1. dispatcher # {} /\ dispatcher' = dispatcher
    BY <1>6 DEF BatchList!Wave
  <2>2. /\ DOMAIN items' = DOMAIN items
        /\ \A k \in DOMAIN items :
             items'[k] = items[k] \/ items'[k] = [items[k] EXCEPT !.status = "running"]
    BY <1>6 DEF BatchList!Wave
  <2>3. BatchItems'
    BY <1>1, <2>1, <2>2 DEF BatchItems
  <2> QED BY <1>3, <2>1, <2>3 DEF BatchTruth, BatchNews
<1> QED BY <1>4, <1>5, <1>6

\* An answer comes, and none is a refusal.
LEMMA BatchTruthAnswers ==
    ASSUME BatchTruth, ~Rough, NEW j \in jobs, NEW ok \in BOOLEAN,
           BatchList!Listed(j, ok) \/ BatchList!Changed(j, ok) \/ BatchList!Started(j, ok)
    PROVE  BatchTruth'
<1>1. /\ ok /\ j.phase # "sent" /\ (\A k \in jobs : j.id <= k.id)
      /\ UNCHANGED <<tab, items, dispatcher, doneEvents>>
  BY DEF BatchList!Listed, BatchList!Changed, BatchList!Started, BatchList!Answered,
         BatchList!Queued, BatchList!page, BatchList!queue
<1>2. BatchItems' /\ BatchQueued
  BY <1>1 DEF BatchTruth, BatchItems
<1>3. CASE BatchList!Changed(j, ok) /\ j.phase = "done"
  <2>1. PICK gone : gone = {j}
    OBVIOUS
  <2>2. /\ issued' = issued + 1
           /\ jobs' = (jobs \ gone) \cup {BatchList!Request(issued', "list", 0, 0)}
        /\ gone \subseteq jobs /\ doneEvents' \in Nat
    BY <1>1, <1>2, <1>3, <2>1 DEF BatchList!Changed, BatchQueued
  <2>3. /\ BatchQueued'
        /\ \E r : jobs' = (jobs \ gone) \cup {r} /\ r.op = "list" /\ r.phase = "sent"
           /\ LastList(r)'
    BY <1>2, <2>2, BatchJoins
  <2> QED BY <1>2, <2>3 DEF BatchTruth, BatchNews
<1>4. CASE ~(BatchList!Changed(j, ok) /\ j.phase = "done")
  <2>1. /\ jobs' = jobs \ {j} /\ issued' = issued
        /\ j.op \in BatchList!Changes => j.phase # "done"
        /\ batch' = IF j.op = "list" THEN j.saw ELSE batch
    BY <1>1, <1>4
       DEF BatchList!Listed, BatchList!Changed, BatchList!Started, BatchList!page,
           BatchList!Changes
  <2>2. BatchQueued'
    BY <1>1, <1>2, <2>1 DEF BatchQueued, BatchEntry
  <2>3. \A h \in jobs : LastList(h) /\ h # j => LastList(h)'
    BY <2>1 DEF LastList
  <2>4. j.op = "list" => j.phase = "done" \/ j.phase \notin {"sent", "done", "refused"}
    BY <1>1, <1>2 DEF BatchQueued, BatchEntry
  <2>5. ASSUME tab PROVE BatchNews'
    <3>1. CASE \E h \in jobs : h.op \in BatchList!Changes /\ h.phase = "done"
      BY <2>1, <3>1 DEF BatchNews
    <3>2. CASE dispatcher # {} \/ doneEvents # 0
      BY <1>1, <3>2 DEF BatchNews
    <3>3. CASE \E h \in jobs : h # j /\ LastList(h)
                               /\ (h.phase = "sent" \/ (h.phase = "done" /\ h.saw = items))
      BY <1>1, <2>1, <2>3, <3>3 DEF BatchNews
    <3>4. CASE LastList(j) /\ j.saw = items
      <4>1. \A h \in jobs : h.op = "list" => h = j
        BY <1>1, <1>2, <3>4 DEF LastList, BatchQueued, BatchEntry
      <4> QED BY <1>1, <2>1, <3>4, <4>1 DEF BatchNews, LastList
    <3>5. CASE batch = items /\ \A h \in jobs : h.op # "list"
      BY <1>1, <2>1, <3>5 DEF BatchNews
    <3> QED BY <1>1, <2>5, <3>1, <3>2, <3>3, <3>4, <3>5 DEF BatchTruth, BatchNews
  <2> QED BY <1>1, <1>2, <2>2, <2>5 DEF BatchTruth
<1> QED BY <1>3, <1>4

LEMMA BatchTruthNext == ~Rough /\ BatchTruth /\ [BatchList!Next]_BatchList!vars => BatchTruth'
<1> SUFFICES ASSUME ~Rough, BatchTruth, [BatchList!Next]_BatchList!vars PROVE BatchTruth'
  OBVIOUS
<1>0. doneEvents \in Nat
  BY DEF BatchTruth, BatchQueued
<1>1. ASSUME UNCHANGED <<batch, BatchList!queue, jobs, issued>>, tab' => tab PROVE BatchTruth'
  BY <1>1 DEF BatchList!queue, BatchTruth, BatchQueued, BatchEntry, BatchItems, BatchNews, LastList
<1>2. CASE \/ BatchList!CloseTab \/ BatchList!SetInstall \/ BatchList!handleBatchClearRequest
              \/ UNCHANGED BatchList!vars
  BY <1>1, <1>2
     DEF BatchList!CloseTab, BatchList!SetInstall, BatchList!handleBatchClearRequest,
         BatchList!vars, BatchList!queue
<1>3. CASE BatchList!OpenTab \/ BatchList!Refresh \/ BatchList!handleBatchAdd
             \/ BatchList!handleBatchStart
  BY <1>0, <1>3, BatchTruthAsks
     DEF BatchList!OpenTab, BatchList!Refresh, BatchList!handleBatchAdd,
         BatchList!handleBatchStart, BatchList!page, BatchList!queue
<1>4. ASSUME NEW i \in BatchList!Ids, NEW d \in {-1, 1},
             BatchList!handleBatchRemove(i) \/ BatchList!handleBatchCancel(i)
               \/ BatchList!handleBatchPriority(i, d)
      PROVE  BatchTruth'
  <2>1. PICK op, arg : /\ BatchList!Call(op, i, arg)
                          /\ UNCHANGED <<batch, items, dispatcher, tab, doneEvents>>
    BY <1>4
       DEF BatchList!handleBatchRemove, BatchList!handleBatchCancel,
           BatchList!handleBatchPriority, BatchList!page, BatchList!queue
  <2> QED BY <1>0, <2>1, BatchTruthAsks
<1>5. ASSUME NEW yes \in BOOLEAN, BatchList!handleBatchClear(yes) PROVE BatchTruth'
  <2>1. CASE yes
    BY <1>0, <1>5, <2>1, BatchTruthAsks DEF BatchList!handleBatchClear, BatchList!queue
  <2>2. CASE ~yes
    BY <1>1, <1>5, <2>2 DEF BatchList!handleBatchClear
  <2> QED BY <2>1, <2>2
<1>6. CASE BatchList!QueueDone
  <2>1. doneEvents' \in Nat /\ BatchList!Call("list", 0, 0)
          /\ UNCHANGED <<batch, items, dispatcher>>
    BY <1>0, <1>6 DEF BatchList!QueueDone
  <2> QED BY <2>1, BatchTruthAsks
<1>7. \A j : ~BatchList!TimesOut(j)
  BY DEF BatchList!TimesOut
<1> QED
  BY <1>2, <1>3, <1>4, <1>5, <1>6, <1>7, BatchTruthCalls, BatchTruthRuns, BatchTruthAnswers
     DEF BatchList!Next

\* When all is answered and the queue at rest the open tab lists it as it is,
\* and can start it again.
THEOREM BatchTrue == ~Rough => (BatchList!Spec => []BatchList!ListTruthful)
<1> SUFFICES ASSUME ~Rough PROVE BatchList!Spec => []BatchList!ListTruthful
  OBVIOUS
<1>1. BatchList!Init => BatchTruth
  BY DEF BatchList!Init, BatchTruth, BatchQueued, BatchItems
<1>2. BatchTruth /\ [BatchList!Next]_BatchList!vars => BatchTruth'
  BY BatchTruthNext
<1>3. BatchTruth /\ BatchList!WaitsEnd => BatchList!ListTruthful
  BY DEF BatchTruth, BatchQueued, BatchNews, BatchList!WaitsEnd, BatchList!ListTruthful
<1> QED BY <1>1, <1>2, <1>3, BatchWaitsEnd, PTL DEF BatchList!Spec

-----------------------------------------------------------------------------
(* The profiles card *)

\* A change, or the list after it, of which there is one at most: the open
\* page is busy with it.  What has looked still finds what it saw.
CardWorks(j) == j.op \in Cards!Changes \/ (j.op = "list" /\ j.name # None)
CardCall(j) == j = [id |-> j.id, op |-> j.op, name |-> j.name, visit |-> j.visit,
                    phase |-> j.phase, list |-> j.list, up |-> j.up]
OneChange ==
    /\ \A j, k \in jobs : CardWorks(j) /\ CardWorks(k) => j = k
    /\ profileBusy \in BOOLEAN /\ open \in BOOLEAN
    /\ (open /\ \E j \in jobs : CardWorks(j)) => profileBusy
LookedStill ==
    \A j \in jobs : j.phase = "looked" =>
        /\ j.op \in Cards!Changes
        /\ j.op = "switch" => j.name \in dirs
        /\ j.op = "delete" => j.name # active /\ j.name # "default"
CardsVisited ==
    /\ visit \in Nat /\ (visit = 0 => ~open /\ jobs = {})
    /\ \A j \in jobs : CardCall(j)
CardsInv == OneChange /\ LookedStill /\ CardsVisited /\ Cards!ActiveExists

\* A call of the page that is no change
LEMMA CardAsks ==
    ASSUME CardsInv, visit # 0, NEW J, jobs' = jobs \cup J,
           \A r \in J : CardCall(r) /\ ~CardWorks(r) /\ r.phase = "sent",
           UNCHANGED <<open, visit, profileBusy, dirs, active>>
    PROVE  CardsInv'
<1>1. \A j \in jobs' : j \in jobs \/ (CardCall(j) /\ ~CardWorks(j) /\ j.phase = "sent")
  OBVIOUS
<1>2. OneChange'
  BY <1>1 DEF CardsInv, OneChange, CardWorks
<1>3. LookedStill'
  BY <1>1 DEF CardsInv, LookedStill
<1>4. CardsVisited'
  BY <1>1 DEF CardsInv, CardsVisited, CardCall
<1> QED BY <1>2, <1>3, <1>4 DEF CardsInv, Cards!ActiveExists

\* A change
LEMMA CardChanges ==
    ASSUME CardsInv, visit # 0, open, ~profileBusy, NEW op \in Cards!Changes, NEW n,
           Cards!Change(op, n)
    PROVE  CardsInv'
<1> DEFINE r == Cards!Request(issued', op, n, visit)
<1>1. /\ jobs' = jobs \cup {r} /\ profileBusy' = TRUE
      /\ UNCHANGED <<open, visit, dirs, active>>
  BY DEF Cards!Change, Cards!Call, Cards!disk
<1>2. CardCall(r) /\ r.phase = "sent" /\ r.op \in Cards!Changes
  BY DEF Cards!Request, CardCall
<1> HIDE DEF r
<1>3. \A j \in jobs : ~CardWorks(j)
  BY DEF CardsInv, OneChange
<1>4. OneChange'
  BY <1>1, <1>3 DEF CardsInv, OneChange, CardWorks
<1>5. LookedStill'
  BY <1>1, <1>2 DEF CardsInv, LookedStill
<1>6. CardsVisited'
  BY <1>1, <1>2 DEF CardsInv, CardsVisited, CardCall
<1> QED BY <1>1, <1>4, <1>5, <1>6 DEF CardsInv, Cards!ActiveExists

\* A call ends, or goes on as one that has not looked.
LEMMA CardEnds ==
    ASSUME CardsInv, NEW j \in jobs, NEW J, jobs' = (jobs \ {j}) \cup J,
           \A k, l \in J : k = l,
           \A k \in J : CardCall(k) /\ k.phase # "looked" /\ (CardWorks(k) => CardWorks(j)),
           profileBusy' \in BOOLEAN,
           open' = open, (~CardWorks(j) \/ J # {}) => profileBusy' = profileBusy,
           UNCHANGED <<visit, dirs, active>>
    PROVE  CardsInv'
<1>1. visit # 0
  BY DEF CardsInv, CardsVisited
<1>2. \A k \in jobs' : (k \in jobs /\ k # j)
        \/ (k \in J /\ CardCall(k) /\ k.phase # "looked" /\ (CardWorks(k) => CardWorks(j)))
  OBVIOUS
<1>3. \A k, l \in jobs' : CardWorks(k) /\ CardWorks(l) => k = l
  BY <1>2 DEF CardsInv, OneChange
<1>4. (open' /\ \E k \in jobs' : CardWorks(k)) => profileBusy'
  <2> SUFFICES ASSUME open', NEW k \in jobs', CardWorks(k) PROVE profileBusy'
    OBVIOUS
  <2>1. CASE k \in jobs /\ k # j
    BY <2>1 DEF CardsInv, OneChange
  <2>2. CASE k \in J /\ CardWorks(j)
    BY <2>2 DEF CardsInv, OneChange
  <2> QED BY <1>2, <2>1, <2>2
<1>5. OneChange'
  BY <1>3, <1>4 DEF CardsInv, OneChange, CardWorks
<1>6. LookedStill'
  BY <1>2 DEF CardsInv, LookedStill
<1>7. CardsVisited'
  BY <1>1, <1>2 DEF CardsInv, CardsVisited, CardCall
<1> QED BY <1>5, <1>6, <1>7 DEF CardsInv, Cards!ActiveExists

\* The same, of a call that takes its next step
LEMMA CardSteps ==
    ASSUME CardsInv, NEW j \in jobs, NEW p, p # "looked", Cards!To(j, p),
           UNCHANGED <<open, visit, profileBusy, dirs, active>>
    PROVE  CardsInv'
<1> DEFINE k == [j EXCEPT !.phase = p]
<1>1. CardCall(k) /\ k.phase = p /\ k.op = j.op /\ k.name = j.name
  BY DEF CardsInv, CardsVisited, CardCall
<1> DEFINE J == {k}
<1>2. jobs' = (jobs \ {j}) \cup J
  BY DEF Cards!To
<1> HIDE DEF k
<1>3. \A x, y \in J : x = y
  OBVIOUS
<1>4. \A x \in J : CardCall(x) /\ x.phase # "looked" /\ (CardWorks(x) => CardWorks(j))
  BY <1>1 DEF CardWorks
<1>5. profileBusy' \in BOOLEAN
  BY DEF CardsInv, OneChange
<1> HIDE DEF J
<1> QED BY <1>2, <1>3, <1>4, <1>5, CardEnds

LEMMA CardLooks ==
    ASSUME CardsInv, NEW j \in jobs, Cards!Look(j) PROVE CardsInv'
<1>1. CASE ~Cards!Accepts(j)
  <2>1. Cards!To(j, "failed") /\ UNCHANGED <<open, visit, profileBusy, dirs, active>>
    BY <1>1 DEF Cards!Look, Cards!page, Cards!disk
  <2> QED BY <2>1, CardSteps
<1>2. CASE Cards!Accepts(j)
  <2> DEFINE k == [j EXCEPT !.phase = "looked"]
  <2>1. jobs' = (jobs \ {j}) \cup {k} /\ UNCHANGED <<open, visit, profileBusy, dirs, active>>
    BY <1>2 DEF Cards!Look, Cards!To, Cards!page, Cards!disk
  <2>2. CardCall(k) /\ k.phase = "looked" /\ k.op = j.op /\ k.name = j.name
          /\ j.op \in Cards!Changes
    BY DEF CardsInv, CardsVisited, CardCall, Cards!Look
  <2>3. (j.op = "switch" => j.name \in dirs)
          /\ (j.op = "delete" => j.name \in dirs \ {"default", active})
    BY <1>2 DEF Cards!Accepts
  <2> HIDE DEF k
  <2>4. CardWorks(j) /\ CardWorks(k)
    BY <2>2 DEF CardWorks
  <2>5. OneChange'
    BY <2>1, <2>4 DEF CardsInv, OneChange, CardWorks
  <2>6. LookedStill'
    BY <2>1, <2>2, <2>3 DEF CardsInv, LookedStill
  <2>7. CardsVisited'
    BY <2>1, <2>2 DEF CardsInv, CardsVisited, CardCall
  <2> QED BY <2>1, <2>5, <2>6, <2>7 DEF CardsInv, Cards!ActiveExists
<1> QED BY <1>1, <1>2

LEMMA CardActs ==
    ASSUME CardsInv, NEW j \in jobs, Cards!Act(j) PROVE CardsInv'
<1> DEFINE k == [j EXCEPT !.phase = "done"]
<1>1. jobs' = (jobs \ {j}) \cup {k} /\ UNCHANGED <<open, visit, profileBusy>>
  BY DEF Cards!Act, Cards!To, Cards!page
<1>2. CardCall(k) /\ k.phase = "done" /\ k.op = j.op /\ k.name = j.name
  BY DEF CardsInv, CardsVisited, CardCall
<1>3. j.op \in Cards!Changes
  BY DEF CardsInv, LookedStill, Cards!Act
<1>4. Cards!ActiveExists'
  BY <1>3 DEF CardsInv, LookedStill, Cards!ActiveExists, Cards!Act, Cards!Changes
<1> HIDE DEF k
<1>5. CardWorks(j) /\ CardWorks(k)
  BY <1>2, <1>3 DEF CardWorks
<1>6. OneChange'
  BY <1>1, <1>5 DEF CardsInv, OneChange, CardWorks
<1>7. \A x \in jobs' : x.phase # "looked"
  BY <1>1, <1>2, <1>5 DEF CardsInv, OneChange, LookedStill, CardWorks
<1>8. LookedStill'
  BY <1>7 DEF LookedStill
<1>9. CardsVisited'
  BY <1>1, <1>2 DEF CardsInv, CardsVisited, CardCall
<1> QED BY <1>4, <1>6, <1>8, <1>9 DEF CardsInv

LEMMA CardReads ==
    ASSUME CardsInv, NEW j \in jobs, Cards!Read(j) PROVE CardsInv'
<1>1. PICK up, list : \/ jobs' = (jobs \ {j}) \cup {[j EXCEPT !.phase = "done", !.up = up]}
                      \/ jobs' = (jobs \ {j}) \cup {[j EXCEPT !.phase = "done", !.list = list]}
  BY DEF Cards!Read
<1>2. CardCall(j) /\ UNCHANGED <<open, visit, profileBusy, dirs, active>>
        /\ profileBusy' \in BOOLEAN
  BY DEF CardsInv, CardsVisited, OneChange, Cards!Read, Cards!page, Cards!disk
<1> DEFINE m == [j EXCEPT !.phase = "done"]
<1>3. CardCall(m) /\ m.phase = "done" /\ m.op = j.op /\ m.name = j.name
  BY <1>2 DEF CardCall
<1>4. /\ [j EXCEPT !.phase = "done", !.up = up] = [m EXCEPT !.up = up]
      /\ [j EXCEPT !.phase = "done", !.list = list] = [m EXCEPT !.list = list]
  OBVIOUS
<1> HIDE DEF m
<1>5. PICK k \in {[m EXCEPT !.up = up], [m EXCEPT !.list = list]} : jobs' = (jobs \ {j}) \cup {k}
  BY <1>1, <1>4
<1> DEFINE J == {k}
<1>6. CardCall(k) /\ k.phase = "done" /\ k.op = j.op /\ k.name = j.name
  BY <1>3 DEF CardCall
<1>7. \A x \in J : CardCall(x) /\ x.phase # "looked" /\ (CardWorks(x) => CardWorks(j))
  BY <1>6 DEF CardWorks
<1>8. (\A x, y \in J : x = y) /\ jobs' = (jobs \ {j}) \cup J
  BY <1>5
<1> HIDE DEF J
<1> QED BY <1>2, <1>7, <1>8, CardEnds

LEMMA CardChanged ==
    ASSUME CardsInv, NEW j \in jobs, Cards!Changed(j) PROVE CardsInv'
<1>1. /\ CardWorks(j) /\ UNCHANGED <<open, visit, dirs, active>>
      /\ profileBusy \in BOOLEAN
  BY DEF Cards!Changed, CardWorks, Cards!disk, CardsInv, OneChange
<1>2. CASE j.phase = "done"
  <2> DEFINE r == Cards!Request(issued', "list", j.name, j.visit)
  <2>1. jobs' = (jobs \ {j}) \cup {r} /\ profileBusy' = profileBusy
    BY <1>2 DEF Cards!Changed
  <2>2. CardCall(r) /\ r.phase # "looked"
    BY DEF Cards!Request, CardCall
  <2> HIDE DEF r
  <2> DEFINE J == {r}
  <2>3. \A x \in J : CardCall(x) /\ x.phase # "looked" /\ (CardWorks(x) => CardWorks(j))
    BY <1>1, <2>2
  <2>4. (\A x, y \in J : x = y) /\ jobs' = (jobs \ {j}) \cup J
    BY <2>1
  <2>5. profileBusy' \in BOOLEAN /\ profileBusy' = profileBusy
    BY <1>1, <2>1
  <2> HIDE DEF J
  <2> QED BY <1>1, <2>3, <2>4, <2>5, CardEnds
<1>3. CASE j.phase # "done"
  <2> DEFINE J == {}
  <2>1. jobs' = (jobs \ {j}) \cup J /\ profileBusy' \in BOOLEAN /\ J = {}
    BY <1>1, <1>3 DEF Cards!Changed
  <2> HIDE DEF J
  <2> QED BY <1>1, <2>1, CardEnds
<1> QED BY <1>2, <1>3

LEMMA CardListed ==
    ASSUME CardsInv, NEW j \in jobs, NEW ok \in BOOLEAN, Cards!Listed(j, ok) PROVE CardsInv'
<1> DEFINE J == {}
<1>1. /\ jobs' = (jobs \ {j}) \cup J /\ J = {} /\ UNCHANGED <<open, visit, dirs, active>>
      /\ j.op = "list" /\ profileBusy \in BOOLEAN
      /\ profileBusy' = (profileBusy /\ ~(Cards!Here(j) /\ j.name # None))
  BY DEF Cards!Listed, Cards!disk, CardsInv, OneChange
<1> HIDE DEF J
<1>2. CASE j.name = None
  <2>1. profileBusy' = profileBusy
    BY <1>1, <1>2
  <2> QED BY <1>1, <2>1, CardEnds
<1>3. CASE j.name # None
  <2>1. CardWorks(j) /\ profileBusy' \in BOOLEAN
    BY <1>1, <1>3 DEF CardWorks
  <2> QED BY <1>1, <2>1, CardEnds
<1> QED BY <1>2, <1>3

\* What concerns the service
LEMMA CardService ==
    ASSUME CardsInv, NEW j \in jobs, NEW ok \in BOOLEAN,
           Cards!Looked(j, ok) \/ Cards!DbusDone(j) \/ Cards!DbusRefused(j)
    PROVE  CardsInv'
<1>1. UNCHANGED <<open, visit, profileBusy, dirs, active>> /\ profileBusy' \in BOOLEAN
  BY DEF Cards!Looked, Cards!DbusDone, Cards!DbusRefused, Cards!page, Cards!disk, CardsInv,
         OneChange
<1> DEFINE r == Cards!Request(issued', "status", None, visit)
           J == {}
<1>2. CardCall(r) /\ ~CardWorks(r) /\ r.phase # "looked"
  BY DEF Cards!Request, CardCall, CardWorks, Cards!Changes
<1>3. jobs' = (jobs \ {j}) \cup {r} \/ (jobs' = (jobs \ {j}) \cup J /\ J = {})
  BY DEF Cards!Looked, Cards!DbusDone, Cards!DbusRefused
<1> HIDE DEF r, J
<1>4. CASE jobs' = (jobs \ {j}) \cup {r}
  <2> DEFINE K == {r}
  <2>1. \A x \in K : CardCall(x) /\ x.phase # "looked" /\ (CardWorks(x) => CardWorks(j))
    BY <1>2
  <2>2. (\A x, y \in K : x = y) /\ jobs' = (jobs \ {j}) \cup K
    BY <1>4
  <2> HIDE DEF K
  <2> QED BY <1>1, <2>1, <2>2, CardEnds
<1>5. CASE jobs' = (jobs \ {j}) \cup J /\ J = {}
  BY <1>1, <1>5, CardEnds
<1> QED BY <1>3, <1>4, <1>5

LEMMA CardsNext ==
    Cards!ProfilesAssumption /\ Visits["profiles"] <= 1 /\ CardsInv /\ [Cards!Next]_Cards!vars
      => CardsInv'
<1> SUFFICES ASSUME Cards!ProfilesAssumption, Visits["profiles"] <= 1, CardsInv,
                    [Cards!Next]_Cards!vars
             PROVE  CardsInv'
  OBVIOUS
<1>1. CASE Cards!Open
  <2>1. visit = 0 /\ jobs = {}
    BY <1>1 DEF Cards!Open, CardsInv, CardsVisited, Cards!ProfilesAssumption
  <2> DEFINE r == Cards!Request(issued + 1, "list", None, visit')
             s == Cards!Request(issued + 2, "status", None, visit')
  <2>2. /\ jobs' = {r, s} /\ visit' = 1 /\ open' = TRUE /\ profileBusy' = FALSE
        /\ UNCHANGED <<dirs, active>>
    BY <1>1, <2>1 DEF Cards!Open, Cards!disk
  <2>3. \A j \in {r, s} : CardCall(j) /\ ~CardWorks(j) /\ j.phase = "sent"
    BY DEF Cards!Request, CardCall, CardWorks, Cards!Changes
  <2> HIDE DEF r, s
  <2>4. \A j \in jobs' : CardCall(j) /\ ~CardWorks(j) /\ j.phase = "sent"
    BY <2>2, <2>3
  <2>5. OneChange'
    BY <2>2, <2>4 DEF OneChange, CardWorks
  <2>6. LookedStill' /\ CardsVisited'
    BY <2>2, <2>4 DEF LookedStill, CardsVisited, CardCall
  <2> QED BY <2>2, <2>5, <2>6 DEF CardsInv, Cards!ActiveExists
<1>2. CASE Cards!Leave
  <2>1. open' = FALSE /\ UNCHANGED <<visit, profileBusy, dirs, active, jobs>>
    BY <1>2 DEF Cards!Leave, Cards!disk
  <2> QED BY <2>1
             DEF CardsInv, OneChange, LookedStill, CardsVisited, Cards!ActiveExists, CardWorks,
                 CardCall
<1>3. ASSUME UNCHANGED <<open, visit, profileBusy, dirs, active, jobs>> PROVE CardsInv'
  BY <1>3
     DEF CardsInv, OneChange, LookedStill, CardsVisited, Cards!ActiveExists, CardWorks, CardCall
<1>4. ASSUME NEW to, Cards!SelectTab(to) PROVE CardsInv'
  BY <1>3, <1>4 DEF Cards!SelectTab, Cards!disk
<1>5. CASE Cards!CancelDelete \/ UNCHANGED Cards!vars
  BY <1>3, <1>5 DEF Cards!CancelDelete, Cards!vars, Cards!disk
<1>6. CASE Cards!confirmDeleteProfile
  <2>1. open /\ ~profileBusy /\ visit # 0 /\ "delete" \in Cards!Changes
          /\ Cards!Change("delete", confirmDelete)
    BY <1>6 DEF Cards!confirmDeleteProfile, Cards!Changes, CardsInv, CardsVisited
  <2> QED BY <2>1, CardChanges
<1>7. CASE Cards!handleDbusStart
  <2> DEFINE r == Cards!Request(issued', "start", None, visit)
  <2>1. /\ jobs' = jobs \cup {r} /\ visit # 0
           /\ UNCHANGED <<open, visit, profileBusy, dirs, active>>
    BY <1>7
       DEF Cards!handleDbusStart, Cards!DbusOffers, Cards!Call, Cards!disk, CardsInv, CardsVisited
  <2>2. CardCall(r) /\ ~CardWorks(r) /\ r.phase = "sent"
    BY DEF Cards!Request, CardCall, CardWorks, Cards!Changes
  <2> HIDE DEF r
  <2> DEFINE J == {r}
  <2>3. jobs' = jobs \cup J /\ \A x \in J : CardCall(x) /\ ~CardWorks(x) /\ x.phase = "sent"
    BY <2>1, <2>2
  <2> HIDE DEF J
  <2> QED BY <2>1, <2>3, CardAsks
<1>8. ASSUME NEW n \in Cards!Profiles,
             Cards!handleCreateProfile(n) \/ Cards!handleSwitchProfile(n)
               \/ Cards!handleDeleteProfile(n)
      PROVE  CardsInv'
  <2>1. CASE Cards!handleDeleteProfile(n)
    BY <1>3, <2>1 DEF Cards!handleDeleteProfile, Cards!disk
  <2>2. CASE Cards!handleCreateProfile(n) \/ Cards!handleSwitchProfile(n)
    <3>1. PICK op \in Cards!Changes : open /\ ~profileBusy /\ visit # 0 /\ Cards!Change(op, n)
      BY <2>2
         DEF Cards!handleCreateProfile, Cards!handleSwitchProfile, Cards!Row, Cards!Card,
             Cards!Changes, CardsInv, CardsVisited
    <3> QED BY <3>1, CardChanges
  <2> QED BY <1>8, <2>1, <2>2
<1>9. ASSUME NEW j \in jobs, NEW ok \in BOOLEAN, Cards!Start(j, ok) PROVE CardsInv'
  <2>1. PICK p \in {"done", "failed"} : Cards!To(j, p)
    BY <1>9 DEF Cards!Start
  <2>2. p # "looked" /\ UNCHANGED <<open, visit, profileBusy, dirs, active>>
    BY <1>9 DEF Cards!Start, Cards!page
  <2> QED BY <2>1, <2>2, CardSteps
<1>10. ASSUME NEW j \in jobs,
              \/ Cards!Look(j) \/ Cards!Act(j) \/ Cards!Read(j) \/ Cards!Changed(j)
                 \/ Cards!DbusDone(j) \/ Cards!DbusRefused(j)
              \/ \E ok \in BOOLEAN : Cards!Start(j, ok) \/ Cards!Listed(j, ok)
                 \/ Cards!Looked(j, ok)
       PROVE  CardsInv'
  <2>1. CASE Cards!DbusDone(j) \/ Cards!DbusRefused(j)
    <3>1. TRUE \in BOOLEAN
      OBVIOUS
    <3> QED BY <2>1, <3>1, CardService
  <2>2. ASSUME NEW ok \in BOOLEAN, Cards!Start(j, ok) \/ Cards!Listed(j, ok) \/ Cards!Looked(j, ok)
        PROVE  CardsInv'
    BY <1>9, <2>2, CardListed, CardService
  <2> QED BY <1>10, <2>1, <2>2, CardLooks, CardActs, CardReads, CardChanged
<1> QED BY <1>1, <1>2, <1>4, <1>5, <1>6, <1>7, <1>8, <1>10 DEF Cards!Next

\* The active profile of the profiles card exists, as long as the page is
\* opened once.
THEOREM CardsActiveExists ==
    Cards!ProfilesAssumption /\ Visits["profiles"] <= 1 => (Cards!Spec => []Cards!ActiveExists)
<1> SUFFICES ASSUME Cards!ProfilesAssumption, Visits["profiles"] <= 1
             PROVE  Cards!Spec => []Cards!ActiveExists
  OBVIOUS
<1>1. Cards!Init => CardsInv
  <2> SUFFICES ASSUME Cards!Init PROVE CardsInv
    OBVIOUS
  <2>1. jobs = {} /\ open = FALSE /\ visit = 0 /\ profileBusy = FALSE /\ active \in dirs
    BY DEF Cards!Init
  <2> QED BY <2>1 DEF CardsInv, OneChange, LookedStill, CardsVisited, Cards!ActiveExists
<1>2. CardsInv /\ [Cards!Next]_Cards!vars => CardsInv'
  BY CardsNext
<1>3. CardsInv => Cards!ActiveExists
  BY DEF CardsInv
<1> QED BY <1>1, <1>2, <1>3, PTL DEF Cards!Spec

\* The card is busy with a change of this visit, or with the list after it.
CardsWait ==
    /\ \A j \in jobs : CardCall(j)
    /\ \A j \in jobs : j.op \in Cards!Changes => j.name # None
    /\ (open /\ profileBusy) => \E j \in jobs : j.visit = visit /\ CardWorks(j)

\* A call is made.
LEMMA CardsWaitCalls ==
    ASSUME CardsWait, NEW op, NEW n, NEW v, jobs' = jobs \cup {Cards!Request(issued', op, n, v)},
           op \in Cards!Changes => n # None, UNCHANGED <<open, visit>>,
           profileBusy' => profileBusy \/ (op \in Cards!Changes /\ v = visit)
    PROVE  CardsWait'
<1> DEFINE r == Cards!Request(issued', op, n, v)
<1>1. jobs' = jobs \cup {r}
  OBVIOUS
<1>2. CardCall(r) /\ r.op = op /\ r.name = n /\ r.visit = v
  BY DEF Cards!Request, CardCall
<1> HIDE DEF r
<1> QED BY <1>1, <1>2 DEF CardsWait, CardWorks, CardCall

\* A call is worked on.
LEMMA CardsWaitWorks ==
    ASSUME CardsWait, NEW j \in jobs, NEW k, jobs' = (jobs \ {j}) \cup {k}, CardCall(k),
           k.op = j.op, k.name = j.name, k.visit = j.visit, UNCHANGED <<open, visit, profileBusy>>
    PROVE  CardsWait'
BY DEF CardsWait, CardWorks, CardCall

\* The card of the profiles waits for a change, or for the list after it, only
\* while it is under way, however often the page was left and opened again.
THEOREM CardsRest == Cards!ProfilesAssumption => (Cards!Spec => []Cards!BusyEnds)
<1> SUFFICES ASSUME Cards!ProfilesAssumption PROVE Cards!Spec => []Cards!BusyEnds
  OBVIOUS
<1>0. None \notin Cards!Profiles
  BY DEF Cards!ProfilesAssumption, Cards!Profiles
<1>1. Cards!Init => CardsWait
  BY DEF Cards!Init, CardsWait
<1>2. CardsWait /\ [Cards!Next]_Cards!vars => CardsWait'
  <2> SUFFICES ASSUME CardsWait, [Cards!Next]_Cards!vars PROVE CardsWait'
    OBVIOUS
  <2> USE DEF Cards!disk, Cards!page
  <2>1. CASE UNCHANGED <<open, visit, profileBusy, jobs>>
    BY <2>1 DEF CardsWait, CardWorks, CardCall
  <2>2. CASE \/ UNCHANGED Cards!vars
                \/ (\E to \in {"general", "profiles", "cloud"} : Cards!SelectTab(to))
             \/ Cards!CancelDelete \/ \E n \in Cards!Profiles : Cards!handleDeleteProfile(n)
    BY <2>1, <2>2 DEF Cards!vars, Cards!SelectTab, Cards!CancelDelete, Cards!handleDeleteProfile
  <2>3. CASE Cards!Leave
    BY <2>3 DEF Cards!Leave, CardsWait, CardWorks, CardCall
  <2>4. CASE Cards!Open
    <3> DEFINE a == Cards!Request(issued + 1, "list", None, visit')
               b == Cards!Request(issued + 2, "status", None, visit')
    <3>1. jobs' = jobs \cup {a, b} /\ profileBusy' = FALSE
      BY <2>4 DEF Cards!Open
    <3>2. CardCall(a) /\ CardCall(b) /\ a.op = "list" /\ b.op = "status"
      BY DEF Cards!Request, CardCall
    <3> HIDE DEF a, b
    <3> QED BY <3>1, <3>2 DEF CardsWait, CardCall, Cards!Changes
  <2>5. ASSUME NEW op \in Cards!Changes, NEW n, n # None, Cards!Change(op, n) PROVE CardsWait'
    BY <2>5, CardsWaitCalls DEF Cards!Change, Cards!Call
  <2>6. ASSUME NEW n \in Cards!Profiles,
               Cards!handleCreateProfile(n) \/ Cards!handleSwitchProfile(n)
        PROVE  CardsWait'
    BY <1>0, <2>5, <2>6 DEF Cards!handleCreateProfile, Cards!handleSwitchProfile, Cards!Changes
  <2>7. CASE Cards!confirmDeleteProfile
    BY <2>5, <2>7 DEF Cards!confirmDeleteProfile, Cards!Changes
  <2>8. CASE Cards!handleDbusStart
    BY <2>8, CardsWaitCalls DEF Cards!handleDbusStart, Cards!Call, Cards!Changes
  <2>9. ASSUME NEW j \in jobs, NEW p, Cards!To(j, p), UNCHANGED <<open, visit, profileBusy>>
        PROVE  CardsWait'
    <3> DEFINE k == [j EXCEPT !.phase = p]
    <3>1. CardCall(k) /\ k.op = j.op /\ k.name = j.name /\ k.visit = j.visit
      BY DEF CardsWait, CardCall
    <3>2. jobs' = (jobs \ {j}) \cup {k}
      BY <2>9 DEF Cards!To
    <3> HIDE DEF k
    <3> QED BY <2>9, <3>1, <3>2, CardsWaitWorks
  <2>10. ASSUME NEW j \in jobs,
                Cards!Look(j) \/ Cards!Act(j) \/ \E ok \in BOOLEAN : Cards!Start(j, ok)
         PROVE  CardsWait'
    BY <2>9, <2>10 DEF Cards!Look, Cards!Act, Cards!Start
  <2>11. ASSUME NEW j \in jobs, Cards!Read(j) PROVE CardsWait'
    <3>1. PICK u : u = running
      OBVIOUS
    <3>2. PICK l : l = [names |-> dirs \cup {"default"}, active |-> active]
      OBVIOUS
    <3> DEFINE i == [j EXCEPT !.phase = "done"]
               k == [i EXCEPT !.up = u]
               m == [i EXCEPT !.list = l]
    <3>3. /\ jobs' = (jobs \ {j}) \cup {k} \/ jobs' = (jobs \ {j}) \cup {m}
          /\ UNCHANGED <<open, visit, profileBusy>>
      BY <2>11, <3>1, <3>2 DEF Cards!Read
    <3>4. CardCall(i) /\ i.op = j.op /\ i.name = j.name /\ i.visit = j.visit
      BY DEF CardsWait, CardCall
    <3> HIDE DEF i
    <3>5. /\ CardCall(k) /\ k.op = j.op /\ k.name = j.name /\ k.visit = j.visit
          /\ CardCall(m) /\ m.op = j.op /\ m.name = j.name /\ m.visit = j.visit
      BY <3>4 DEF CardCall
    <3> HIDE DEF k, m
    <3> QED BY <3>3, <3>5, CardsWaitWorks
  <2>12. ASSUME NEW j \in jobs, Cards!Changed(j) PROVE CardsWait'
    <3>1. CASE j.phase = "done"
      <4> DEFINE r == Cards!Request(issued', "list", j.name, j.visit)
      <4>1. /\ j.op \in Cards!Changes /\ jobs' = (jobs \ {j}) \cup {r}
            /\ UNCHANGED <<open, visit, profileBusy>>
        BY <2>12, <3>1 DEF Cards!Changed
      <4>2. CardCall(r) /\ r.op = "list" /\ r.name = j.name /\ r.visit = j.visit
        BY DEF Cards!Request, CardCall
      <4> HIDE DEF r
      <4> QED BY <4>1, <4>2 DEF CardsWait, CardWorks, CardCall, Cards!Changes
    <3>2. CASE j.phase # "done"
      BY <2>12, <3>2 DEF Cards!Changed, CardsWait, CardWorks, CardCall, Cards!Here
    <3> QED BY <3>1, <3>2
  <2>13. ASSUME NEW j \in jobs, NEW ok \in BOOLEAN, Cards!Listed(j, ok) PROVE CardsWait'
    BY <2>13 DEF Cards!Listed, CardsWait, CardWorks, CardCall, Cards!Here, Cards!Changes
  <2>14. ASSUME NEW j \in jobs, Cards!DbusRefused(j) \/ \E ok \in BOOLEAN : Cards!Looked(j, ok)
         PROVE  CardsWait'
    <3>1. /\ j.op \in {"start", "status"} /\ jobs' = jobs \ {j}
          /\ UNCHANGED <<open, visit, profileBusy>>
      BY <2>14 DEF Cards!DbusRefused, Cards!Looked
    <3> QED BY <3>1 DEF CardsWait, CardWorks, CardCall, Cards!Changes
  <2>15. ASSUME NEW j \in jobs, Cards!DbusDone(j) PROVE CardsWait'
    <3> DEFINE r == Cards!Request(issued', "status", None, visit)
    <3>1. /\ j.op = "start" /\ UNCHANGED <<open, visit, profileBusy>>
          /\ jobs' = (jobs \ {j}) \cup {r} \/ jobs' = jobs \ {j}
      BY <2>15 DEF Cards!DbusDone
    <3>2. CardCall(r) /\ r.op = "status"
      BY DEF Cards!Request, CardCall
    <3> HIDE DEF r
    <3> QED BY <3>1, <3>2 DEF CardsWait, CardWorks, CardCall, Cards!Changes
  <2> QED
    BY <2>2, <2>3, <2>4, <2>6, <2>7, <2>8, <2>10, <2>11, <2>12, <2>13, <2>14, <2>15 DEF Cards!Next
<1>3. CardsWait => Cards!BusyEnds
  BY DEF CardsWait, CardWorks, Cards!BusyEnds
<1> QED BY <1>1, <1>2, <1>3, PTL DEF Cards!Spec

\* Calls are numbered and of the only visit; only a change looks before it acts.
CardEntry(j) ==
    /\ CardCall(j) /\ j.id \in Nat /\ j.id <= issued /\ j.visit = visit
    /\ j.phase = "looked" => j.op \in Cards!Changes
CardsQueue ==
    /\ issued \in Nat /\ visit \in Nat /\ running \in BOOLEAN
    /\ visit = 0 => ~open /\ jobs = {}
    /\ \A j \in jobs : CardEntry(j)
    /\ \A j, k \in jobs : j.id = k.id => j = k
There == [names |-> dirs \cup {"default"}, active |-> active]
LastOf(op, j) == j.op = op /\ \A k \in jobs : k.op = op => k.id <= j.id
\* A card is to hear of a change, or the last call that looks has yet to do so
\* or has seen what is there, or the card shows it.
ProfilesNews ==
    \/ \E j \in jobs : j.op \in Cards!Changes /\ j.phase = "done"
    \/ \E j \in jobs : LastOf("list", j)
       /\ (j.phase = "sent" \/ (j.phase = "done" /\ j.list = There))
    \/ profiles = There /\ \A j \in jobs : j.op # "list"
ServiceNews ==
    \/ \E j \in jobs : j.op = "start" /\ j.phase = "done"
    \/ \E j \in jobs : LastOf("status", j)
       /\ (j.phase = "sent" \/ (j.phase = "done" /\ j.up = running))
    \/ dbusStatus = running /\ \A j \in jobs : j.op # "status"
CardsNews == open => ProfilesNews /\ ServiceNews
CardsTruth == CardsQueue /\ CardsNews

LEMMA CardLast == \A op, j : LastOf(op, j) => j.op = op
  BY DEF LastOf

\* A call is made, and another may have ended.
LEMMA CardJoins ==
    ASSUME CardsQueue, NEW op, NEW n, NEW v, v = visit, visit' = visit, visit # 0, NEW gone,
           gone \subseteq jobs, issued' = issued + 1, running' \in BOOLEAN,
           jobs' = (jobs \ gone) \cup {Cards!Request(issued', op, n, v)}
    PROVE  /\ CardsQueue'
           /\ \E r : /\ jobs' = (jobs \ gone) \cup {r} /\ r.op = op /\ r.phase = "sent"
                     /\ LastOf(op, r)'
                     /\ \A h \in jobs \ gone : h \in jobs'
                          /\ \A o : o # op /\ LastOf(o, h) => LastOf(o, h)'
<1>1. /\ issued \in Nat /\ issued' \in Nat
      /\ \A j \in jobs : CardEntry(j) /\ j.id \in Nat /\ j.id < issued'
  BY DEF CardsQueue, CardEntry
<1>2. PICK r : /\ jobs' = (jobs \ gone) \cup {r} /\ CardCall(r) /\ r.op = op /\ r.visit = v
               /\ r.phase = "sent" /\ r.id = issued'
  <2> DEFINE r == Cards!Request(issued', op, n, v)
  <2>1. CardCall(r) /\ r.op = op /\ r.visit = v /\ r.phase = "sent" /\ r.id = issued'
    BY DEF Cards!Request, CardCall
  <2>2. jobs' = (jobs \ gone) \cup {r}
    OBVIOUS
  <2> HIDE DEF r
  <2> QED BY <2>1, <2>2
<1>3. CardEntry(r)'
  BY <1>1, <1>2 DEF CardEntry, CardCall
<1>4. \A j \in jobs : CardEntry(j)'
  BY <1>1 DEF CardEntry, CardCall
<1>5. \A j, k \in jobs' : j.id = k.id => j = k
  BY <1>1, <1>2 DEF CardsQueue
<1>6. CardsQueue'
  BY <1>1, <1>2, <1>3, <1>4, <1>5 DEF CardsQueue
<1>7. LastOf(op, r)'
  BY <1>1, <1>2 DEF LastOf
<1>8. \A h \in jobs \ gone : h \in jobs' /\ \A o : o # op /\ LastOf(o, h) => LastOf(o, h)'
  BY <1>2 DEF LastOf
<1> QED BY <1>2, <1>6, <1>7, <1>8

\* A call goes on.
LEMMA CardGoes ==
    ASSUME CardsQueue, NEW j \in jobs, NEW k, jobs' = (jobs \ {j}) \cup {k}, CardCall(k),
           k.id = j.id, k.op = j.op, k.visit = j.visit, k.phase = "looked"
             => k.op \in Cards!Changes,
           running' \in BOOLEAN, UNCHANGED <<issued, visit, open>>
    PROVE  /\ CardsQueue'
           /\ \A h \in jobs \ {j} : h \in jobs' /\ \A o : LastOf(o, h) => LastOf(o, h)'
           /\ \A o : LastOf(o, j) => LastOf(o, k)'
<1>1. \A h \in jobs' : h = k \/ (h \in jobs /\ h # j)
  OBVIOUS
<1>2. \A h \in jobs : CardEntry(h)'
  BY DEF CardsQueue, CardEntry, CardCall
<1>3. CardEntry(k)'
  BY DEF CardsQueue, CardEntry, CardCall
<1>4. \A h, l \in jobs' : h.id = l.id => h = l
  BY <1>1 DEF CardsQueue
<1>5. CardsQueue'
  BY <1>1, <1>2, <1>3, <1>4 DEF CardsQueue
<1>6. \A h \in jobs \ {j} : h \in jobs' /\ \A o : LastOf(o, h) => LastOf(o, h)'
  BY <1>1 DEF LastOf
<1>7. \A o : LastOf(o, j) => LastOf(o, k)'
  BY <1>1 DEF LastOf
<1> QED BY <1>5, <1>6, <1>7

\* A call ends.
LEMMA CardLeaves ==
    ASSUME CardsQueue, NEW j \in jobs, jobs' = jobs \ {j},
           UNCHANGED <<issued, visit, open, running>>
    PROVE  /\ CardsQueue'
           /\ \A h \in jobs \ {j} : h \in jobs' /\ \A o : LastOf(o, h) => LastOf(o, h)'
<1>1. CardsQueue'
  BY DEF CardsQueue, CardEntry, CardCall
<1>2. \A h \in jobs \ {j} : h \in jobs' /\ \A o : LastOf(o, h) => LastOf(o, h)'
  BY DEF LastOf
<1> QED BY <1>1, <1>2

\* A change, or the start of the service
LEMMA CardTruthBegins ==
    ASSUME CardsTruth, open, NEW op, op \notin {"list", "status"}, NEW n,
           Cards!Call(op, n, visit),
             UNCHANGED <<open, visit, profiles, dbusStatus, dirs, active, running>>
    PROVE  CardsTruth'
<1>1. PICK gone, v : gone = {} /\ v = visit
  OBVIOUS
<1>2. /\ issued' = issued + 1 /\ jobs' = (jobs \ gone) \cup {Cards!Request(issued', op, n, v)}
      /\ gone \subseteq jobs /\ v = visit /\ visit' = visit /\ visit # 0 /\ running' \in BOOLEAN
         /\ CardsQueue
  BY <1>1 DEF Cards!Call, CardsTruth, CardsQueue
<1>3. /\ CardsQueue'
      /\ \E r : /\ jobs' = (jobs \ gone) \cup {r} /\ r.op = op /\ r.phase = "sent"
                /\ LastOf(op, r)'
                /\ \A h \in jobs \ gone : h \in jobs'
                     /\ \A o : o # op /\ LastOf(o, h) => LastOf(o, h)'
  BY <1>2, CardJoins
<1>4. There' = There
  BY DEF There
<1>5. CardsNews'
  BY <1>1, <1>3, <1>4, CardLast DEF CardsTruth, CardsNews, ProfilesNews, ServiceNews
<1> QED BY <1>3, <1>5 DEF CardsTruth

\* Both cards are asked for when the page is opened.
LEMMA CardTruthOpens ==
    ASSUME Cards!ProfilesAssumption, Visits["profiles"] <= 1, CardsTruth, Cards!Open
    PROVE  CardsTruth'
<1>1. visit = 0 /\ jobs = {} /\ issued \in Nat
  BY DEF Cards!Open, CardsTruth, CardsQueue, Cards!ProfilesAssumption
<1>2. PICK a, b : /\ jobs' = {a, b} /\ CardCall(a) /\ CardCall(b)
                  /\ a.op = "list" /\ a.phase = "sent" /\ a.visit = visit' /\ a.id = issued + 1
                  /\ b.op = "status" /\ b.phase = "sent" /\ b.visit = visit' /\ b.id = issued + 2
  <2> DEFINE a == Cards!Request(issued + 1, "list", None, visit')
             b == Cards!Request(issued + 2, "status", None, visit')
  <2>1. jobs' = {a, b}
    BY <1>1 DEF Cards!Open
  <2>2. CardCall(a) /\ a.op = "list" /\ a.phase = "sent" /\ a.visit = visit' /\ a.id = issued + 1
    BY DEF Cards!Request, CardCall
  <2>3. CardCall(b) /\ b.op = "status" /\ b.phase = "sent" /\ b.visit = visit' /\ b.id = issued + 2
    BY DEF Cards!Request, CardCall
  <2> HIDE DEF a, b
  <2> QED BY <2>1, <2>2, <2>3
<1>3. issued' = issued + 2 /\ visit' = 1 /\ running' = running
  BY <1>1 DEF Cards!Open, Cards!disk
<1>4. CardEntry(a)' /\ CardEntry(b)'
  BY <1>1, <1>2, <1>3 DEF CardEntry, CardCall
<1>5. CardsQueue'
  BY <1>1, <1>2, <1>3, <1>4 DEF CardsTruth, CardsQueue
<1>6. LastOf("list", a)' /\ LastOf("status", b)'
  BY <1>1, <1>2 DEF LastOf
<1> QED BY <1>2, <1>5, <1>6 DEF CardsTruth, CardsNews, ProfilesNews, ServiceNews

\* The sidecar looks before a change, makes it, and starts the service.
LEMMA CardTruthWorks ==
    ASSUME CardsTruth, NEW j \in jobs, NEW p, Cards!To(j, p), j.op \notin {"list", "status"},
           UNCHANGED <<issued, open, visit, profiles, dbusStatus>>, running' \in BOOLEAN,
           p = "looked" => j.op \in Cards!Changes, j.phase # "done",
           UNCHANGED <<dirs, active>> \/ (p = "done" /\ j.op \in Cards!Changes),
           UNCHANGED running \/ (p = "done" /\ j.op = "start")
    PROVE  CardsTruth'
<1>1. PICK k : /\ jobs' = (jobs \ {j}) \cup {k} /\ CardCall(k) /\ k.phase = p
               /\ k.id = j.id /\ k.op = j.op /\ k.visit = j.visit
  <2> DEFINE k == [j EXCEPT !.phase = p]
  <2>1. jobs' = (jobs \ {j}) \cup {k}
    BY DEF Cards!To
  <2>2. CardCall(k) /\ k.phase = p /\ k.id = j.id /\ k.op = j.op /\ k.visit = j.visit
    BY DEF CardsTruth, CardsQueue, CardEntry, CardCall
  <2> HIDE DEF k
  <2> QED BY <2>1, <2>2
<1>2. /\ CardsQueue'
      /\ \A h \in jobs \ {j} : h \in jobs' /\ \A o : LastOf(o, h) => LastOf(o, h)'
      /\ \A o : LastOf(o, j) => LastOf(o, k)'
  BY <1>1, CardGoes DEF CardsTruth
<1>3. open => ProfilesNews'
  <2>1. CASE p = "done" /\ j.op \in Cards!Changes
    BY <1>1, <2>1 DEF ProfilesNews
  <2>2. CASE UNCHANGED <<dirs, active>>
    <3>1. There' = There
      BY <2>2 DEF There
    <3> QED BY <1>1, <1>2, <3>1, CardLast DEF CardsTruth, CardsNews, ProfilesNews
  <2> QED BY <2>1, <2>2
<1>4. open => ServiceNews'
  <2>1. CASE p = "done" /\ j.op = "start"
    BY <1>1, <2>1 DEF ServiceNews
  <2>2. CASE UNCHANGED running
    BY <1>1, <1>2, <2>2, CardLast DEF CardsTruth, CardsNews, ServiceNews
  <2> QED BY <2>1, <2>2
<1> QED BY <1>2, <1>3, <1>4 DEF CardsTruth, CardsNews

\* It looks for a card.
LEMMA CardTruthReads ==
    ASSUME CardsTruth, NEW j \in jobs, Cards!Read(j) PROVE CardsTruth'
<1>1. /\ UNCHANGED <<issued, open, visit, profiles, dbusStatus, dirs, active, running>>
      /\ j.op \in {"list", "status"} /\ CardCall(j) /\ j.phase = "sent"
  BY DEF Cards!Read, Cards!page, Cards!disk, CardsTruth, CardsQueue, CardEntry
<1>2. PICK k : /\ jobs' = (jobs \ {j}) \cup {k} /\ CardCall(k) /\ k.phase = "done"
               /\ k.id = j.id /\ k.op = j.op /\ k.visit = j.visit
               /\ k.op = "list" => k.list = There
               /\ k.op = "status" => k.up = running
  <2> DEFINE m == [j EXCEPT !.phase = "done"]
  <2>1. CardCall(m) /\ m.phase = "done" /\ m.op = j.op /\ m.id = j.id /\ m.visit = j.visit
    BY <1>1 DEF CardCall
  <2>2. PICK t : t = There
    OBVIOUS
  <2>3. jobs' = (jobs \ {j}) \cup {IF j.op = "status" THEN [m EXCEPT !.up = running]
                                   ELSE [m EXCEPT !.list = t]}
    BY <2>2 DEF Cards!Read, There
  <2> HIDE DEF m
  <2> DEFINE a == [m EXCEPT !.up = running]
             b == [m EXCEPT !.list = t]
  <2>4. /\ CardCall(a) /\ a.phase = "done" /\ a.op = j.op /\ a.id = j.id /\ a.visit = j.visit
        /\ a.up = running
    BY <2>1 DEF CardCall
  <2>5. /\ CardCall(b) /\ b.phase = "done" /\ b.op = j.op /\ b.id = j.id /\ b.visit = j.visit
        /\ b.list = t
    BY <2>1 DEF CardCall
  <2>6. jobs' = (jobs \ {j}) \cup {IF j.op = "status" THEN a ELSE b}
    BY <2>3
  <2> HIDE DEF a, b
  <2>7. CASE j.op = "status"
    BY <2>4, <2>6, <2>7
  <2>8. CASE j.op # "status"
    BY <2>2, <2>5, <2>6, <2>8
  <2> QED BY <2>7, <2>8
<1>3. /\ CardsQueue'
      /\ \A h \in jobs \ {j} : h \in jobs' /\ \A o : LastOf(o, h) => LastOf(o, h)'
      /\ \A o : LastOf(o, j) => LastOf(o, k)'
  <2>1. running' \in BOOLEAN /\ CardsQueue
    BY <1>1 DEF CardsTruth, CardsQueue
  <2> QED BY <1>1, <1>2, <2>1, CardGoes
<1>4. There' = There
  BY <1>1 DEF There
<1>5. open => ProfilesNews'
  BY <1>1, <1>2, <1>3, <1>4, CardLast DEF CardsTruth, CardsNews, ProfilesNews, Cards!Changes
<1>6. open => ServiceNews'
  BY <1>1, <1>2, <1>3, CardLast DEF CardsTruth, CardsNews, ServiceNews
<1> QED BY <1>1, <1>3, <1>5, <1>6 DEF CardsTruth, CardsNews

\* An answer that leaves the cards as they are: it is of no card, and nothing
\* has changed.
LEMMA CardTruthEnds ==
    ASSUME CardsTruth, NEW j \in jobs, jobs' = jobs \ {j}, j.op \notin {"list", "status"},
           j.phase # "done", UNCHANGED <<issued, open, visit, profiles, dbusStatus, Cards!disk>>
    PROVE  CardsTruth'
<1>1. /\ CardsQueue'
      /\ \A h \in jobs \ {j} : h \in jobs' /\ \A o : LastOf(o, h) => LastOf(o, h)'
  BY CardLeaves DEF CardsTruth, Cards!disk
<1>2. There' = There /\ running' = running
  BY DEF There, Cards!disk
<1>3. open => ProfilesNews'
  BY <1>1, <1>2, CardLast DEF CardsTruth, CardsNews, ProfilesNews
<1>4. open => ServiceNews'
  BY <1>1, <1>2, CardLast DEF CardsTruth, CardsNews, ServiceNews
<1> QED BY <1>1, <1>3, <1>4 DEF CardsTruth, CardsNews

\* A change, or a start of the service, has ended: its card is looked for.
LEMMA CardTruthTold ==
    ASSUME CardsTruth, NEW j \in jobs, j.op \notin {"list", "status"}, NEW op, NEW n,
           op \in {"list", "status"},
           (op = "list" /\ j.op # "start") \/ (op = "status" /\ j.op \notin Cards!Changes),
           NEW v, v = visit, issued' = issued + 1,
           jobs' = (jobs \ {j}) \cup {Cards!Request(issued', op, n, v)},
           UNCHANGED <<open, visit, profiles, dbusStatus, Cards!disk>>
    PROVE  CardsTruth'
<1>1. PICK gone : gone = {j}
  OBVIOUS
<1>2. /\ jobs' = (jobs \ gone) \cup {Cards!Request(issued', op, n, v)}
      /\ gone \subseteq jobs /\ visit # 0 /\ running' \in BOOLEAN /\ CardsQueue
  BY <1>1 DEF CardsTruth, CardsQueue, Cards!disk
<1>3. /\ CardsQueue'
      /\ \E r : /\ jobs' = (jobs \ gone) \cup {r} /\ r.op = op /\ r.phase = "sent"
                /\ LastOf(op, r)'
                /\ \A h \in jobs \ gone : h \in jobs'
                     /\ \A o : o # op /\ LastOf(o, h) => LastOf(o, h)'
  BY <1>2, CardJoins
<1>4. There' = There /\ running' = running
  BY DEF There, Cards!disk
<1>5. open => ProfilesNews'
  BY <1>1, <1>3, <1>4, CardLast DEF CardsTruth, CardsNews, ProfilesNews
<1>6. open => ServiceNews'
  BY <1>1, <1>3, <1>4, CardLast DEF CardsTruth, CardsNews, ServiceNews
<1> QED BY <1>3, <1>5, <1>6 DEF CardsTruth, CardsNews

\* A card is shown.
LEMMA CardTruthShows ==
    ASSUME ~Rough, CardsTruth, NEW j \in jobs, NEW ok \in BOOLEAN,
           Cards!Listed(j, ok) \/ Cards!Looked(j, ok)
    PROVE  CardsTruth'
<1>1. /\ jobs' = jobs \ {j} /\ j.phase = "done" /\ ok /\ j.op \in {"list", "status"}
      /\ UNCHANGED <<issued, open, visit, dirs, active, running>>
      /\ \A k \in jobs : k.op = j.op => j.id <= k.id
      /\ open => profiles' = IF j.op = "list" THEN j.list ELSE profiles
      /\ open => dbusStatus' = IF j.op = "status" THEN j.up ELSE dbusStatus
  BY DEF Cards!Listed, Cards!Looked, Cards!disk, Cards!Here, CardsTruth, CardsQueue, CardEntry
<1>2. /\ CardsQueue'
      /\ \A h \in jobs \ {j} : h \in jobs' /\ \A o : LastOf(o, h) => LastOf(o, h)'
  BY <1>1, CardLeaves DEF CardsTruth
<1>3. There' = There
  BY <1>1 DEF There
\* The last that looks is the only one.
<1>4. LastOf(j.op, j) => \A k \in jobs : k.op = j.op => k = j
  BY <1>1 DEF LastOf, CardsTruth, CardsQueue, CardEntry
<1>5. open => ProfilesNews'
  <2> SUFFICES ASSUME open PROVE ProfilesNews'
    OBVIOUS
  <2>1. CASE \E h \in jobs : h.op \in Cards!Changes /\ h.phase = "done"
    BY <1>1, <2>1 DEF ProfilesNews, Cards!Changes
  <2>2. CASE \E h \in jobs : h # j /\ LastOf("list", h)
                             /\ (h.phase = "sent" \/ (h.phase = "done" /\ h.list = There))
    BY <1>2, <1>3, <2>2 DEF ProfilesNews
  <2>3. CASE LastOf("list", j) /\ j.list = There
    <3>1. profiles' = There' /\ \A h \in jobs' : h.op # "list"
      BY <1>1, <1>3, <1>4, <2>3 DEF LastOf
    <3> QED BY <3>1 DEF ProfilesNews
  <2>4. CASE profiles = There /\ \A h \in jobs : h.op # "list"
    BY <1>1, <1>3, <2>4 DEF ProfilesNews
  <2> QED BY <1>1, <2>1, <2>2, <2>3, <2>4 DEF CardsTruth, CardsNews, ProfilesNews
<1>6. open => ServiceNews'
  <2> SUFFICES ASSUME open PROVE ServiceNews'
    OBVIOUS
  <2>1. CASE \E h \in jobs : h.op = "start" /\ h.phase = "done"
    BY <1>1, <2>1 DEF ServiceNews
  <2>2. CASE \E h \in jobs : h # j /\ LastOf("status", h)
                             /\ (h.phase = "sent" \/ (h.phase = "done" /\ h.up = running))
    BY <1>1, <1>2, <2>2 DEF ServiceNews
  <2>3. CASE LastOf("status", j) /\ j.up = running
    <3>1. dbusStatus' = running' /\ \A h \in jobs' : h.op # "status"
      BY <1>1, <1>4, <2>3 DEF LastOf
    <3> QED BY <3>1 DEF ServiceNews
  <2>4. CASE dbusStatus = running /\ \A h \in jobs : h.op # "status"
    BY <1>1, <2>4 DEF ServiceNews
  <2> QED BY <1>1, <2>1, <2>2, <2>3, <2>4 DEF CardsTruth, CardsNews, ServiceNews
<1> QED BY <1>1, <1>2, <1>5, <1>6 DEF CardsTruth, CardsNews

LEMMA CardTruthNext ==
    Cards!ProfilesAssumption /\ Visits["profiles"] <= 1 /\ ~Rough /\ CardsTruth
      /\ [Cards!Next]_Cards!vars => CardsTruth'
<1> SUFFICES ASSUME Cards!ProfilesAssumption, Visits["profiles"] <= 1, ~Rough, CardsTruth,
                    [Cards!Next]_Cards!vars
             PROVE  CardsTruth'
  OBVIOUS
<1>1. ASSUME UNCHANGED <<issued, jobs, visit, profiles, dbusStatus, dirs, active, running>>,
             open' => open
      PROVE  CardsTruth'
  <2>1. CardsQueue'
    BY <1>1 DEF CardsTruth, CardsQueue, CardEntry, CardCall
  <2>2. CardsNews'
    BY <1>1 DEF CardsTruth, CardsNews, ProfilesNews, ServiceNews, LastOf, There
  <2> QED BY <2>1, <2>2 DEF CardsTruth
<1>2. CASE Cards!Leave \/ Cards!CancelDelete \/ UNCHANGED Cards!vars
  BY <1>1, <1>2 DEF Cards!Leave, Cards!CancelDelete, Cards!vars, Cards!disk
<1>3. ASSUME NEW to, Cards!SelectTab(to) PROVE CardsTruth'
  BY <1>1, <1>3 DEF Cards!SelectTab, Cards!disk
<1>4. CASE Cards!confirmDeleteProfile
  <2>1. PICK n : n = confirmDelete
    OBVIOUS
  <2>2. /\ open /\ Cards!Call("delete", n, visit)
        /\ UNCHANGED <<open, visit, profiles, dbusStatus, dirs, active, running>>
    BY <1>4, <2>1 DEF Cards!confirmDeleteProfile, Cards!Change, Cards!disk
  <2> QED BY <2>2, CardTruthBegins
<1>5. CASE Cards!handleDbusStart
  <2>1. /\ open /\ Cards!Call("start", None, visit)
        /\ UNCHANGED <<open, visit, profiles, dbusStatus, dirs, active, running>>
    BY <1>5 DEF Cards!handleDbusStart, Cards!DbusOffers, Cards!disk
  <2> QED BY <2>1, CardTruthBegins
<1>6. ASSUME NEW n \in Cards!Profiles,
             Cards!handleCreateProfile(n) \/ Cards!handleSwitchProfile(n)
               \/ Cards!handleDeleteProfile(n)
      PROVE  CardsTruth'
  <2>1. CASE Cards!handleDeleteProfile(n)
    BY <1>1, <2>1 DEF Cards!handleDeleteProfile, Cards!disk
  <2>2. CASE Cards!handleCreateProfile(n) \/ Cards!handleSwitchProfile(n)
    <3>1. PICK op \in Cards!Changes : open /\ Cards!Change(op, n)
      BY <2>2
         DEF Cards!handleCreateProfile, Cards!handleSwitchProfile, Cards!Row, Cards!Card,
             Cards!Changes
    <3>2. /\ Cards!Call(op, n, visit) /\ op \notin {"list", "status"}
          /\ UNCHANGED <<open, visit, profiles, dbusStatus, dirs, active, running>>
      BY <3>1 DEF Cards!Change, Cards!disk, Cards!Changes
    <3> QED BY <3>1, <3>2, CardTruthBegins
  <2> QED BY <1>6, <2>1, <2>2
<1>7. ASSUME NEW j \in jobs,
             Cards!Look(j) \/ Cards!Act(j) \/ \E ok \in BOOLEAN : Cards!Start(j, ok)
      PROVE  CardsTruth'
  <2>1. running \in BOOLEAN /\ (j.phase = "looked" => j.op \in Cards!Changes)
    BY DEF CardsTruth, CardsQueue, CardEntry
  <2>2. PICK p : /\ Cards!To(j, p) /\ j.op \notin {"list", "status"}
                 /\ UNCHANGED <<issued, open, visit, profiles, dbusStatus>> /\ running' \in BOOLEAN
                 /\ p = "looked" => j.op \in Cards!Changes /\ j.phase # "done"
                 /\ UNCHANGED <<dirs, active>> \/ (p = "done" /\ j.op \in Cards!Changes)
                 /\ UNCHANGED running \/ (p = "done" /\ j.op = "start")
                 /\ j.phase # "done"
    <3>1. CASE Cards!Look(j)
      BY <2>1, <3>1 DEF Cards!Look, Cards!page, Cards!disk, Cards!Changes
    <3>2. CASE Cards!Act(j)
      BY <2>1, <3>2 DEF Cards!Act, Cards!page, Cards!Changes
    <3>3. ASSUME NEW ok \in BOOLEAN, Cards!Start(j, ok)
          PROVE  \E p : /\ Cards!To(j, p) /\ j.op \notin {"list", "status"}
                        /\ UNCHANGED <<issued, open, visit, profiles, dbusStatus>>
                        /\ running' \in BOOLEAN /\ p # "looked" /\ j.phase # "done"
                        /\ UNCHANGED <<dirs, active>>
                        /\ UNCHANGED running \/ (p = "done" /\ j.op = "start")
      BY <2>1, <3>3 DEF Cards!Start, Cards!page
    <3> QED BY <1>7, <3>1, <3>2, <3>3
  <2> QED BY <2>2, CardTruthWorks
<1>8. ASSUME NEW j \in jobs, Cards!Changed(j) PROVE CardsTruth'
  <2>1. /\ j.op \in Cards!Changes /\ j.op \notin {"list", "status"} /\ j.op # "start"
        /\ j.visit = visit /\ UNCHANGED <<open, visit, profiles, dbusStatus, Cards!disk>>
    BY <1>8 DEF Cards!Changed, Cards!Changes, CardsTruth, CardsQueue, CardEntry
  <2>2. CASE j.phase = "done"
    <3>1. PICK op, n, v : op = "list" /\ n = j.name /\ v = j.visit
      OBVIOUS
    <3>2. issued' = issued + 1 /\ jobs' = (jobs \ {j}) \cup {Cards!Request(issued', op, n, v)}
      BY <1>8, <2>2, <3>1 DEF Cards!Changed
    <3> QED BY <2>1, <3>1, <3>2, CardTruthTold
  <2>3. CASE j.phase # "done"
    <3>1. issued' = issued /\ jobs' = jobs \ {j}
      BY <1>8, <2>3 DEF Cards!Changed
    <3> QED BY <2>1, <2>3, <3>1, CardTruthEnds
  <2> QED BY <2>2, <2>3
<1>9. ASSUME NEW j \in jobs, Cards!DbusDone(j) PROVE CardsTruth'
  <2>1. /\ j.op = "start" /\ j.op \notin Cards!Changes
        /\ UNCHANGED <<open, visit, profiles, dbusStatus, Cards!disk>>
    BY <1>9 DEF Cards!DbusDone, Cards!page, Cards!Changes
  <2>2. CASE open
    <3>1. PICK op, n, v : op = "status" /\ n = None /\ v = visit
      OBVIOUS
    <3>2. issued' = issued + 1 /\ jobs' = (jobs \ {j}) \cup {Cards!Request(issued', op, n, v)}
      BY <1>9, <2>2, <3>1 DEF Cards!DbusDone
    <3> QED BY <2>1, <3>1, <3>2, CardTruthTold
  <2>3. CASE ~open
    <3>1. jobs' = jobs \ {j} /\ UNCHANGED <<issued, visit, open, running>>
      BY <1>9, <2>1, <2>3 DEF Cards!DbusDone, Cards!disk
    <3> QED BY <2>3, <3>1, CardLeaves DEF CardsTruth, CardsNews
  <2> QED BY <2>2, <2>3
<1>10. ASSUME NEW j \in jobs, Cards!DbusRefused(j) PROVE CardsTruth'
  BY <1>10, CardTruthEnds DEF Cards!DbusRefused
<1> QED
  BY <1>2, <1>3, <1>4, <1>5, <1>6, <1>7, <1>8, <1>9, <1>10, CardTruthOpens, CardTruthReads,
     CardTruthShows DEF Cards!Next

\* At rest the cards of the profiles and of the service show what is there, as
\* long as the page is opened once.
THEOREM CardsTrue ==
    Cards!ProfilesAssumption /\ Visits["profiles"] <= 1 /\ ~Rough
      => (Cards!Spec => []Cards!CardsTruthful)
<1> SUFFICES ASSUME Cards!ProfilesAssumption, Visits["profiles"] <= 1, ~Rough
             PROVE  Cards!Spec => []Cards!CardsTruthful
  OBVIOUS
<1>1. Cards!Init => CardsTruth
  <2> SUFFICES ASSUME Cards!Init PROVE CardsTruth
    OBVIOUS
  <2>1. issued \in Nat /\ visit \in Nat /\ running \in BOOLEAN
    BY DEF Cards!Init
  <2>2. ~open /\ jobs = {}
    BY DEF Cards!Init
  <2> QED BY <2>1, <2>2 DEF CardsTruth, CardsQueue, CardsNews
<1>2. CardsTruth /\ [Cards!Next]_Cards!vars => CardsTruth'
  BY CardTruthNext
<1>3. CardsTruth => Cards!CardsTruthful
  BY DEF CardsTruth, CardsNews, ProfilesNews, ServiceNews, Cards!CardsTruthful, There
<1> QED BY <1>1, <1>2, <1>3, PTL DEF Cards!Spec

-----------------------------------------------------------------------------
(* The page of the AUR *)

\* The page opened once, its calls calm, and searches by its button only: a
\* second visit hears the events of the first, and the enter key searches
\* beside a search.
BrowseOnce == Browse!BrowseAssumption /\ ~Rough /\ Visits["browse"] <= 1

BrowseCall(j) == j = [id |-> j.id, op |-> j.op, name |-> j.name, visit |-> j.visit, step |-> j.step]
BrowseFlags == open \in BOOLEAN /\ searching \in BOOLEAN
BrowseVisited == visit \in Nat /\ (visit = 0 => ~open /\ jobs = {})
BrowseCalls ==
    /\ issued \in Nat
    /\ \A j \in jobs : /\ BrowseCall(j) /\ j.id \in Nat /\ j.id <= issued
                       /\ j.op = "build" => j.name # None
OneSearch ==
    open => /\ \A j \in jobs : j.op = "search" => searching /\ j.id = asked
            /\ \A j, k \in jobs : j.op = "search" /\ k.op = "search" => j = k
            /\ results \in {0, asked}
\* The last question about a package is under its name, until it is answered.
LastInfo ==
    open => /\ \A j \in jobs :
                 (j.op = "info" /\ \A k \in jobs : k.op = "info" => k.id <= j.id)
                   => j.name = infoName
            /\ (\A j \in jobs : j.op # "info") => info \in {None, infoName}
BrowseCore == BrowseCalls /\ OneSearch /\ Browse!OneBuild /\ LastInfo
BrowseInv  == BrowseFlags /\ BrowseVisited /\ BrowseCore


\* A call of the page
LEMMA BrowseAsks ==
    ASSUME BrowseInv, NEW op, NEW n, Browse!Called(op, n)
    PROVE  /\ \E r : jobs' = jobs \cup {r} /\ r.op = op /\ r.name = n /\ r.id = issued'
           /\ issued' = issued + 1 /\ issued \in Nat
           /\ \A k \in jobs : k.id \in Nat /\ k.id <= issued
           /\ (op = "build" => n # None) => BrowseCalls'
<1> DEFINE r == [id |-> issued', op |-> op, name |-> n, visit |-> visit, step |-> ""]
<1>1. issued \in Nat /\ \A k \in jobs : k.id \in Nat /\ k.id <= issued
  BY DEF BrowseInv, BrowseCore, BrowseCalls
<1>2. issued' = issued + 1
  BY DEF Browse!Called
<1>3. jobs' = jobs \cup {r}
  BY DEF Browse!Called
<1>4. BrowseCall(r) /\ r.id = issued' /\ r.op = op /\ r.name = n
  BY DEF BrowseCall
<1> HIDE DEF r
<1>5. issued' \in Nat
  BY <1>1, <1>2
<1>6. (op = "build" => n # None) => BrowseCalls'
  BY <1>1, <1>2, <1>3, <1>4, <1>5 DEF BrowseInv, BrowseCore, BrowseCalls, BrowseCall
<1> QED BY <1>1, <1>2, <1>3, <1>4, <1>6

LEMMA BrowseFrame ==
    BrowseOnce /\ BrowseInv /\ [Browse!Next]_Browse!vars => BrowseFlags' /\ BrowseVisited'
<1> SUFFICES ASSUME BrowseOnce, BrowseInv, [Browse!Next]_Browse!vars
             PROVE  BrowseFlags' /\ BrowseVisited'
  OBVIOUS
<1>a. BrowseFlags /\ BrowseVisited
  BY DEF BrowseInv
<1>1. ASSUME UNCHANGED <<open, visit>>, searching' \in BOOLEAN, jobs = {} => jobs' = {} \/ open
      PROVE  BrowseFlags' /\ BrowseVisited'
  BY <1>a, <1>1 DEF BrowseFlags, BrowseVisited
<1>2. CASE Browse!Open
  <2>1. visit' = visit + 1 /\ visit \in Nat
    BY <1>a, <1>2 DEF Browse!Open, BrowseVisited
  <2>2. BrowseFlags'
    BY <1>2 DEF Browse!Open, BrowseFlags
  <2>3. visit' \in Nat /\ visit' # 0
    BY <2>1
  <2> QED BY <2>2, <2>3 DEF BrowseVisited
<1>3. CASE Browse!Leave
  BY <1>a, <1>3 DEF Browse!Leave, BrowseFlags, BrowseVisited
<1>4. CASE UNCHANGED Browse!vars
  BY <1>a, <1>1, <1>4 DEF Browse!vars, BrowseFlags
<1>5. CASE Browse!handleSearch \/ Browse!handleLoadMore \/ \E n \in Found : Browse!handleInfo(n)
             \/ Browse!handleBuild(n)
  <2>1. open /\ UNCHANGED <<open, visit>>
    BY <1>5
       DEF Browse!handleSearch, Browse!handleLoadMore, Browse!doSearch, Browse!handleInfo,
           Browse!handleBuild, Browse!Listed
  <2>2. searching' \in BOOLEAN
    BY <1>a, <1>5
       DEF Browse!handleSearch, Browse!handleLoadMore, Browse!doSearch, Browse!handleInfo,
           Browse!handleBuild, Browse!Listed, BrowseFlags
  <2> QED BY <1>1, <2>1, <2>2
<1>6. ASSUME NEW j \in jobs, Browse!Progress(j) \/ Browse!BuildDone(j) \/ Browse!Refused(j)
                             \/ \E ok \in BOOLEAN : Browse!SearchDone(j, ok)
                                \/ Browse!InfoDone(j, ok)
      PROVE  BrowseFlags' /\ BrowseVisited'
  <2>0. ~Browse!Refused(j)
    BY DEF Browse!Refused, BrowseOnce
  <2>1. UNCHANGED <<open, visit>> /\ jobs # {}
    BY <1>6, <2>0 DEF Browse!Progress, Browse!BuildDone, Browse!SearchDone, Browse!InfoDone
  <2>2. searching' \in BOOLEAN
    BY <1>a, <1>6, <2>0
       DEF Browse!Progress, Browse!BuildDone, Browse!SearchDone, Browse!InfoDone, BrowseFlags
  <2> QED BY <1>1, <2>1, <2>2
<1>7. \A j : ~Browse!TimesOut(j)
  BY DEF Browse!TimesOut, BrowseOnce
<1> QED BY <1>2, <1>3, <1>4, <1>5, <1>6, <1>7 DEF Browse!Next

LEMMA BrowseNext == BrowseOnce /\ BrowseInv /\ [Browse!Next]_Browse!vars => BrowseCore'
<1> SUFFICES ASSUME BrowseOnce, BrowseInv, [Browse!Next]_Browse!vars PROVE BrowseCore'
  OBVIOUS
<1>a. BrowseFlags /\ open \in BOOLEAN /\ searching \in BOOLEAN
  BY DEF BrowseInv, BrowseCore, BrowseFlags
<1>b. BrowseVisited /\ visit \in Nat /\ (open => visit # 0)
  BY DEF BrowseInv, BrowseVisited
<1>1. CASE UNCHANGED Browse!vars
  BY <1>1
     DEF Browse!vars, BrowseInv, BrowseCore, BrowseCalls, BrowseCall, OneSearch, Browse!OneBuild,
         LastInfo
<1>2. CASE Browse!Open
  <2>1. visit < Visits["browse"] /\ visit' = visit + 1 /\ Visits["browse"] \in Nat
          /\ Visits["browse"] <= 1
    BY <1>2 DEF Browse!Open, BrowseOnce, Browse!BrowseAssumption
  <2>2. visit = 0 /\ visit' = 1
    BY <1>a, <1>b, <2>1
  <2>3. /\ open' = TRUE /\ searching' = FALSE /\ results' = 0 /\ infoName' = None /\ info' = None
        /\ asked' = 0 /\ UNCHANGED <<issued, jobs>>
    BY <1>2 DEF Browse!Open
  <2>4. jobs' = {} /\ issued' \in Nat
    <3>1. jobs = {}
      BY <1>b, <2>2 DEF BrowseVisited
    <3>2. issued \in Nat
      BY DEF BrowseInv, BrowseCore, BrowseCalls
    <3> QED BY <2>3, <3>1, <3>2
  <2>5. BrowseCalls'
    BY <2>2, <2>3, <2>4 DEF BrowseCalls, BrowseCall
  <2>6. OneSearch' /\ Browse!OneBuild' /\ LastInfo'
    BY <2>3, <2>4 DEF OneSearch, Browse!OneBuild, LastInfo
  <2> QED BY <2>5, <2>6 DEF BrowseInv, BrowseCore
<1>3. CASE Browse!Leave
  <2>1. open' = FALSE /\ visit # 0 /\ UNCHANGED <<visit, searching, issued, jobs>>
    BY <1>a, <1>b, <1>3 DEF Browse!Leave
  <2> QED BY <2>1
             DEF BrowseInv, BrowseCore, BrowseCalls, BrowseCall, OneSearch, Browse!OneBuild,
                 LastInfo
<1>4. CASE Browse!handleSearch \/ Browse!handleLoadMore
  <2>1. /\ open /\ ~searching /\ Browse!Called("search", None) /\ searching' = TRUE /\ results' = 0
        /\ asked' = issued' /\ UNCHANGED <<open, visit, building, infoName, info>>
    BY <1>4 DEF Browse!handleSearch, Browse!handleLoadMore, Browse!doSearch, BrowseOnce
  <2>a. PICK r : jobs' = jobs \cup {r} /\ r.op = "search" /\ r.name = None /\ r.id = issued'
    BY <2>1, BrowseAsks
  <2>2. jobs' = jobs \cup {r} /\ BrowseCalls'
    BY <2>1, <2>a, BrowseAsks
  <2>3. r.op = "search" /\ r.id = issued'
    BY <2>a
  <2>4. \A j \in jobs : j.op # "search"
    BY <2>1 DEF BrowseInv, BrowseCore, OneSearch
  <2>5. OneSearch'
    BY <2>1, <2>2, <2>3, <2>4 DEF OneSearch
  <2>6. Browse!OneBuild'
    BY <2>1, <2>2, <2>3 DEF BrowseInv, BrowseCore, Browse!OneBuild
  <2>7. LastInfo'
    BY <2>1, <2>2, <2>3 DEF BrowseInv, BrowseCore, LastInfo
  <2> QED BY <2>2, <2>5, <2>6, <2>7 DEF BrowseInv, BrowseCore
<1>5. ASSUME NEW n \in Found, Browse!handleInfo(n) PROVE BrowseCore'
  <2>1. /\ open /\ Browse!Called("info", n) /\ infoName' = n
        /\ UNCHANGED <<open, visit, searching, results, asked, building>>
    BY <1>5 DEF Browse!handleInfo, Browse!Listed
  <2>a. PICK r : jobs' = jobs \cup {r} /\ r.op = "info" /\ r.name = n /\ r.id = issued'
    BY <2>1, BrowseAsks
  <2>2. jobs' = jobs \cup {r} /\ BrowseCalls' /\ issued' = issued + 1 /\ issued \in Nat
    BY <2>1, <2>a, BrowseAsks
  <2>3. \A k \in jobs : k.id \in Nat /\ k.id <= issued
    BY <2>1, BrowseAsks
  <2>4. r.op = "info" /\ r.id = issued' /\ r.name = n
    BY <2>a
  <2>5. OneSearch' /\ Browse!OneBuild'
    BY <2>1, <2>2, <2>4 DEF BrowseInv, BrowseCore, OneSearch, Browse!OneBuild
  <2>6. LastInfo'
    BY <2>1, <2>2, <2>3, <2>4 DEF LastInfo
  <2> QED BY <2>2, <2>5, <2>6 DEF BrowseInv, BrowseCore
<1>6. ASSUME NEW n \in Found, Browse!handleBuild(n) PROVE BrowseCore'
  <2>1. /\ open /\ building = None /\ Browse!Called("build", n) /\ building' = n /\ n # None
        /\ UNCHANGED <<open, visit, searching, results, asked, infoName, info>>
    BY <1>6 DEF Browse!handleBuild, Browse!Listed, BrowseOnce, Browse!BrowseAssumption
  <2>a. PICK r : jobs' = jobs \cup {r} /\ r.op = "build" /\ r.name = n /\ r.id = issued'
    BY <2>1, BrowseAsks
  <2>2. jobs' = jobs \cup {r} /\ BrowseCalls'
    BY <2>1, <2>a, BrowseAsks
  <2>3. r.op = "build" /\ r.name = n
    BY <2>a
  <2>4. \A j \in jobs : j.op # "build"
    BY <2>1 DEF BrowseInv, BrowseCore, Browse!OneBuild, BrowseCalls, BrowseCall
  <2>5. OneSearch' /\ Browse!OneBuild'
    BY <2>1, <2>2, <2>3, <2>4 DEF BrowseInv, BrowseCore, OneSearch, Browse!OneBuild
  <2>6. LastInfo'
    BY <2>1, <2>2, <2>3 DEF BrowseInv, BrowseCore, LastInfo
  <2> QED BY <2>2, <2>5, <2>6 DEF BrowseInv, BrowseCore
<1>7. ASSUME NEW j \in jobs, Browse!Progress(j) PROVE BrowseCore'
  <2>1. PICK s : jobs' = (jobs \ {j}) \cup {[j EXCEPT !.step = s]}
    BY <1>7 DEF Browse!Progress
  <2> DEFINE k == [j EXCEPT !.step = s]
  <2>2. /\ j.op = "build"
        /\ UNCHANGED <<open, visit, searching, results, building, infoName, info, asked, issued>>
    BY <1>7 DEF Browse!Progress
  <2>3. BrowseCall(k) /\ k.id = j.id /\ k.op = j.op /\ k.name = j.name
    BY DEF BrowseInv, BrowseCore, BrowseCalls, BrowseCall
  <2>4. jobs' = (jobs \ {j}) \cup {k}
    BY <2>1
  <2> HIDE DEF k
  <2>5. BrowseCalls'
    BY <2>2, <2>3, <2>4 DEF BrowseInv, BrowseCore, BrowseCalls, BrowseCall
  <2>6. OneSearch'
    BY <2>2, <2>3, <2>4 DEF BrowseInv, BrowseCore, OneSearch
  <2>7. Browse!OneBuild'
    BY <2>2, <2>3, <2>4 DEF BrowseInv, BrowseCore, Browse!OneBuild
  <2>8. LastInfo'
    BY <2>2, <2>3, <2>4 DEF BrowseInv, BrowseCore, LastInfo
  <2> QED BY <2>5, <2>6, <2>7, <2>8 DEF BrowseInv, BrowseCore
<1>8. ASSUME NEW j \in jobs, jobs' = jobs \ {j}, UNCHANGED <<open, visit, issued>>,
             \/ ~open
             \/ OneSearch' /\ Browse!OneBuild' /\ LastInfo'
      PROVE  BrowseCore'
  <2>1. BrowseCalls'
    BY <1>8 DEF BrowseInv, BrowseCore, BrowseCalls, BrowseCall
  <2>2. OneSearch' /\ Browse!OneBuild' /\ LastInfo'
    BY <1>8 DEF OneSearch, Browse!OneBuild, LastInfo
  <2> QED BY <2>1, <2>2 DEF BrowseInv, BrowseCore
<1>9. ASSUME NEW j \in jobs, NEW ok \in BOOLEAN, Browse!SearchDone(j, ok) PROVE BrowseCore'
  <2>1. /\ j.op = "search" /\ jobs' = jobs \ {j}
        /\ UNCHANGED <<open, visit, building, infoName, info, asked, issued>>
    BY <1>a, <1>b, <1>9 DEF Browse!SearchDone
  <2>2. CASE open
    <3>1. /\ \A k \in jobs : k.op = "search" => k = j
          /\ j.id = asked /\ results \in {0, asked}
      BY <2>1, <2>2 DEF BrowseInv, BrowseCore, OneSearch
    <3>2. results' \in {0, asked}
      BY <1>9, <3>1 DEF Browse!SearchDone
    <3>3. OneSearch'
      BY <2>1, <3>1, <3>2 DEF OneSearch
    <3>4. Browse!OneBuild'
      BY <2>1 DEF BrowseInv, BrowseCore, Browse!OneBuild
    <3>5. LastInfo'
      BY <2>1 DEF BrowseInv, BrowseCore, LastInfo
    <3> QED BY <1>8, <2>1, <3>3, <3>4, <3>5
  <2> QED BY <1>8, <2>1, <2>2
<1>10. ASSUME NEW j \in jobs, NEW ok \in BOOLEAN, Browse!InfoDone(j, ok) PROVE BrowseCore'
  <2>1. /\ j.op = "info" /\ jobs' = jobs \ {j} /\ ok
        /\ \A k \in jobs : k.op = "info" => j.id <= k.id
        /\ UNCHANGED <<open, visit, searching, results, building, infoName, asked, issued>>
        /\ open => info' = j.name
    BY <1>a, <1>b, <1>10 DEF Browse!InfoDone, BrowseOnce
  <2>2. CASE open
    <3>1. \A k \in jobs : k.id \in Nat
      BY DEF BrowseInv, BrowseCore, BrowseCalls, BrowseCall
    <3>2. OneSearch'
      BY <2>1 DEF BrowseInv, BrowseCore, OneSearch
    <3>3. Browse!OneBuild'
      BY <2>1 DEF BrowseInv, BrowseCore, Browse!OneBuild
    <3>4. ASSUME NEW k \in jobs', k.op = "info", \A l \in jobs' : l.op = "info" => l.id <= k.id
          PROVE  k.name = infoName'
      BY <2>1, <2>2, <3>1, <3>4 DEF BrowseInv, BrowseCore, LastInfo
    <3>5. ASSUME \A k \in jobs' : k.op # "info" PROVE info' = infoName'
      <4>1. \A k \in jobs : k.op = "info" => k = j
        BY <2>1, <3>5
      <4>2. \A k \in jobs : k.op = "info" => k.id <= j.id
        BY <3>1, <4>1
      <4> QED BY <2>1, <2>2, <4>2 DEF BrowseInv, BrowseCore, LastInfo
    <3>6. LastInfo'
      BY <3>4, <3>5 DEF LastInfo
    <3> QED BY <1>8, <2>1, <3>2, <3>3, <3>6
  <2> QED BY <1>8, <2>1, <2>2
<1>11. ASSUME NEW j \in jobs, Browse!BuildDone(j) PROVE BrowseCore'
  <2>1. /\ j.op = "build" /\ jobs' = jobs \ {j}
        /\ UNCHANGED <<open, visit, searching, results, infoName, info, asked, issued>>
    BY <1>a, <1>b, <1>11 DEF Browse!BuildDone
  <2>2. CASE open
    <3>1. OneSearch'
      BY <2>1 DEF BrowseInv, BrowseCore, OneSearch
    <3>2. \A k \in jobs' : k.op # "build"
      BY <2>1, <2>2 DEF BrowseInv, BrowseCore, Browse!OneBuild
    <3>3. Browse!OneBuild'
      BY <3>2 DEF Browse!OneBuild
    <3>4. LastInfo'
      BY <2>1 DEF BrowseInv, BrowseCore, LastInfo
    <3> QED BY <1>8, <2>1, <3>1, <3>3, <3>4
  <2> QED BY <1>8, <2>1, <2>2
<1>12. \A j \in jobs : ~Browse!Refused(j) /\ ~Browse!TimesOut(j)
  BY DEF Browse!Refused, Browse!TimesOut, BrowseOnce
<1> QED
  BY <1>1, <1>2, <1>3, <1>4, <1>5, <1>6, <1>7, <1>9, <1>10, <1>11, <1>12 DEF Browse!Next

\* No two builds of the page of the AUR overlap, and its list answers the last
\* search: on the first visit, without the enter key during a search, and with
\* calls that are not refused, do not time out, and are answered in order.
THEOREM BrowseKeeps == BrowseOnce => (Browse!Spec => [](Browse!OneBuild /\ Browse!OwnResults))
<1> SUFFICES ASSUME BrowseOnce PROVE Browse!Spec => [](Browse!OneBuild /\ Browse!OwnResults)
  OBVIOUS
<1>1. Browse!Init => BrowseInv
  <2> SUFFICES ASSUME Browse!Init PROVE BrowseInv
    OBVIOUS
  <2>1. jobs = {} /\ open = FALSE /\ visit = 0 /\ searching = FALSE /\ issued = 0
    BY DEF Browse!Init
  <2>2. BrowseCalls
    BY <2>1 DEF BrowseCalls, BrowseCall
  <2>3. OneSearch /\ Browse!OneBuild /\ LastInfo
    BY <2>1 DEF OneSearch, Browse!OneBuild, LastInfo
  <2>4. BrowseFlags /\ BrowseVisited
    BY <2>1 DEF BrowseFlags, BrowseVisited
  <2> QED BY <2>2, <2>3, <2>4 DEF BrowseInv, BrowseCore
<1>2. BrowseInv /\ [Browse!Next]_Browse!vars => BrowseInv'
  BY BrowseFrame, BrowseNext DEF BrowseInv
<1>3. BrowseInv => Browse!OneBuild /\ Browse!OwnResults
  BY DEF BrowseInv, BrowseCore, OneSearch, LastInfo, Browse!OwnResults
<1> QED BY <1>1, <1>2, <1>3, PTL DEF Browse!Spec

\* What the page waits for is a call of this visit.
BrowseWait ==
    /\ \A j \in jobs : BrowseCall(j)
    /\ open /\ searching => \E j \in jobs : j.op = "search" /\ j.id = asked /\ j.visit = visit
    /\ open /\ building # None =>
         \E j \in jobs : j.op = "build" /\ j.name = building /\ j.visit = visit

LEMMA BrowseAdds ==
    ASSUME BrowseWait, NEW op, NEW n, Browse!Called(op, n)
    PROVE  \E r : /\ jobs' = jobs \cup {r} /\ BrowseCall(r)
                  /\ r.op = op /\ r.name = n /\ r.id = issued' /\ r.visit = visit
<1> DEFINE r == [id |-> issued', op |-> op, name |-> n, visit |-> visit, step |-> ""]
<1>1. jobs' = jobs \cup {r}
  BY DEF Browse!Called
<1>2. BrowseCall(r) /\ r.op = op /\ r.name = n /\ r.id = issued' /\ r.visit = visit
  BY DEF BrowseCall
<1> HIDE DEF r
<1> QED BY <1>1, <1>2

\* The page of the AUR waits for its last search and its build only while they
\* are under way, whatever is refused or was left behind.
THEOREM BrowseRests == Browse!Spec => []Browse!WaitsEnd
<1>1. Browse!Init => BrowseWait
  BY DEF Browse!Init, BrowseWait
<1>2. BrowseWait /\ [Browse!Next]_Browse!vars => BrowseWait'
  <2> SUFFICES ASSUME BrowseWait, [Browse!Next]_Browse!vars PROVE BrowseWait'
    OBVIOUS
  <2>1. CASE UNCHANGED Browse!vars \/ Browse!Leave
    BY <2>1 DEF Browse!vars, Browse!Leave, BrowseWait, BrowseCall
  <2>2. CASE Browse!Open
    BY <2>2 DEF Browse!Open, BrowseWait, BrowseCall
  <2>3. ASSUME Browse!doSearch PROVE BrowseWait'
    <3>1. /\ Browse!Called("search", None) /\ asked' = issued'
          /\ UNCHANGED <<open, visit, building>>
      BY <2>3 DEF Browse!doSearch
    <3>2. PICK r : /\ jobs' = jobs \cup {r} /\ BrowseCall(r)
                   /\ r.op = "search" /\ r.id = asked' /\ r.visit = visit
      BY <3>1, BrowseAdds
    <3> QED BY <3>1, <3>2 DEF BrowseWait, BrowseCall
  <2>4. ASSUME NEW n, Browse!handleInfo(n) PROVE BrowseWait'
    <3>1. /\ Browse!Called("info", n)
          /\ UNCHANGED <<open, visit, searching, asked, building>>
      BY <2>4 DEF Browse!handleInfo
    <3>2. PICK r : jobs' = jobs \cup {r} /\ BrowseCall(r)
      BY <3>1, BrowseAdds
    <3> QED BY <3>1, <3>2 DEF BrowseWait, BrowseCall
  <2>5. ASSUME NEW n, Browse!handleBuild(n) PROVE BrowseWait'
    <3>1. /\ Browse!Called("build", n) /\ building' = n
          /\ UNCHANGED <<open, visit, searching, asked>>
      BY <2>5 DEF Browse!handleBuild
    <3>2. PICK r : /\ jobs' = jobs \cup {r} /\ BrowseCall(r)
                   /\ r.op = "build" /\ r.name = n /\ r.visit = visit
      BY <3>1, BrowseAdds
    <3> QED BY <3>1, <3>2 DEF BrowseWait, BrowseCall
  <2>6. ASSUME NEW j \in jobs, Browse!Progress(j) PROVE BrowseWait'
    <3>1. PICK s : /\ jobs' = (jobs \ {j}) \cup {[j EXCEPT !.step = s]}
                   /\ UNCHANGED <<open, visit, searching, asked, building>>
      BY <2>6 DEF Browse!Progress
    <3> DEFINE k == [j EXCEPT !.step = s]
    <3>2. BrowseCall(k) /\ k.op = j.op /\ k.name = j.name /\ k.id = j.id /\ k.visit = j.visit
      BY DEF BrowseWait, BrowseCall
    <3> HIDE DEF k
    <3>3. jobs' = (jobs \ {j}) \cup {k}
      BY <3>1 DEF k
    <3> QED BY <3>1, <3>2, <3>3 DEF BrowseWait, BrowseCall
  <2>7. ASSUME NEW j \in jobs, Browse!BuildDone(j) \/ Browse!Refused(j)
               \/ \E ok \in BOOLEAN : Browse!SearchDone(j, ok) \/ Browse!InfoDone(j, ok)
        PROVE  BrowseWait'
    <3>1. jobs' = jobs \ {j} /\ UNCHANGED <<open, visit, asked>>
      BY <2>7
         DEF Browse!BuildDone, Browse!Refused, Browse!GiveUp, Browse!SearchDone, Browse!InfoDone
    <3>2. open' = open
      BY <2>7
         DEF Browse!BuildDone, Browse!Refused, Browse!GiveUp, Browse!SearchDone, Browse!InfoDone
    <3>3. ASSUME open, searching' PROVE searching /\ ~(j.op = "search" /\ j.visit = visit)
      BY <2>7, <3>3
         DEF Browse!BuildDone, Browse!Refused, Browse!GiveUp, Browse!SearchDone, Browse!InfoDone
    <3>4. ASSUME open, building' # None
          PROVE  building' = building /\ ~(j.op = "build" /\ j.visit = visit)
      BY <2>7, <3>4
         DEF Browse!BuildDone, Browse!Refused, Browse!GiveUp, Browse!SearchDone, Browse!InfoDone
    <3> QED BY <3>1, <3>2, <3>3, <3>4 DEF BrowseWait, BrowseCall
  <2>8. ASSUME NEW j \in jobs, Browse!TimesOut(j) PROVE BrowseWait'
    <3> DEFINE k == [j EXCEPT !.visit = 0]
    <3>1. /\ jobs' = (jobs \ {j}) \cup {k} /\ UNCHANGED <<open, visit, asked>>
          /\ (open /\ searching' => searching /\ ~(j.op = "search" /\ j.visit = visit))
          /\ (open /\ building' # None
                => building' = building /\ ~(j.op = "build" /\ j.visit = visit))
      BY <2>8 DEF Browse!TimesOut, Browse!GiveUp
    <3>2. BrowseCall(k)
      BY DEF BrowseWait, BrowseCall
    <3> HIDE DEF k
    <3> QED BY <3>1, <3>2 DEF BrowseWait, BrowseCall
  <2> QED
    BY <2>1, <2>2, <2>3, <2>4, <2>5, <2>6, <2>7, <2>8
       DEF Browse!Next, Browse!handleSearch, Browse!handleLoadMore
<1>3. BrowseWait => Browse!WaitsEnd
  BY DEF BrowseWait, Browse!WaitsEnd
<1> QED BY <1>1, <1>2, <1>3, PTL DEF Browse!Spec

-----------------------------------------------------------------------------
(* The reports page *)

\* The calls are known apart, and the one that the dialog of the summary waits
\* for is its own, of this visit.
ReportCalls ==
    /\ issued \in Nat
    /\ \A j \in jobs : /\ j = [id |-> j.id, kind |-> j.kind, visit |-> j.visit]
                       /\ j.id \in Nat /\ j.id # 0 /\ j.id <= issued
    /\ \A j, k \in jobs : j.id = k.id => j = k
ReportTyped ==
    /\ shown = [k \in Reports!Kinds |-> shown[k]]
    /\ wrapped = [open |-> wrapped.open, loading |-> wrapped.loading, live |-> wrapped.live]
SummaryCalls ==
    (open /\ wrapped.open) =>
        /\ wrapped.live \in Nat /\ wrapped.live <= issued
        /\ wrapped.loading <=> \E j \in jobs : j.id = wrapped.live
        /\ \A j \in jobs : j.id = wrapped.live => j.kind = "wrapped" /\ j.visit = visit
        /\ shown["wrapped"] \in {0, wrapped.live}
ReportInv == ReportCalls /\ ReportTyped /\ SummaryCalls

\* A call with a number of its own
LEMMA ReportAsks ==
    ASSUME ReportInv, NEW k, NEW v, Reports!Call(k, v)
    PROVE  /\ issued' = issued + 1 /\ issued \in Nat /\ ReportCalls'
           /\ \E r : jobs' = jobs \cup {r} /\ r.id = issued' /\ r.kind = k /\ r.visit = v
           /\ \A j \in jobs : j.id \in Nat /\ j.id <= issued
<1> DEFINE r == [id |-> issued', kind |-> k, visit |-> v]
<1>1. issued \in Nat /\ \A j \in jobs : j.id \in Nat /\ j.id <= issued
  BY DEF ReportInv, ReportCalls
<1>2. issued' = issued + 1
  BY DEF Reports!Call
<1>3. jobs' = jobs \cup {r}
  BY DEF Reports!Call
<1>4. r = [id |-> r.id, kind |-> r.kind, visit |-> r.visit] /\ r.id = issued' /\ r.kind = k
        /\ r.visit = v
  OBVIOUS
<1> HIDE DEF r
<1>5. issued' \in Nat /\ issued' # 0
  BY <1>1, <1>2
<1>6. \A j \in jobs : j.id # r.id
  BY <1>1, <1>2, <1>4
<1>7. ReportCalls'
  BY <1>1, <1>2, <1>3, <1>4, <1>5, <1>6 DEF ReportInv, ReportCalls
<1> QED BY <1>1, <1>2, <1>3, <1>4, <1>7

\* A call beside the dialog
LEMMA ReportBeside ==
    ASSUME ReportInv, NEW k, NEW v, Reports!Call(k, v), open' = open, visit' = visit,
           wrapped' = wrapped,
           NEW c, c # "wrapped", NEW n, shown' = [shown EXCEPT ![c] = n]
    PROVE  ReportInv'
<1>1. /\ issued' = issued + 1 /\ issued \in Nat /\ ReportCalls'
      /\ \A j \in jobs : j.id \in Nat /\ j.id <= issued
  BY ReportAsks
<1>2. PICK r : jobs' = jobs \cup {r} /\ r.id = issued'
  BY ReportAsks
<1>3. ReportTyped'
  BY DEF ReportInv, ReportTyped
<1>4. shown'["wrapped"] = shown["wrapped"]
  BY DEF ReportInv, ReportTyped, Reports!Kinds
<1>5. SummaryCalls'
  BY <1>1, <1>2, <1>4 DEF ReportInv, SummaryCalls
<1> QED BY <1>1, <1>3, <1>5 DEF ReportInv

\* A call ends that the dialog does not wait for.
LEMMA ReportEnds ==
    ASSUME ReportInv, NEW j \in jobs, jobs' = jobs \ {j}, open' = open, visit' = visit,
           wrapped' = wrapped,
           issued' = issued, (open /\ wrapped.open) => j.id # wrapped.live,
           NEW c, c # "wrapped", NEW n, shown' = [shown EXCEPT ![c] = n] \/ shown' = shown
    PROVE  ReportInv'
<1>1. ReportCalls'
  BY DEF ReportInv, ReportCalls
<1>2. ReportTyped'
  BY DEF ReportInv, ReportTyped
<1>3. shown'["wrapped"] = shown["wrapped"]
  BY DEF ReportInv, ReportTyped, Reports!Kinds
<1>4. SummaryCalls'
  BY <1>3 DEF ReportInv, SummaryCalls
<1> QED BY <1>1, <1>2, <1>4 DEF ReportInv

LEMMA ReportNext == ReportInv /\ [Reports!Next]_Reports!vars => ReportInv'
<1> SUFFICES ASSUME ReportInv, [Reports!Next]_Reports!vars PROVE ReportInv'
  OBVIOUS
<1>a. ReportTyped
  BY DEF ReportInv
<1>1. CASE UNCHANGED Reports!vars \/ Reports!Expire
  <2>1. UNCHANGED <<open, visit, shown, wrapped, issued, jobs>>
    BY <1>1 DEF Reports!vars, Reports!Expire
  <2> QED BY <2>1 DEF ReportInv, ReportCalls, ReportTyped, SummaryCalls
<1>2. CASE Reports!Leave
  <2>1. open' = FALSE /\ UNCHANGED <<visit, shown, wrapped, issued, jobs>>
    BY <1>2 DEF Reports!Leave
  <2> QED BY <2>1 DEF ReportInv, ReportCalls, ReportTyped, SummaryCalls
<1>3. CASE Reports!Open
  <2>1. wrapped' = Reports!Closed
          /\ shown' = [Reports!Nothing EXCEPT !["health"] = Reports!cacheGet]
    BY <1>3 DEF Reports!Open
  <2>2. ReportTyped' /\ SummaryCalls'
    BY <2>1 DEF ReportTyped, SummaryCalls, Reports!Closed, Reports!Nothing
  <2>3. CASE UNCHANGED <<issued, jobs>>
    BY <2>2, <2>3 DEF ReportInv, ReportCalls
  <2>4. CASE Reports!Call("health", visit')
    BY <2>2, <2>4, ReportAsks DEF ReportInv
  <2> QED BY <1>3, <2>3, <2>4 DEF Reports!Open
<1>4. CASE Reports!Refresh
  <2>1. /\ Reports!Call("health", visit) /\ open' = open /\ visit' = visit /\ wrapped' = wrapped
        /\ "health" # "wrapped" /\ shown' = [shown EXCEPT !["health"] = shown["health"]]
    BY <1>4, <1>a DEF Reports!Refresh, ReportTyped
  <2> QED BY <2>1, ReportBeside
<1>5. ASSUME NEW k \in {"benchmark", "verify_rollback"}, Reports!Submit(k) PROVE ReportInv'
  <2>1. /\ Reports!Call(k, visit) /\ open' = open /\ visit' = visit /\ wrapped' = wrapped
        /\ k # "wrapped" /\ shown' = [shown EXCEPT ![k] = 0]
    BY <1>5 DEF Reports!Submit
  <2> QED BY <2>1, ReportBeside
<1>6. CASE Reports!runDoctor
  <2>1. /\ Reports!Call("doctor", visit) /\ open' = open /\ visit' = visit /\ wrapped' = wrapped
        /\ "doctor" # "wrapped" /\ shown' = [shown EXCEPT !["doctor"] = shown["doctor"]]
    BY <1>6, <1>a DEF Reports!runDoctor, ReportTyped
  <2> QED BY <2>1, ReportBeside
<1>7. CASE Reports!OpenWrapped
  <2>1. /\ Reports!Call("wrapped", visit) /\ visit' = visit
        /\ shown' = [shown EXCEPT !["wrapped"] = 0]
        /\ wrapped' = [open |-> TRUE, loading |-> TRUE, live |-> issued']
    BY <1>7 DEF Reports!OpenWrapped
  <2>2. /\ issued' = issued + 1 /\ issued \in Nat /\ ReportCalls'
        /\ \A j \in jobs : j.id \in Nat /\ j.id <= issued
    BY <2>1, ReportAsks
  <2>3. PICK r : jobs' = jobs \cup {r} /\ r.id = issued' /\ r.kind = "wrapped" /\ r.visit = visit
    BY <2>1, ReportAsks
  <2>4. wrapped'.live = issued' /\ wrapped'.loading
    BY <2>1
  <2>5. ReportTyped' /\ shown'["wrapped"] = 0
    BY <2>1, <1>a DEF ReportTyped, Reports!Kinds
  <2>6. /\ wrapped'.live \in Nat /\ wrapped'.live <= issued'
        /\ \A j \in jobs' : j.id = wrapped'.live => j.kind = "wrapped" /\ j.visit = visit'
    BY <2>1, <2>2, <2>3, <2>4
  <2>7. \E j \in jobs' : j.id = wrapped'.live
    BY <2>3, <2>4
  <2>8. SummaryCalls'
    BY <2>4, <2>5, <2>6, <2>7 DEF SummaryCalls
  <2> QED BY <2>2, <2>5, <2>8 DEF ReportInv
<1>8. CASE Reports!CloseWrapped
  <2>1. /\ wrapped' = [wrapped EXCEPT !.open = FALSE, !.live = 0]
        /\ shown' = shown /\ issued' = issued /\ jobs' = jobs
    BY <1>8 DEF Reports!CloseWrapped
  <2>2. ReportTyped' /\ ~wrapped'.open
    BY <2>1, <1>a DEF ReportTyped
  <2> QED BY <2>1, <2>2 DEF ReportInv, ReportCalls, SummaryCalls
<1>9. ASSUME NEW j \in jobs, NEW ok \in BOOLEAN,
             Reports!HealthAnswer(j, ok) \/ Reports!ThreadDone(j, ok) \/ Reports!DoctorAnswer(j, ok)
               \/ Reports!Refused(j)
      PROVE  ReportInv'
  <2>1. /\ jobs' = jobs \ {j} /\ j.kind # "wrapped" /\ issued' = issued
        /\ open' = open /\ visit' = visit /\ wrapped' = wrapped
        /\ shown' = shown \/ shown' = [shown EXCEPT ![j.kind] = j.id]
    BY <1>9
       DEF Reports!HealthAnswer, Reports!ThreadDone, Reports!DoctorAnswer, Reports!Refused,
           Reports!Threaded
  <2>2. (open /\ wrapped.open) => j.id # wrapped.live
    BY <2>1 DEF ReportInv, SummaryCalls
  <2> QED BY <2>1, <2>2, ReportEnds
<1>10. ASSUME NEW j \in jobs, NEW ok \in BOOLEAN, Reports!WrappedAnswer(j, ok) PROVE ReportInv'
  <2>1. /\ j.kind = "wrapped" /\ jobs' = jobs \ {j} /\ issued' = issued
        /\ open' = open /\ visit' = visit
    BY <1>10 DEF Reports!WrappedAnswer
  <2>2. CASE Reports!Here(j) /\ wrapped.live = j.id
    <3>1. /\ wrapped' = [wrapped EXCEPT !.loading = FALSE]
          /\ shown' = [shown EXCEPT !["wrapped"] = IF ok THEN j.id ELSE 0]
      BY <1>10, <2>2 DEF Reports!WrappedAnswer
    <3>2. /\ ReportTyped' /\ shown'["wrapped"] \in {0, j.id}
          /\ wrapped'.live = j.id /\ ~wrapped'.loading /\ wrapped'.open = wrapped.open
      BY <1>a, <2>2, <3>1 DEF ReportTyped, Reports!Kinds
    <3>3. ReportCalls' /\ j.id \in Nat /\ j.id <= issued /\ \A k \in jobs' : k.id # j.id
      BY <2>1 DEF ReportInv, ReportCalls
    <3>4. SummaryCalls'
      BY <2>1, <3>2, <3>3 DEF SummaryCalls
    <3> QED BY <3>2, <3>3, <3>4 DEF ReportInv
  <2>3. CASE ~(Reports!Here(j) /\ wrapped.live = j.id)
    <3>1. wrapped' = wrapped /\ shown' = shown
      BY <1>10, <2>3 DEF Reports!WrappedAnswer
    <3>2. (open /\ wrapped.open) => j.id # wrapped.live
      BY <2>3 DEF ReportInv, SummaryCalls, Reports!Here
    <3>3. "health" # "wrapped" /\ (shown' = [shown EXCEPT !["health"] = 0] \/ shown' = shown)
      BY <3>1
    <3> QED BY <2>1, <3>1, <3>2, <3>3, ReportEnds
  <2> QED BY <2>2, <2>3
<1>11. Reports!handleBenchmark \/ Reports!handleVerifyRollback => ReportInv'
  BY <1>5 DEF Reports!handleBenchmark, Reports!handleVerifyRollback
<1> QED
  BY <1>1, <1>2, <1>3, <1>4, <1>6, <1>7, <1>8, <1>9, <1>10, <1>11 DEF Reports!Next

\* The summary of the year shows what it was asked for last, for any bounds.
THEOREM SummaryIsCurrent == Reports!Spec => []Reports!WrappedIsCurrent
<1>1. Reports!Init => ReportInv
  <2> SUFFICES ASSUME Reports!Init PROVE ReportInv
    OBVIOUS
  <2>1. open = FALSE /\ shown = Reports!Nothing /\ wrapped = Reports!Closed /\ issued = 0
          /\ jobs = {}
    BY DEF Reports!Init
  <2> QED BY <2>1
             DEF ReportInv, ReportCalls, ReportTyped, SummaryCalls, Reports!Nothing,
                 Reports!Closed
<1>2. ReportInv => Reports!WrappedIsCurrent
  BY DEF ReportInv, SummaryCalls, Reports!WrappedIsCurrent, Reports!WrappedView
<1> QED BY <1>1, <1>2, ReportNext, PTL DEF Reports!Spec

\* A spinner turns for a call of this visit, and one of a threaded kind hears
\* the end of its call.
ReportSpins(k) ==
    IF k \in Reports!Threaded
    THEN \E l \in listening, j \in jobs :
            l.kind = k /\ l.visit = visit /\ l.job = j.id /\ j.kind = k
    ELSE \E j \in jobs : j.kind = k /\ j.visit = visit
ReportSpin == open => \A k \in Reports!Kinds \ {"wrapped"} : busy[k] => ReportSpins(k)
\* Whoever listens has a call.
ReportEars ==
    \A l \in listening :
        /\ l = [kind |-> l.kind, job |-> l.job, visit |-> l.visit] /\ l.kind \in Reports!Threaded
        /\ \E j \in jobs : j.id = l.job /\ j.kind = l.kind /\ j.visit = l.visit
ReportFields ==
    /\ busy = [k \in Reports!Kinds \ {"wrapped"} |-> busy[k]]
    /\ failed = [k \in {"health", "doctor"} |-> failed[k]]
    /\ shown = [k \in Reports!Kinds |-> shown[k]]
\* The health card is loading, or has something to say.
HealthSays == open => busy["health"] \/ shown["health"] # 0 \/ failed["health"]
ReportWait == ReportInv /\ ReportSpin /\ ReportEars /\ ReportFields /\ HealthSays

\* A call may be made, for which a spinner may turn.
LEMMA ReportSpinStays ==
    ASSUME ReportSpin, ReportFields, open' => open, visit' = visit, jobs \subseteq jobs',
           listening \subseteq listening', NEW c,
           busy' = busy \/ (busy' = [busy EXCEPT ![c] = TRUE] /\ ReportSpins(c)')
    PROVE  ReportSpin'
<1> SUFFICES ASSUME open', NEW k \in Reports!Kinds \ {"wrapped"}, busy'[k] PROVE ReportSpins(k)'
  BY DEF ReportSpin
<1>1. ReportSpins(k) => ReportSpins(k)'
  BY DEF ReportSpins
<1>2. busy[k] \/ k = c
  BY DEF ReportFields
<1>3. CASE busy[k]
  BY <1>1, <1>3 DEF ReportSpin
<1>4. CASE ~busy[k]
  BY <1>2, <1>4
<1> QED BY <1>3, <1>4

\* A call ends, and its spinner with it.
LEMMA ReportSpinEnds ==
    ASSUME ReportSpin, ReportFields, NEW j \in jobs, jobs' = jobs \ {j},
           UNCHANGED <<open, visit>>,
           \A l \in listening : l.kind # j.kind => l \in listening',
           \/ busy' = [busy EXCEPT ![j.kind] = FALSE]
           \/ /\ busy' = busy
              /\ j.kind = "wrapped" \/ (open /\ busy[j.kind] => ReportSpins(j.kind)')
    PROVE  ReportSpin'
<1> SUFFICES ASSUME open', NEW k \in Reports!Kinds \ {"wrapped"}, busy'[k] PROVE ReportSpins(k)'
  BY DEF ReportSpin
<1>1. busy[k]
  BY DEF ReportFields
<1>2. ReportSpins(k)
  BY <1>1 DEF ReportSpin
<1>3. CASE k # j.kind
  BY <1>2, <1>3 DEF ReportSpins
<1>4. CASE k = j.kind
  <2>1. busy' = busy
    BY <1>4 DEF ReportFields
  <2> QED BY <1>1, <1>4, <2>1 DEF ReportFields
<1> QED BY <1>3, <1>4

\* A listener of one kind has no call of another.
LEMMA ReportApart ==
    ASSUME ReportInv, ReportEars, NEW j \in jobs, NEW l \in listening, l.kind # j.kind
    PROVE  l.job # j.id
BY DEF ReportInv, ReportCalls, ReportEars

\* A call ends, and with it its listener.
LEMMA ReportEarsEnd ==
    ASSUME ReportInv, ReportEars, NEW j \in jobs, jobs' = jobs \ {j},
           listening' \subseteq listening, \A l \in listening' : l.job # j.id
    PROVE  ReportEars'
BY DEF ReportEars

LEMMA ReportWaitNext == ReportWait /\ [Reports!Next]_Reports!vars => ReportWait'
<1> SUFFICES ASSUME ReportWait, [Reports!Next]_Reports!vars PROVE ReportWait'
  OBVIOUS
<1>1. ReportInv'
  BY ReportNext DEF ReportWait
<1>2. /\ ReportInv /\ ReportSpin /\ ReportEars /\ ReportFields /\ HealthSays
      /\ \A i, k \in jobs : i.id = k.id => i = k
      /\ \A i \in jobs : i.id # 0
  BY DEF ReportWait, ReportInv, ReportCalls
<1> USE DEF Reports!health
<1>3. CASE UNCHANGED Reports!vars \/ Reports!Leave \/ Reports!Expire \/ Reports!CloseWrapped
  <2>1. /\ UNCHANGED <<jobs, listening, visit, busy, failed, shown>>
        /\ open' => open
    BY <1>3 DEF Reports!vars, Reports!Leave, Reports!Expire, Reports!CloseWrapped
  <2>2. ReportSpin' /\ ReportEars' /\ ReportFields' /\ HealthSays'
    BY <1>2, <2>1, ReportSpinStays DEF ReportEars, ReportFields, HealthSays
  <2> QED BY <1>1, <2>2 DEF ReportWait
<1>4. CASE Reports!Open
  <2>1. CASE Reports!cacheGet # 0
    <3>1. /\ UNCHANGED <<jobs, listening>> /\ failed' = Reports!NoError
          /\ shown' = [Reports!Nothing EXCEPT !["health"] = Reports!cacheGet]
          /\ busy' = [Reports!AtRest EXCEPT !["health"] = FALSE]
      BY <1>4, <2>1 DEF Reports!Open
    <3>2. ReportFields' /\ shown'["health"] # 0 /\ \A k \in Reports!Kinds \ {"wrapped"} : ~busy'[k]
      BY <2>1, <3>1
         DEF ReportFields, Reports!NoError, Reports!Nothing, Reports!AtRest, Reports!Kinds
    <3>3. ReportSpin' /\ ReportEars' /\ HealthSays'
      BY <1>2, <3>1, <3>2 DEF ReportSpin, ReportEars, HealthSays
    <3> QED BY <1>1, <3>2, <3>3 DEF ReportWait
  <2>2. CASE Reports!cacheGet = 0
    <3>1. PICK v : v = visit'
      OBVIOUS
    <3>2. /\ Reports!Call("health", v) /\ listening' = listening /\ failed' = Reports!NoError
          /\ shown' = [Reports!Nothing EXCEPT !["health"] = 0]
          /\ busy' = [Reports!AtRest EXCEPT !["health"] = TRUE]
      BY <1>4, <2>2, <3>1 DEF Reports!Open
    <3>3. PICK r : jobs' = jobs \cup {r} /\ r.id = issued' /\ r.kind = "health" /\ r.visit = v
      BY <1>2, <3>2, ReportAsks
    <3>4. /\ ReportFields' /\ busy'["health"]
          /\ \A k \in Reports!Kinds \ {"wrapped"} : k # "health" => ~busy'[k]
      BY <3>2 DEF ReportFields, Reports!NoError, Reports!Nothing, Reports!AtRest, Reports!Kinds
    <3>5. ReportSpin'
      BY <3>1, <3>3, <3>4 DEF ReportSpin, ReportSpins, Reports!Threaded
    <3>6. ReportEars' /\ HealthSays'
      BY <1>2, <3>2, <3>3, <3>4 DEF ReportEars, HealthSays
    <3> QED BY <1>1, <3>4, <3>5, <3>6 DEF ReportWait
  <2> QED BY <2>1, <2>2
<1>5. ASSUME NEW k \in {"health", "doctor"}, NEW v, v = visit, Reports!Call(k, v), open,
             busy' = [busy EXCEPT ![k] = TRUE], failed' = [failed EXCEPT ![k] = FALSE],
             UNCHANGED <<open, visit, listening, shown>>
      PROVE  ReportWait'
  <2>1. PICK r : jobs' = jobs \cup {r} /\ r.id = issued' /\ r.kind = k /\ r.visit = v
    BY <1>2, <1>5, ReportAsks
  <2>2. ReportSpins(k)'
    BY <1>5, <2>1 DEF ReportSpins, Reports!Threaded
  <2>3. ReportSpin'
    BY <1>2, <1>5, <2>1, <2>2, ReportSpinStays
  <2>4. ReportEars'
    BY <1>2, <1>5, <2>1 DEF ReportEars
  <2>5. /\ busy' = [x \in Reports!Kinds \ {"wrapped"} |-> busy'[x]]
        /\ failed' = [x \in {"health", "doctor"} |-> failed'[x]]
        /\ k = "health" => busy'["health"]
        /\ k # "health" => busy'["health"] = busy["health"] /\ failed'["health"] = failed["health"]
    BY <1>2, <1>5 DEF ReportFields, Reports!Kinds
  <2>6. ReportFields'
    BY <1>2, <1>5, <2>5 DEF ReportFields
  <2>7. HealthSays'
    BY <1>2, <1>5, <2>5 DEF HealthSays
  <2> QED BY <1>1, <2>3, <2>4, <2>6, <2>7 DEF ReportWait
<1>6. CASE Reports!Refresh \/ Reports!runDoctor
  <2>1. PICK v : v = visit
    OBVIOUS
  <2> QED BY <1>5, <1>6, <2>1 DEF Reports!Refresh, Reports!runDoctor
<1>7. ASSUME NEW k \in Reports!Threaded, Reports!Submit(k) PROVE ReportWait'
  <2>0. PICK v : v = visit
    OBVIOUS
  <2> DEFINE l == [kind |-> k, job |-> issued', visit |-> visit]
  <2>1. /\ open /\ UNCHANGED <<open, visit, failed>> /\ Reports!Call(k, v)
        /\ busy' = [busy EXCEPT ![k] = TRUE] /\ shown' = [shown EXCEPT ![k] = 0]
        /\ listening' = listening \cup {l}
    BY <1>7, <2>0 DEF Reports!Submit
  <2>2. PICK r : jobs' = jobs \cup {r} /\ r.id = issued' /\ r.kind = k /\ r.visit = v
    BY <1>2, <2>1, ReportAsks
  <2>3. /\ l.kind = k /\ l.job = r.id /\ l.visit = r.visit /\ l.visit = visit
        /\ l = [kind |-> l.kind, job |-> l.job, visit |-> l.visit]
    BY <2>0, <2>2
  <2> HIDE DEF l
  <2>4. ReportSpins(k)'
    BY <1>7, <2>1, <2>2, <2>3 DEF ReportSpins
  <2>5. ReportSpin'
    BY <1>2, <2>1, <2>2, <2>4, ReportSpinStays
  <2>6. ReportEars'
    BY <1>2, <2>1, <2>2, <2>3 DEF ReportEars
  <2>7. ReportFields' /\ busy'["health"] = busy["health"] /\ shown'["health"] = shown["health"]
    BY <1>2, <1>7, <2>1 DEF ReportFields, Reports!Threaded, Reports!Kinds
  <2>8. HealthSays'
    BY <1>2, <2>1, <2>7 DEF HealthSays
  <2> QED BY <1>1, <2>5, <2>6, <2>7, <2>8 DEF ReportWait
<1>8. CASE Reports!OpenWrapped
  <2>0. PICK v : v = visit
    OBVIOUS
  <2>1. /\ Reports!Call("wrapped", v) /\ UNCHANGED <<open, visit, busy, failed, listening>>
        /\ shown' = [shown EXCEPT !["wrapped"] = 0]
    BY <1>8, <2>0 DEF Reports!OpenWrapped
  <2>2. PICK r : jobs' = jobs \cup {r} /\ r.id = issued' /\ r.kind = "wrapped" /\ r.visit = v
    BY <1>2, <2>1, ReportAsks
  <2>3. ReportSpin' /\ ReportEars'
    BY <1>2, <2>1, <2>2, ReportSpinStays DEF ReportEars
  <2>4. ReportFields' /\ HealthSays'
    BY <1>2, <2>1 DEF ReportFields, HealthSays, Reports!Kinds
  <2> QED BY <1>1, <2>3, <2>4 DEF ReportWait
<1>9. ASSUME NEW j \in jobs, NEW ok \in BOOLEAN,
             Reports!HealthAnswer(j, ok) \/ Reports!DoctorAnswer(j, ok)
      PROVE  ReportWait'
  <2>1. /\ j.kind \in {"health", "doctor"} /\ jobs' = jobs \ {j}
        /\ UNCHANGED <<open, visit, listening>>
    BY <1>9 DEF Reports!HealthAnswer, Reports!DoctorAnswer
  <2>2. \A l \in listening : l.job # j.id
    BY <1>2, <2>1, ReportApart DEF ReportEars, Reports!Threaded
  <2>3. \/ /\ ~Reports!Here(j) /\ UNCHANGED <<busy, shown, failed>>
        \/ /\ Reports!Here(j) /\ busy' = [busy EXCEPT ![j.kind] = FALSE]
           /\ \/ shown' = [shown EXCEPT ![j.kind] = j.id] /\ failed' = failed
              \/ shown' = shown /\ failed' = [failed EXCEPT ![j.kind] = TRUE]
    BY <1>9 DEF Reports!HealthAnswer, Reports!DoctorAnswer
  <2>4. ReportSpin'
    <3>1. CASE Reports!Here(j)
      BY <1>2, <2>1, <2>3, <3>1, ReportSpinEnds
    <3>2. CASE ~Reports!Here(j)
      <4>1. open /\ busy[j.kind] => ReportSpins(j.kind)
        BY <1>2, <2>1 DEF ReportSpin, Reports!Kinds
      <4>2. open /\ ReportSpins(j.kind) => ReportSpins(j.kind)'
        BY <2>1, <3>2 DEF ReportSpins, Reports!Here, Reports!Threaded
      <4> QED BY <1>2, <2>1, <2>3, <3>2, <4>1, <4>2, ReportSpinEnds
    <3> QED BY <3>1, <3>2
  <2>5. ReportEars'
    BY <1>2, <2>1, <2>2, ReportEarsEnd
  <2>6. ReportFields'
    BY <1>2, <2>1, <2>3 DEF ReportFields, Reports!Kinds
  <2>7. HealthSays'
    BY <1>2, <2>1, <2>3 DEF HealthSays, ReportFields, Reports!Kinds
  <2> QED BY <1>1, <2>4, <2>5, <2>6, <2>7 DEF ReportWait
<1>10. ASSUME NEW j \in jobs, NEW ok \in BOOLEAN, Reports!WrappedAnswer(j, ok) PROVE ReportWait'
  <2>1. /\ j.kind = "wrapped" /\ jobs' = jobs \ {j}
        /\ UNCHANGED <<open, visit, busy, failed, listening>>
        /\ shown' = shown \/ \E n : shown' = [shown EXCEPT !["wrapped"] = n]
    BY <1>10 DEF Reports!WrappedAnswer
  <2>2. ReportSpin'
    BY <1>2, <2>1, ReportSpinEnds
  <2>3. \A l \in listening : l.job # j.id
    BY <1>2, <2>1, ReportApart DEF ReportEars, Reports!Threaded
  <2>4. ReportEars'
    BY <1>2, <2>1, <2>3, ReportEarsEnd
  <2>5. ReportFields' /\ HealthSays'
    BY <1>2, <2>1 DEF ReportFields, HealthSays, Reports!Kinds
  <2> QED BY <1>1, <2>2, <2>4, <2>5 DEF ReportWait
<1>11. ASSUME NEW j \in jobs, NEW ok \in BOOLEAN, Reports!ThreadDone(j, ok) PROVE ReportWait'
  <2>1. /\ j.kind \in Reports!Threaded /\ jobs' = jobs \ {j} /\ UNCHANGED <<open, visit, failed>>
        /\ listening' = {l \in listening : l.kind # j.kind}
    BY <1>11 DEF Reports!ThreadDone
  <2>2. IF \E l \in listening : l.kind = j.kind /\ open /\ l.visit = visit
        THEN /\ busy' = [busy EXCEPT ![j.kind] = FALSE]
             /\ shown' = shown \/ shown' = [shown EXCEPT ![j.kind] = j.id]
        ELSE busy' = busy /\ shown' = shown
    BY <1>11 DEF Reports!ThreadDone, Reports!Here
  <2>3. ReportSpin'
    <3>1. CASE \E l \in listening : l.kind = j.kind /\ open /\ l.visit = visit
      BY <1>2, <2>1, <2>2, <3>1, ReportSpinEnds
    <3>2. CASE ~\E l \in listening : l.kind = j.kind /\ open /\ l.visit = visit
      <4>1. ~(open /\ busy[j.kind])
        BY <1>2, <2>1, <3>2 DEF ReportSpin, ReportSpins, Reports!Threaded, Reports!Kinds
      <4> QED BY <1>2, <2>1, <2>2, <3>2, <4>1, ReportSpinEnds
    <3> QED BY <3>1, <3>2
  <2>4. ReportEars'
    BY <1>2, <2>1, ReportApart, ReportEarsEnd
  <2>5. ReportFields' /\ HealthSays'
    BY <1>2, <2>1, <2>2 DEF ReportFields, HealthSays, Reports!Kinds, Reports!Threaded
  <2> QED BY <1>1, <2>3, <2>4, <2>5 DEF ReportWait
<1>12. ASSUME NEW j \in jobs, Reports!Refused(j) PROVE ReportWait'
  <2>1. /\ j.kind \in Reports!Threaded /\ jobs' = jobs \ {j}
           /\ UNCHANGED <<open, visit, failed, shown>>
        /\ listening' = {l \in listening : l.job # j.id}
    BY <1>12 DEF Reports!Refused
  <2>2. busy' = IF Reports!Here(j) THEN [busy EXCEPT ![j.kind] = FALSE] ELSE busy
    BY <1>12 DEF Reports!Refused
  <2>3. \A l \in listening : l.kind # j.kind => l \in listening'
    BY <1>2, <2>1, ReportApart
  <2>4. ReportSpin'
    <3>1. CASE Reports!Here(j)
      BY <1>2, <2>1, <2>2, <2>3, <3>1, ReportSpinEnds
    <3>2. ASSUME ~Reports!Here(j), open, busy[j.kind] PROVE ReportSpins(j.kind)'
      <4>1. PICK l \in listening, i \in jobs :
              l.kind = j.kind /\ l.visit = visit /\ l.job = i.id /\ i.kind = j.kind
        BY <1>2, <2>1, <3>2 DEF ReportSpin, ReportSpins, Reports!Threaded, Reports!Kinds
      <4>2. i.visit = visit
        BY <1>2, <4>1 DEF ReportEars
      <4>3. i # j /\ l.job # j.id
        BY <1>2, <3>2, <4>1, <4>2 DEF Reports!Here
      <4> QED BY <2>1, <4>1, <4>3 DEF ReportSpins
    <3>3. CASE ~Reports!Here(j)
      BY <1>2, <2>1, <2>2, <2>3, <3>2, <3>3, ReportSpinEnds
    <3> QED BY <3>1, <3>3
  <2>5. ReportEars'
    BY <1>2, <2>1, ReportEarsEnd
  <2>6. ReportFields' /\ HealthSays'
    BY <1>2, <2>1, <2>2 DEF ReportFields, HealthSays, Reports!Kinds, Reports!Threaded
  <2> QED BY <1>1, <2>4, <2>5, <2>6 DEF ReportWait
<1> QED
  BY <1>3, <1>4, <1>6, <1>7, <1>8, <1>9, <1>10, <1>11, <1>12
     DEF Reports!Next, Reports!handleBenchmark, Reports!handleVerifyRollback, Reports!Threaded

\* No spinner of the reports page turns for nothing, and its health card always
\* has something to say, for any bounds.
THEOREM ReportsRest == Reports!Spec => [](Reports!SpinnersEnd /\ Reports!NeverBlank)
<1>1. Reports!Init => ReportWait
  <2> SUFFICES ASSUME Reports!Init PROVE ReportWait
    OBVIOUS
  <2>1. /\ open = FALSE /\ shown = Reports!Nothing /\ wrapped = Reports!Closed /\ issued = 0
           /\ jobs = {}
        /\ busy = Reports!AtRest /\ failed = Reports!NoError /\ listening = {}
    BY DEF Reports!Init
  <2>2. ReportInv
    BY <2>1 DEF ReportInv, ReportCalls, ReportTyped, SummaryCalls, Reports!Nothing, Reports!Closed
  <2> QED
    BY <2>1, <2>2 DEF ReportWait, ReportSpin, ReportEars, ReportFields, HealthSays,
       Reports!AtRest, Reports!NoError, Reports!Nothing
<1>2. ReportWait => Reports!SpinnersEnd /\ Reports!NeverBlank
  <2> SUFFICES ASSUME ReportWait, open PROVE Reports!SpinnersEnd /\ Reports!NeverBlank
    BY DEF Reports!SpinnersEnd, Reports!NeverBlank
  <2>1. DOMAIN busy = Reports!Kinds \ {"wrapped"}
    BY DEF ReportWait, ReportFields
  <2>2. Reports!SpinnersEnd
    BY <2>1 DEF Reports!SpinnersEnd, ReportWait, ReportSpin, ReportSpins
  <2>3. Reports!NeverBlank
    BY DEF Reports!NeverBlank, ReportWait, HealthSays, Reports!HealthCard, Reports!Exportable
  <2> QED BY <2>2, <2>3
<1> QED BY <1>1, <1>2, ReportWaitNext, PTL DEF Reports!Spec
=============================================================================
