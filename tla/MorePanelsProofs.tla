-------------------------- MODULE MorePanelsProofs -------------------------
(***************************************************************************)
(* Proofs about the other pages of the desktop: tools and comparison,      *)
(* security, snapshots, exports, plugins, settings with the top bar, and   *)
(* what is installed.  As in PanelsProofs, each part takes one instance of *)
(* Panels; none depends on another.                                        *)
(***************************************************************************)
EXTENDS PanelsProofs

\* The Cardinality of an instance is Cardinality.
LEMMA SameChecks == \A S : Security!Cardinality(S) = Cardinality(S)
  BY Zenon DEF Security!Cardinality, Cardinality
LEMMA SameRows == \A S : Installed!Cardinality(S) = Cardinality(S)
  BY Zenon DEF Installed!Cardinality, Cardinality

-----------------------------------------------------------------------------
(* The tools page *)

\* The page opened once, and its calls answered in time: a later visit, and a
\* later call, hear the events of what was left behind.
ToolsOnce == Tools!ToolsAssumption /\ ~Rough /\ Visits["tools"] <= 1

ToolsFlags == /\ open \in BOOLEAN /\ visit \in Nat
              /\ visit = 0 => ~open /\ jobs = {}
ToolsTyped == /\ busy \in [Tools!Tools -> BOOLEAN] /\ DOMAIN shown = Tools!Tools
                 /\ DOMAIN asked = Tools!Tools
              /\ shown = [c \in Tools!Tools |-> shown[c]]
                 /\ asked = [c \in Tools!Tools |-> asked[c]]
              /\ \A j \in jobs : j.tool \in Tools!Tools
\* A card is busy with one call, its last.
ToolsAsk == open => \A j \in jobs : /\ busy[j.tool] /\ j.id = asked[j.tool]
                                    /\ \A k \in jobs : k.tool = j.tool => k = j
ToolsInv == ToolsFlags /\ ToolsTyped /\ ToolsAsk /\ Tools!OwnAnswerShown

LEMMA ToolsSubmit == ASSUME ToolsInv, NEW c, Tools!Submit(c) PROVE ToolsInv'
<1> USE DEF ToolsInv
<1>1. /\ c \in Tools!Tools /\ open /\ ~busy[c] /\ UNCHANGED <<open, visit>>
      /\ busy' = [busy EXCEPT ![c] = TRUE] /\ shown' = [shown EXCEPT ![c] = 0]
  BY DEF Tools!Submit, Tools!Card
<1>2. PICK r : jobs' = jobs \cup {r} /\ r.tool = c /\ asked' = [asked EXCEPT ![c] = r.id]
  <2> DEFINE r == [id |-> issued', tool |-> c, visit |-> visit]
  <2>1. jobs' = jobs \cup {r} /\ asked' = [asked EXCEPT ![c] = issued']
    BY DEF Tools!Submit
  <2>2. r.id = issued' /\ r.tool = c
    OBVIOUS
  <2> HIDE DEF r
  <2> QED BY <2>1, <2>2
<1>3. ToolsFlags'
  BY <1>1 DEF ToolsFlags
<1>4. ToolsTyped'
  BY <1>1, <1>2 DEF ToolsTyped
<1>5. \A j \in jobs : j.tool # c /\ j.tool \in Tools!Tools
  BY <1>1 DEF ToolsAsk, ToolsTyped
<1>6. ToolsAsk'
  BY <1>1, <1>2, <1>5 DEF ToolsAsk, ToolsTyped
<1>7. Tools!OwnAnswerShown'
  BY <1>1, <1>2 DEF Tools!OwnAnswerShown, ToolsTyped
<1> QED BY <1>3, <1>4, <1>6, <1>7

\* A call ends: its card comes to rest, or stays as it is.
LEMMA ToolsEnd ==
    ASSUME ToolsInv, NEW j \in jobs, jobs' = jobs \ {j}, UNCHANGED <<open, visit, asked>>,
           NEW n \in {0, j.id}, Tools!Settle(j.tool, n) \/ UNCHANGED <<busy, shown>>
    PROVE  ToolsInv'
<1> USE DEF ToolsInv
<1>1. ToolsFlags'
  BY DEF ToolsFlags
<1>2. CASE UNCHANGED <<busy, shown>>
  <2>1. ToolsTyped' /\ Tools!OwnAnswerShown'
    BY <1>2 DEF ToolsTyped, Tools!OwnAnswerShown
  <2>2. ToolsAsk'
    BY <1>2 DEF ToolsAsk
  <2> QED BY <1>1, <2>1, <2>2
<1>3. CASE Tools!Settle(j.tool, n)
  <2>1. /\ busy' = [busy EXCEPT ![j.tool] = FALSE]
        /\ shown' = shown \/ shown' = [shown EXCEPT ![j.tool] = j.id]
    BY <1>3 DEF Tools!Settle
  <2>2. j.tool \in Tools!Tools
    BY DEF ToolsTyped
  <2>3. ToolsTyped'
    BY <2>1, <2>2 DEF ToolsTyped
  <2>4. ToolsAsk'
    BY <2>1, <2>2 DEF ToolsAsk, ToolsTyped
  <2>5. Tools!OwnAnswerShown'
    BY <2>1, <2>2 DEF ToolsAsk, Tools!OwnAnswerShown, ToolsTyped
  <2> QED BY <1>1, <2>3, <2>4, <2>5
<1> QED BY <1>2, <1>3

LEMMA ToolsNext == ToolsOnce /\ ToolsInv /\ [Tools!Next]_Tools!vars => ToolsInv'
<1> SUFFICES ASSUME ToolsOnce, ToolsInv, [Tools!Next]_Tools!vars PROVE ToolsInv'
  OBVIOUS
<1>1. CASE UNCHANGED Tools!vars
  BY <1>1 DEF Tools!vars, ToolsInv, ToolsFlags, ToolsTyped, ToolsAsk, Tools!OwnAnswerShown
<1>2. CASE Tools!Leave
  BY <1>2 DEF Tools!Leave, ToolsInv, ToolsFlags, ToolsTyped, ToolsAsk, Tools!OwnAnswerShown
<1>3. CASE Tools!Open
  <2>1. visit < Visits["tools"] /\ Visits["tools"] \in Nat /\ Visits["tools"] <= 1
    BY <1>3 DEF Tools!Open, ToolsOnce, Tools!ToolsAssumption
  <2>2. visit = 0 /\ jobs = {}
    BY <2>1 DEF ToolsInv, ToolsFlags
  <2>3. /\ open' = TRUE /\ visit' = 1 /\ jobs' = {}
        /\ busy' = Tools!Quiet /\ shown' = Tools!Nobody /\ asked' = Tools!Nobody
    BY <1>3, <2>2 DEF Tools!Open
  <2>4. ToolsFlags' /\ ToolsAsk'
    BY <2>3 DEF ToolsFlags, ToolsAsk
  <2>5. ToolsTyped' /\ Tools!OwnAnswerShown'
    BY <2>3 DEF ToolsTyped, Tools!OwnAnswerShown, Tools!Quiet, Tools!Nobody
  <2> QED BY <2>4, <2>5 DEF ToolsInv
<1>4. CASE \/ Tools!handleRpm \/ Tools!handleAbi \/ Tools!handleAudit \/ Tools!handleScan
              \/ Tools!handleAttest
           \/ Tools!handlePublish \/ Tools!handleRehearse \/ Tools!handleCompare
  BY <1>4, ToolsSubmit
     DEF Tools!handleRpm, Tools!handleAbi, Tools!handleAudit, Tools!handleScan,
         Tools!handleAttest,
     Tools!handlePublish, Tools!handleRehearse, Tools!handleCompare
<1>5. ASSUME NEW j \in jobs, NEW ok \in BOOLEAN, Tools!Done(j, ok) \/ Tools!Respond(j, ok)
      PROVE  ToolsInv'
  <2> DEFINE n == IF ok THEN j.id ELSE 0
  <2>1. /\ jobs' = jobs \ {j} /\ UNCHANGED <<open, visit, asked>> /\ n \in {0, j.id}
        /\ Tools!Settle(j.tool, n) \/ UNCHANGED <<busy, shown>>
    BY <1>5 DEF Tools!Done, Tools!Respond
  <2> HIDE DEF n
  <2> QED BY <2>1, ToolsEnd
<1>6. \A j \in jobs : ~Tools!TimesOut(j)
  BY DEF Tools!TimesOut, ToolsOnce
<1> QED BY <1>1, <1>2, <1>3, <1>4, <1>5, <1>6 DEF Tools!Next

\* What a card of the tools page shows answers what was last asked of it.
THEOREM ToolsAnswer == ToolsOnce => (Tools!Spec => []Tools!OwnAnswerShown)
<1> SUFFICES ASSUME ToolsOnce PROVE Tools!Spec => []Tools!OwnAnswerShown
  OBVIOUS
<1>1. Tools!Init => ToolsInv
  <2> SUFFICES ASSUME Tools!Init PROVE ToolsInv
    OBVIOUS
  <2>1. /\ open = FALSE /\ visit = 0 /\ jobs = {}
        /\ busy = Tools!Quiet /\ shown = Tools!Nobody /\ asked = Tools!Nobody
    BY DEF Tools!Init
  <2>2. ToolsFlags /\ ToolsAsk
    BY <2>1 DEF ToolsFlags, ToolsAsk
  <2>3. ToolsTyped /\ Tools!OwnAnswerShown
    BY <2>1 DEF ToolsTyped, Tools!OwnAnswerShown, Tools!Quiet, Tools!Nobody
  <2> QED BY <2>2, <2>3 DEF ToolsInv
<1>2. ToolsInv /\ [Tools!Next]_Tools!vars => ToolsInv'
  BY ToolsNext
<1>3. ToolsInv => Tools!OwnAnswerShown
  BY DEF ToolsInv
<1> QED BY <1>1, <1>2, <1>3, PTL DEF Tools!Spec

\* A busy card waits for a call of this visit.
ToolsWait == /\ busy = [c \in Tools!Tools |-> busy[c]] /\ DOMAIN busy = Tools!Tools
             /\ open => \A c \in Tools!Tools : busy[c]
                => \E j \in jobs : j.tool = c /\ j.visit = visit

\* No card of the tools page waits for nothing, also of a page that was left
\* and opened again.
THEOREM ToolsRest == Tools!Spec => []Tools!NoStuckBusy
<1>1. Tools!Init => ToolsWait
  BY DEF Tools!Init, ToolsWait, Tools!Quiet
<1>2. ToolsWait /\ [Tools!Next]_Tools!vars => ToolsWait'
  <2> SUFFICES ASSUME ToolsWait, [Tools!Next]_Tools!vars PROVE ToolsWait'
    OBVIOUS
  <2>1. CASE UNCHANGED Tools!vars
    BY <2>1 DEF Tools!vars, ToolsWait
  <2>2. CASE Tools!Leave
    BY <2>2 DEF Tools!Leave, ToolsWait
  <2>3. CASE Tools!Open
    BY <2>3 DEF Tools!Open, ToolsWait, Tools!Quiet
  <2>4. ASSUME NEW c, Tools!Submit(c) PROVE ToolsWait'
    <3> DEFINE r == [id |-> issued', tool |-> c, visit |-> visit]
    <3>1. /\ c \in Tools!Tools /\ UNCHANGED <<open, visit>>
          /\ busy' = [busy EXCEPT ![c] = TRUE] /\ jobs' = jobs \cup {r}
      BY <2>4 DEF Tools!Submit
    <3>2. r.tool = c /\ r.visit = visit
      OBVIOUS
    <3> HIDE DEF r
    <3> QED BY <3>1, <3>2 DEF ToolsWait
  <2>5. CASE \/ Tools!handleRpm \/ Tools!handleAbi \/ Tools!handleAudit \/ Tools!handleScan
                \/ Tools!handleAttest
             \/ Tools!handlePublish \/ Tools!handleRehearse \/ Tools!handleCompare
    BY <2>4, <2>5
       DEF Tools!handleRpm, Tools!handleAbi, Tools!handleAudit, Tools!handleScan,
           Tools!handleAttest,
       Tools!handlePublish, Tools!handleRehearse, Tools!handleCompare
  <2>6. ASSUME NEW j \in jobs, NEW ok \in BOOLEAN, Tools!Done(j, ok) \/ Tools!Respond(j, ok)
        PROVE  ToolsWait'
    <3>1. /\ jobs' = jobs \ {j} /\ UNCHANGED <<open, visit>>
          /\ \/ busy' = [busy EXCEPT ![j.tool] = FALSE]
             \/ busy' = busy /\ ~(open /\ j.visit = visit)
      BY <2>6 DEF Tools!Done, Tools!Respond, Tools!Settle
    <3> QED BY <3>1 DEF ToolsWait
  <2>7. ASSUME NEW j \in jobs, Tools!TimesOut(j) PROVE ToolsWait'
    <3>1. /\ \A k \in jobs : k # j => k \in jobs'
          /\ UNCHANGED <<open, visit>>
          /\ \/ busy' = [busy EXCEPT ![j.tool] = FALSE]
             \/ busy' = busy /\ ~(open /\ j.visit = visit)
      BY <2>7 DEF Tools!TimesOut, Tools!Settle
    <3> QED BY <3>1 DEF ToolsWait
  <2> QED BY <2>1, <2>2, <2>3, <2>5, <2>6, <2>7 DEF Tools!Next
<1>3. ToolsWait => Tools!NoStuckBusy
  BY DEF ToolsWait, Tools!NoStuckBusy
<1> QED BY <1>1, <1>2, <1>3, PTL DEF Tools!Spec

-----------------------------------------------------------------------------
(* The compare page *)

\* The page opened once, and its calls answered in time: a later visit, and a
\* later call, hear the events of what was left behind.
CompareOnce == Compare!ToolsAssumption /\ ~Rough /\ Visits["compare"] <= 1

CompareFlags == /\ open \in BOOLEAN /\ visit \in Nat
                /\ visit = 0 => ~open /\ jobs = {}
CompareTyped == /\ busy \in [Compare!Tools -> BOOLEAN] /\ DOMAIN shown = Compare!Tools
                   /\ DOMAIN asked = Compare!Tools
                /\ shown = [c \in Compare!Tools |-> shown[c]]
                   /\ asked = [c \in Compare!Tools |-> asked[c]]
                /\ \A j \in jobs : j.tool \in Compare!Tools
\* The page is busy with one call, its last.
CompareAsk == open => \A j \in jobs : /\ busy[j.tool] /\ j.id = asked[j.tool]
                                      /\ \A k \in jobs : k.tool = j.tool => k = j
CompareInv == CompareFlags /\ CompareTyped /\ CompareAsk /\ Compare!OwnAnswerShown

LEMMA CompareSubmit == ASSUME CompareInv, NEW c, Compare!Submit(c) PROVE CompareInv'
<1> USE DEF CompareInv
<1>1. /\ c \in Compare!Tools /\ open /\ ~busy[c] /\ UNCHANGED <<open, visit>>
      /\ busy' = [busy EXCEPT ![c] = TRUE] /\ shown' = [shown EXCEPT ![c] = 0]
  BY DEF Compare!Submit, Compare!Card
<1>2. PICK r : jobs' = jobs \cup {r} /\ r.tool = c /\ asked' = [asked EXCEPT ![c] = r.id]
  <2> DEFINE r == [id |-> issued', tool |-> c, visit |-> visit]
  <2>1. jobs' = jobs \cup {r} /\ asked' = [asked EXCEPT ![c] = issued']
    BY DEF Compare!Submit
  <2>2. r.id = issued' /\ r.tool = c
    OBVIOUS
  <2> HIDE DEF r
  <2> QED BY <2>1, <2>2
<1>3. CompareFlags'
  BY <1>1 DEF CompareFlags
<1>4. CompareTyped'
  BY <1>1, <1>2 DEF CompareTyped
<1>5. \A j \in jobs : j.tool # c /\ j.tool \in Compare!Tools
  BY <1>1 DEF CompareAsk, CompareTyped
<1>6. CompareAsk'
  BY <1>1, <1>2, <1>5 DEF CompareAsk, CompareTyped
<1>7. Compare!OwnAnswerShown'
  BY <1>1, <1>2 DEF Compare!OwnAnswerShown, CompareTyped
<1> QED BY <1>3, <1>4, <1>6, <1>7

\* A call ends: its card comes to rest, or stays as it is.
LEMMA CompareEnd ==
    ASSUME CompareInv, NEW j \in jobs, jobs' = jobs \ {j}, UNCHANGED <<open, visit, asked>>,
           NEW n \in {0, j.id}, Compare!Settle(j.tool, n) \/ UNCHANGED <<busy, shown>>
    PROVE  CompareInv'
<1> USE DEF CompareInv
<1>1. CompareFlags'
  BY DEF CompareFlags
<1>2. CASE UNCHANGED <<busy, shown>>
  <2>1. CompareTyped' /\ Compare!OwnAnswerShown'
    BY <1>2 DEF CompareTyped, Compare!OwnAnswerShown
  <2>2. CompareAsk'
    BY <1>2 DEF CompareAsk
  <2> QED BY <1>1, <2>1, <2>2
<1>3. CASE Compare!Settle(j.tool, n)
  <2>1. /\ busy' = [busy EXCEPT ![j.tool] = FALSE]
        /\ shown' = shown \/ shown' = [shown EXCEPT ![j.tool] = j.id]
    BY <1>3 DEF Compare!Settle
  <2>2. j.tool \in Compare!Tools
    BY DEF CompareTyped
  <2>3. CompareTyped'
    BY <2>1, <2>2 DEF CompareTyped
  <2>4. CompareAsk'
    BY <2>1, <2>2 DEF CompareAsk, CompareTyped
  <2>5. Compare!OwnAnswerShown'
    BY <2>1, <2>2 DEF CompareAsk, Compare!OwnAnswerShown, CompareTyped
  <2> QED BY <1>1, <2>3, <2>4, <2>5
<1> QED BY <1>2, <1>3

LEMMA CompareNext == CompareOnce /\ CompareInv /\ [Compare!Next]_Compare!vars => CompareInv'
<1> SUFFICES ASSUME CompareOnce, CompareInv, [Compare!Next]_Compare!vars PROVE CompareInv'
  OBVIOUS
<1>1. CASE UNCHANGED Compare!vars
  BY <1>1
     DEF Compare!vars, CompareInv, CompareFlags, CompareTyped, CompareAsk, Compare!OwnAnswerShown
<1>2. CASE Compare!Leave
  BY <1>2
     DEF Compare!Leave, CompareInv, CompareFlags, CompareTyped, CompareAsk, Compare!OwnAnswerShown
<1>3. CASE Compare!Open
  <2>1. visit < Visits["compare"] /\ Visits["compare"] \in Nat /\ Visits["compare"] <= 1
    BY <1>3 DEF Compare!Open, CompareOnce, Compare!ToolsAssumption
  <2>2. visit = 0 /\ jobs = {}
    BY <2>1 DEF CompareInv, CompareFlags
  <2>3. /\ open' = TRUE /\ visit' = 1 /\ jobs' = {}
        /\ busy' = Compare!Quiet /\ shown' = Compare!Nobody /\ asked' = Compare!Nobody
    BY <1>3, <2>2 DEF Compare!Open
  <2>4. CompareFlags' /\ CompareAsk'
    BY <2>3 DEF CompareFlags, CompareAsk
  <2>5. CompareTyped' /\ Compare!OwnAnswerShown'
    BY <2>3 DEF CompareTyped, Compare!OwnAnswerShown, Compare!Quiet, Compare!Nobody
  <2> QED BY <2>4, <2>5 DEF CompareInv
<1>4. CASE \/ Compare!handleRpm \/ Compare!handleAbi \/ Compare!handleAudit \/ Compare!handleScan
              \/ Compare!handleAttest
           \/ Compare!handlePublish \/ Compare!handleRehearse \/ Compare!handleCompare
  BY <1>4, CompareSubmit
     DEF Compare!handleRpm, Compare!handleAbi, Compare!handleAudit, Compare!handleScan,
         Compare!handleAttest,
     Compare!handlePublish, Compare!handleRehearse, Compare!handleCompare
<1>5. ASSUME NEW j \in jobs, NEW ok \in BOOLEAN, Compare!Done(j, ok) \/ Compare!Respond(j, ok)
      PROVE  CompareInv'
  <2> DEFINE n == IF ok THEN j.id ELSE 0
  <2>1. /\ jobs' = jobs \ {j} /\ UNCHANGED <<open, visit, asked>> /\ n \in {0, j.id}
        /\ Compare!Settle(j.tool, n) \/ UNCHANGED <<busy, shown>>
    BY <1>5 DEF Compare!Done, Compare!Respond
  <2> HIDE DEF n
  <2> QED BY <2>1, CompareEnd
<1>6. \A j \in jobs : ~Compare!TimesOut(j)
  BY DEF Compare!TimesOut, CompareOnce
<1> QED BY <1>1, <1>2, <1>3, <1>4, <1>5, <1>6 DEF Compare!Next

\* What the compare page shows answers what was last asked of it.
THEOREM CompareAnswer == CompareOnce => (Compare!Spec => []Compare!OwnAnswerShown)
<1> SUFFICES ASSUME CompareOnce PROVE Compare!Spec => []Compare!OwnAnswerShown
  OBVIOUS
<1>1. Compare!Init => CompareInv
  <2> SUFFICES ASSUME Compare!Init PROVE CompareInv
    OBVIOUS
  <2>1. /\ open = FALSE /\ visit = 0 /\ jobs = {}
        /\ busy = Compare!Quiet /\ shown = Compare!Nobody /\ asked = Compare!Nobody
    BY DEF Compare!Init
  <2>2. CompareFlags /\ CompareAsk
    BY <2>1 DEF CompareFlags, CompareAsk
  <2>3. CompareTyped /\ Compare!OwnAnswerShown
    BY <2>1 DEF CompareTyped, Compare!OwnAnswerShown, Compare!Quiet, Compare!Nobody
  <2> QED BY <2>2, <2>3 DEF CompareInv
<1>2. CompareInv /\ [Compare!Next]_Compare!vars => CompareInv'
  BY CompareNext
<1>3. CompareInv => Compare!OwnAnswerShown
  BY DEF CompareInv
<1> QED BY <1>1, <1>2, <1>3, PTL DEF Compare!Spec

\* A busy card waits for a call of this visit.
CompareWait == /\ busy = [c \in Compare!Tools |-> busy[c]] /\ DOMAIN busy = Compare!Tools
               /\ open => \A c \in Compare!Tools : busy[c]
                  => \E j \in jobs : j.tool = c /\ j.visit = visit

\* The compare page never waits for nothing, also of a page that was left
\* and opened again.
THEOREM CompareRest == Compare!Spec => []Compare!NoStuckBusy
<1>1. Compare!Init => CompareWait
  BY DEF Compare!Init, CompareWait, Compare!Quiet
<1>2. CompareWait /\ [Compare!Next]_Compare!vars => CompareWait'
  <2> SUFFICES ASSUME CompareWait, [Compare!Next]_Compare!vars PROVE CompareWait'
    OBVIOUS
  <2>1. CASE UNCHANGED Compare!vars
    BY <2>1 DEF Compare!vars, CompareWait
  <2>2. CASE Compare!Leave
    BY <2>2 DEF Compare!Leave, CompareWait
  <2>3. CASE Compare!Open
    BY <2>3 DEF Compare!Open, CompareWait, Compare!Quiet
  <2>4. ASSUME NEW c, Compare!Submit(c) PROVE CompareWait'
    <3> DEFINE r == [id |-> issued', tool |-> c, visit |-> visit]
    <3>1. /\ c \in Compare!Tools /\ UNCHANGED <<open, visit>>
          /\ busy' = [busy EXCEPT ![c] = TRUE] /\ jobs' = jobs \cup {r}
      BY <2>4 DEF Compare!Submit
    <3>2. r.tool = c /\ r.visit = visit
      OBVIOUS
    <3> HIDE DEF r
    <3> QED BY <3>1, <3>2 DEF CompareWait
  <2>5. CASE \/ Compare!handleRpm \/ Compare!handleAbi \/ Compare!handleAudit \/ Compare!handleScan
                \/ Compare!handleAttest
             \/ Compare!handlePublish \/ Compare!handleRehearse \/ Compare!handleCompare
    BY <2>4, <2>5
       DEF Compare!handleRpm, Compare!handleAbi, Compare!handleAudit, Compare!handleScan,
           Compare!handleAttest,
       Compare!handlePublish, Compare!handleRehearse, Compare!handleCompare
  <2>6. ASSUME NEW j \in jobs, NEW ok \in BOOLEAN, Compare!Done(j, ok) \/ Compare!Respond(j, ok)
        PROVE  CompareWait'
    <3>1. /\ jobs' = jobs \ {j} /\ UNCHANGED <<open, visit>>
          /\ \/ busy' = [busy EXCEPT ![j.tool] = FALSE]
             \/ busy' = busy /\ ~(open /\ j.visit = visit)
      BY <2>6 DEF Compare!Done, Compare!Respond, Compare!Settle
    <3> QED BY <3>1 DEF CompareWait
  <2>7. ASSUME NEW j \in jobs, Compare!TimesOut(j) PROVE CompareWait'
    <3>1. /\ \A k \in jobs : k # j => k \in jobs'
          /\ UNCHANGED <<open, visit>>
          /\ \/ busy' = [busy EXCEPT ![j.tool] = FALSE]
             \/ busy' = busy /\ ~(open /\ j.visit = visit)
      BY <2>7 DEF Compare!TimesOut, Compare!Settle
    <3> QED BY <3>1 DEF CompareWait
  <2> QED BY <2>1, <2>2, <2>3, <2>5, <2>6, <2>7 DEF Compare!Next
<1>3. CompareWait => Compare!NoStuckBusy
  BY DEF CompareWait, Compare!NoStuckBusy
<1> QED BY <1>1, <1>2, <1>3, PTL DEF Compare!Spec

-----------------------------------------------------------------------------
(* The security page *)

\* The page opened once, and no check that takes longer than runEventCheck
\* waits: after it the next one starts beside it.
SecurityOnce == Security!SecurityAssumption /\ ~Rough /\ Visits["security"] <= 1

SecurityCall(j) ==
    /\ j = [id |-> j.id, check |-> j.check, pkg |-> j.pkg, mount |-> j.mount, by |-> j.by]
    /\ j.mount = 1 /\ j.id # 0
SecurityRun(r) ==
    /\ r = [mount |-> r.mount, pkg |-> r.pkg, step |-> r.step, job |-> r.job]
    /\ r.mount = 1 /\ r.step \in Nat
SecurityEar(l) ==
    /\ l = [job |-> l.job, for |-> l.for, mount |-> l.mount, by |-> l.by, bound |-> l.bound]
    /\ l.bound \in BOOLEAN /\ (l.by = "all" \/ l.bound)
SecurityType ==
    /\ mount = 1 /\ issued \in Nat
    /\ \A j \in jobs : SecurityCall(j)
    /\ \A r \in runs : SecurityRun(r)
    /\ \A l \in listening : SecurityEar(l)
ResultsAreOwn ==
    /\ shown = [c \in Security!Checks |-> shown[c]]
    /\ \A c \in Security!Checks : shown[c] # None => shown[c].check = c
\* One call, one handleRunAll, and one listener, all of the same check
OneCheck ==
    /\ \A j, k \in jobs : j = k
    /\ \A r, s \in runs : r = s
    /\ \A l, m \in listening : l = m
    /\ jobs = {} /\ runs = {} => listening = {}
SpinnerOn == (jobs # {} \/ runs # {}) => loading
Turns ==
    /\ \A j \in jobs : IF j.by = "button" THEN runs = {} ELSE runs # {}
    /\ \A j \in jobs, r \in runs : r.job = j.id
    /\ \A r \in runs : r.job = 0 => jobs = {} /\ listening = {}
    /\ \A r \in runs : r.job # 0 => r.step <= Len(RunOrder)
Hears ==
    /\ \A l \in listening, j \in jobs : l.job = j.id /\ l.for = j.check /\ l.by = j.by
    /\ \A l \in listening, r \in runs : l.job = r.job
SecurityInv == SecurityType /\ ResultsAreOwn /\ OneCheck /\ SpinnerOn /\ Turns /\ Hears

LEMMA SecurityAdvances ==
    ASSUME NEW r, SecurityRun(r)
    PROVE  SecurityRun(Security!Advanced(r)) /\ Security!Advanced(r).job = 0
<1> DEFINE k == [r EXCEPT !.step = @ + 1]
<1>1. k = [mount |-> r.mount, pkg |-> r.pkg, step |-> r.step + 1, job |-> r.job]
  BY DEF SecurityRun
<1>2. Security!Advanced(r) = [k EXCEPT !.job = 0]
  BY DEF Security!Advanced
<1> HIDE DEF k
<1>3. Security!Advanced(r) = [mount |-> r.mount, pkg |-> r.pkg, step |-> r.step + 1, job |-> 0]
  BY <1>1, <1>2
<1> QED BY <1>3 DEF SecurityRun

\* What a call adds
LEMMA SecurityIssues ==
    ASSUME SecurityInv, jobs = {}, listening = {}, NEW c, NEW pkg, NEW by, NEW bound \in BOOLEAN,
           by = "all" \/ bound, Security!Issue(c, pkg, 1, by, bound)
    PROVE  /\ issued' \in Nat /\ issued' # 0
           /\ \E j : jobs' = {j} /\ SecurityCall(j) /\ j.id = issued' /\ j.check = c /\ j.by = by
           /\ \/ listening' = {}
              \/ \E l : /\ listening' = {l} /\ SecurityEar(l)
                        /\ l.job = issued' /\ l.for = c /\ l.by = by
<1> DEFINE j == [id |-> issued', check |-> c, pkg |-> pkg, mount |-> 1, by |-> by]
           l == [job |-> issued', for |-> c, mount |-> 1, by |-> by, bound |-> bound]
<1>1. issued \in Nat
  BY DEF SecurityInv, SecurityType
<1>2. issued' = issued + 1
  BY DEF Security!Issue
<1>3. jobs' = jobs \cup {j} /\ (listening' = listening \cup {l} \/ listening' = listening)
  BY DEF Security!Issue
<1>4. issued' \in Nat /\ issued' # 0
  BY <1>1, <1>2
<1>5. SecurityCall(j) /\ j.id = issued' /\ j.check = c /\ j.by = by
  BY <1>4 DEF SecurityCall
<1>6. SecurityEar(l) /\ l.job = issued' /\ l.for = c /\ l.by = by
  BY DEF SecurityEar
<1> HIDE DEF j, l
<1>7. jobs' = {j} /\ (listening' = {l} \/ listening' = {})
  BY <1>3
<1> QED BY <1>4, <1>5, <1>6, <1>7

LEMMA SecurityPress == ASSUME SecurityInv, NEW c, Security!Press(c) PROVE SecurityInv'
<1>1. ~loading /\ loading' = TRUE /\ UNCHANGED <<shown, mount, runs>> /\ mount = 1
      /\ Security!Issue(c, path, mount, "button", TRUE)
  BY DEF Security!Press, Security!TabContent, SecurityInv, SecurityType
<1>2. jobs = {} /\ runs = {} /\ listening = {}
  BY <1>1 DEF SecurityInv, SpinnerOn, OneCheck
<1>3. Security!Issue(c, path, 1, "button", TRUE)
  BY <1>1
<1>4. /\ issued' \in Nat /\ issued' # 0
      /\ \E j : jobs' = {j} /\ SecurityCall(j) /\ j.id = issued' /\ j.check = c /\ j.by = "button"
      /\ \/ listening' = {}
         \/ \E l : /\ listening' = {l} /\ SecurityEar(l)
                   /\ l.job = issued' /\ l.for = c /\ l.by = "button"
  <2> DEFINE by == "button"
             bound == TRUE
  <2>3. PICK pkg : pkg = path
    OBVIOUS
  <2>1. bound \in BOOLEAN /\ (by = "all" \/ bound) /\ Security!Issue(c, pkg, 1, by, bound)
    BY <1>3, <2>3
  <2>2. by = "button"
    OBVIOUS
  <2> HIDE DEF by, bound
  <2>4. /\ issued' \in Nat /\ issued' # 0
        /\ \E j : jobs' = {j} /\ SecurityCall(j) /\ j.id = issued' /\ j.check = c /\ j.by = by
        /\ \/ listening' = {}
           \/ \E l : /\ listening' = {l} /\ SecurityEar(l)
                     /\ l.job = issued' /\ l.for = c /\ l.by = by
    BY <1>2, <2>1, SecurityIssues
  <2> QED BY <2>2, <2>4
<1>5. PICK j : jobs' = {j} /\ SecurityCall(j) /\ j.id = issued' /\ j.check = c /\ j.by = "button"
  BY <1>4
<1>6. \A l \in listening' : /\ SecurityEar(l) /\ l.job = issued' /\ l.for = c /\ l.by = "button"
                            /\ \A m \in listening' : m = l
  BY <1>4
<1>7. runs' = {}
  BY <1>1, <1>2
<1>8. SecurityType'
  BY <1>1, <1>4, <1>5, <1>6, <1>7 DEF SecurityType, SecurityCall, SecurityRun, SecurityEar
<1>9. ResultsAreOwn'
  BY <1>1 DEF SecurityInv, ResultsAreOwn
<1>10. OneCheck' /\ SpinnerOn'
  BY <1>1, <1>5, <1>6, <1>7 DEF OneCheck, SpinnerOn
<1>11. Turns' /\ Hears'
  BY <1>5, <1>6, <1>7 DEF Turns, Hears
<1> QED BY <1>8, <1>9, <1>10, <1>11 DEF SecurityInv

LEMMA SecurityPressAll == ASSUME SecurityInv, Security!PressAll PROVE SecurityInv'
<1> DEFINE r == [mount |-> mount, pkg |-> path, step |-> 1, job |-> 0]
<1>1. ~loading /\ loading' = TRUE /\ UNCHANGED <<shown, mount, issued, jobs, listening>>
      /\ runs' = runs \cup {r}
  BY DEF Security!PressAll
<1>2. jobs = {} /\ runs = {} /\ listening = {} /\ mount = 1
  BY <1>1 DEF SecurityInv, SecurityType, SpinnerOn, OneCheck
<1>3. SecurityRun(r) /\ r.job = 0
  BY <1>2 DEF SecurityRun
<1> HIDE DEF r
<1>4. jobs' = {} /\ runs' = {r} /\ listening' = {}
  BY <1>1, <1>2
<1>5. SecurityType'
  BY <1>1, <1>3, <1>4 DEF SecurityInv, SecurityType, SecurityCall, SecurityRun, SecurityEar
<1>6. ResultsAreOwn'
  BY <1>1 DEF SecurityInv, ResultsAreOwn
<1>7. OneCheck' /\ SpinnerOn'
  BY <1>1, <1>4 DEF OneCheck, SpinnerOn
<1>8. Turns' /\ Hears'
  BY <1>3, <1>4 DEF Turns, Hears
<1> QED BY <1>5, <1>6, <1>7, <1>8 DEF SecurityInv

LEMMA SecurityNextCheck ==
    ASSUME SecurityInv, NEW r \in runs, Security!NextCheck(r)
    PROVE  SecurityInv'
<1> DEFINE s == [r EXCEPT !.job = issued']
           c == RunOrder[r.step]
<1>1. /\ jobs = {} /\ listening = {} /\ runs = {r} /\ loading
      /\ r.step <= Len(RunOrder) /\ SecurityRun(r) /\ r.mount = 1
  BY DEF Security!NextCheck, SecurityInv, SecurityType, SecurityRun, OneCheck, SpinnerOn, Turns
<1>2. /\ runs' = (runs \ {r}) \cup {s} /\ UNCHANGED <<loading, shown, mount>>
      /\ Security!Issue(c, r.pkg, 1, "all", FALSE)
  BY <1>1 DEF Security!NextCheck
<1>3. SecurityRun(s) /\ s.job = issued' /\ s.step = r.step
  BY <1>1 DEF SecurityRun
<1> HIDE DEF s, c
<1>4. /\ issued' \in Nat /\ issued' # 0
      /\ \E j : jobs' = {j} /\ SecurityCall(j) /\ j.id = issued' /\ j.check = c /\ j.by = "all"
      /\ \/ listening' = {}
         \/ \E l : /\ listening' = {l} /\ SecurityEar(l)
                   /\ l.job = issued' /\ l.for = c /\ l.by = "all"
  <2> DEFINE by == "all"
             bound == FALSE
  <2>1. /\ bound \in BOOLEAN /\ (by = "all" \/ bound) /\ Security!Issue(c, r.pkg, 1, by, bound)
    BY <1>2
  <2>2. by = "all"
    OBVIOUS
  <2> HIDE DEF by, bound
  <2> QED BY <1>1, <2>1, <2>2, SecurityIssues
<1>5. PICK j : jobs' = {j} /\ SecurityCall(j) /\ j.id = issued' /\ j.check = c /\ j.by = "all"
  BY <1>4
<1>6. \A l \in listening' : /\ SecurityEar(l) /\ l.job = issued' /\ l.for = c /\ l.by = "all"
                            /\ \A m \in listening' : m = l
  BY <1>4
<1>7. runs' = {s}
  BY <1>1, <1>2
<1>8. SecurityType'
  BY <1>2, <1>3, <1>4, <1>5, <1>6, <1>7
     DEF SecurityInv, SecurityType, SecurityCall, SecurityRun, SecurityEar
<1>9. ResultsAreOwn'
  BY <1>2 DEF SecurityInv, ResultsAreOwn
<1>10. OneCheck' /\ SpinnerOn'
  BY <1>1, <1>2, <1>5, <1>6, <1>7 DEF OneCheck, SpinnerOn
<1>11. Turns' /\ Hears'
  BY <1>1, <1>3, <1>4, <1>5, <1>6, <1>7 DEF Turns, Hears
<1> QED BY <1>8, <1>9, <1>10, <1>11 DEF SecurityInv

LEMMA SecurityEndRun ==
    ASSUME SecurityInv, NEW r \in runs, Security!EndRun(r), RunOrder \in Seq(Security!Checks)
    PROVE  SecurityInv'
<1>1. r.job = 0
  <2>1. r.step > Len(RunOrder) /\ (r.job # 0 => r.step <= Len(RunOrder))
    BY DEF Security!EndRun, SecurityInv, Turns
  <2>2. Len(RunOrder) \in Nat /\ r.step \in Nat
    BY LenProperties DEF SecurityInv, SecurityType, SecurityRun
  <2> QED BY <2>1, <2>2
<1>2. jobs = {} /\ listening = {} /\ runs = {r}
  BY <1>1 DEF SecurityInv, Turns, OneCheck
<1>3. /\ UNCHANGED <<shown, mount, issued>>
      /\ jobs' = {} /\ listening' = {} /\ runs' = {}
  BY <1>2 DEF Security!EndRun
<1>4. SecurityType' /\ ResultsAreOwn'
  BY <1>3 DEF SecurityInv, SecurityType, ResultsAreOwn, SecurityCall, SecurityRun, SecurityEar
<1>5. OneCheck' /\ SpinnerOn' /\ Turns' /\ Hears'
  BY <1>3 DEF OneCheck, SpinnerOn, Turns, Hears
<1> QED BY <1>4, <1>5 DEF SecurityInv

LEMMA SecurityBind == ASSUME SecurityInv, NEW l \in listening, Security!Bind(l) PROVE SecurityInv'
<1> DEFINE m == [l EXCEPT !.bound = TRUE]
<1>1. /\ listening' = (listening \ {l}) \cup {m}
      /\ UNCHANGED <<loading, shown, mount, issued, jobs, runs>>
  BY DEF Security!Bind
<1>2. SecurityEar(m) /\ m.job = l.job /\ m.for = l.for /\ m.by = l.by
  <2>1. l = [job |-> l.job, for |-> l.for, mount |-> l.mount, by |-> l.by, bound |-> l.bound]
    BY DEF SecurityInv, SecurityType, SecurityEar
  <2> DEFINE a == l.job
             b == l.for
             n == l.mount
             w == l.by
             z == l.bound
  <2> HIDE DEF a, b, n, w, z
  <2>5. l = [job |-> a, for |-> b, mount |-> n, by |-> w, bound |-> z]
    BY <2>1 DEF a, b, n, w, z
  <2>7. PICK t : t = TRUE
    OBVIOUS
  <2>8. m = [l EXCEPT !.bound = t]
    BY <2>7
  <2> HIDE DEF m
  <2>9. m = [job |-> a, for |-> b, mount |-> n, by |-> w, bound |-> t]
    BY <2>5, <2>8
  <2>6. m = [job |-> a, for |-> b, mount |-> n, by |-> w, bound |-> TRUE]
    BY <2>7, <2>9
  <2>2. m = [job |-> l.job, for |-> l.for, mount |-> l.mount, by |-> l.by, bound |-> TRUE]
    BY <2>6 DEF a, b, n, w, z
  <2> HIDE DEF m
  <2>3. m.job = l.job /\ m.for = l.for /\ m.mount = l.mount /\ m.by = l.by /\ m.bound
        /\ m.bound \in BOOLEAN
    BY <2>2
  <2>4. m = [job |-> m.job, for |-> m.for, mount |-> m.mount, by |-> m.by, bound |-> m.bound]
    BY <2>2, <2>3
  <2> QED BY <2>3, <2>4 DEF SecurityEar
<1>3. listening = {l}
  BY DEF SecurityInv, OneCheck
<1> HIDE DEF m
<1>4. listening' = {m}
  BY <1>1, <1>3
<1>5. SecurityType'
  BY <1>1, <1>2, <1>4 DEF SecurityInv, SecurityType, SecurityCall, SecurityRun, SecurityEar
<1>6. ResultsAreOwn'
  BY <1>1 DEF SecurityInv, ResultsAreOwn
<1>7. OneCheck' /\ SpinnerOn'
  BY <1>1, <1>3, <1>4 DEF SecurityInv, OneCheck, SpinnerOn
<1>8. Turns' /\ Hears'
  BY <1>1, <1>2, <1>3, <1>4 DEF SecurityInv, Turns, Hears
<1> QED BY <1>5, <1>6, <1>7, <1>8 DEF SecurityInv

\* The call ends: its handler is done, or goes on, or waits for an event that
\* it has missed.
LEMMA SecurityEnds ==
    ASSUME SecurityInv, NEW j \in jobs, jobs' = jobs \ {j}, UNCHANGED <<mount, issued>>,
           ResultsAreOwn',
           j.by = "button" => listening' = {},
           j.by # "button" => UNCHANGED loading,
           \/ listening' = {}
              /\ runs' = {IF r.job = j.id THEN Security!Advanced(r) ELSE r : r \in runs}
           \/ UNCHANGED <<listening, runs>>
    PROVE  SecurityInv'
<1>1. jobs = {j} /\ jobs' = {}
  BY DEF SecurityInv, OneCheck
<1>2. CASE runs = {}
  <2>1. runs' = {} /\ listening' = {}
    BY <1>2 DEF SecurityInv, Turns
  <2>2. SecurityType'
    BY <1>1, <2>1 DEF SecurityInv, SecurityType, SecurityCall, SecurityRun, SecurityEar
  <2>3. OneCheck' /\ SpinnerOn' /\ Turns' /\ Hears'
    BY <1>1, <2>1 DEF OneCheck, SpinnerOn, Turns, Hears
  <2> QED BY <2>2, <2>3 DEF SecurityInv
<1>3. CASE runs # {}
  <2>1. PICK r \in runs : runs = {r} /\ SecurityRun(r) /\ r.job = j.id /\ j.by # "button" /\ loading
    BY <1>3 DEF SecurityInv, SecurityType, OneCheck, Turns, SpinnerOn
  <2>2. CASE UNCHANGED <<listening, runs>>
    <3>1. SecurityType'
      BY <1>1, <2>2 DEF SecurityInv, SecurityType, SecurityCall, SecurityRun, SecurityEar
    <3>2. r.job # 0
      BY <2>1 DEF SecurityInv, SecurityType, SecurityCall
    <3>3. OneCheck' /\ SpinnerOn'
      BY <1>1, <2>1, <2>2 DEF SecurityInv, OneCheck, SpinnerOn
    <3>4. Turns' /\ Hears'
      BY <1>1, <2>1, <2>2, <3>2 DEF SecurityInv, Turns, Hears
    <3> QED BY <3>1, <3>3, <3>4 DEF SecurityInv
  <2>3. CASE listening' = {}
               /\ runs' = {IF x.job = j.id THEN Security!Advanced(x) ELSE x : x \in runs}
    <3>1. runs' = {Security!Advanced(r)}
      BY <2>1, <2>3
    <3>2. SecurityRun(Security!Advanced(r)) /\ Security!Advanced(r).job = 0
      BY <2>1, SecurityAdvances
    <3> DEFINE a == Security!Advanced(r)
    <3> HIDE DEF a
    <3>3. runs' = {a} /\ SecurityRun(a) /\ a.job = 0
      BY <3>1, <3>2 DEF a
    <3>4. SecurityType'
      BY <1>1, <2>3, <3>3 DEF SecurityInv, SecurityType, SecurityCall, SecurityRun, SecurityEar
    <3>5. OneCheck' /\ SpinnerOn'
      BY <1>1, <2>1, <2>3, <3>3 DEF OneCheck, SpinnerOn
    <3>6. Turns' /\ Hears'
      BY <1>1, <2>3, <3>3 DEF Turns, Hears
    <3> QED BY <3>4, <3>5, <3>6 DEF SecurityInv
  <2> QED BY <2>2, <2>3
<1> QED BY <1>2, <1>3

LEMMA SecurityRespond ==
    ASSUME SecurityInv, NEW j \in jobs, NEW ok \in BOOLEAN, NEW clean \in BOOLEAN,
           Security!Respond(j, ok, clean)
    PROVE  SecurityInv'
<1>1. /\ jobs' = jobs \ {j} /\ UNCHANGED <<mount, issued>>
      /\ runs' = {IF r.job = j.id THEN Security!Advanced(r) ELSE r : r \in runs}
      /\ listening' = {l \in listening : l.job # j.id}
      /\ \/ shown' = [shown EXCEPT ![j.check] = Security!ResultOf(j, clean)]
         \/ shown' = [shown EXCEPT ![j.check] = None]
         \/ shown' = shown
      /\ loading' = (loading /\ ~(j.by = "button" /\ j.mount = mount))
  BY DEF Security!Respond
<1>2. listening' = {}
  BY <1>1 DEF SecurityInv, Hears
<1>3. Security!ResultOf(j, clean).check = j.check
  BY DEF Security!ResultOf
<1>4. ResultsAreOwn'
  BY <1>1, <1>3 DEF SecurityInv, ResultsAreOwn
<1>5. j.by # "button" => UNCHANGED loading
  <2>1. j.by # "button" => (loading' <=> loading)
    BY <1>1
  <2>2. j.by # "button" => loading
    BY DEF SecurityInv, SpinnerOn
  <2> QED BY <1>1, <2>1, <2>2
<1> QED BY <1>1, <1>2, <1>4, <1>5, SecurityEnds

LEMMA SecurityDone ==
    ASSUME SecurityInv, NEW j \in jobs, NEW ok \in BOOLEAN, NEW clean \in BOOLEAN,
           Security!Done(j, ok, clean)
    PROVE  SecurityInv'
<1> DEFINE hit  == {l \in listening : l.bound}
           mine == {l \in hit : l.mount = mount}
<1>1. /\ jobs' = jobs \ {j} /\ UNCHANGED <<mount, issued>>
      /\ listening' = listening \ hit
      /\ loading' = (loading /\ ~\E l \in mine : l.by = "button")
      /\ runs' = {IF \E l \in hit : l.job = r.job THEN Security!Advanced(r) ELSE r : r \in runs}
      /\ shown' = [c \in Security!Checks |->
                        IF ok /\ \E l \in mine : l.for = c THEN Security!ResultOf(j, clean)
                        ELSE IF \E l \in mine : l.for = c /\ l.by = "all" THEN None
                        ELSE shown[c]]
  BY DEF Security!Done
<1>2. \A l \in hit : l \in listening /\ l.for = j.check /\ l.job = j.id /\ l.by = j.by
  BY DEF SecurityInv, Hears
<1>3. Security!ResultOf(j, clean).check = j.check
  BY DEF Security!ResultOf
<1>4. ResultsAreOwn'
  BY <1>1, <1>2, <1>3 DEF SecurityInv, ResultsAreOwn
<1>5. j.by = "button" => listening' = {}
  BY <1>1 DEF SecurityInv, Hears, SecurityType, SecurityEar
<1>6. j.by # "button" => UNCHANGED loading
  <2>1. j.by # "button" => ~\E l \in mine : l.by = "button"
    BY <1>2
  <2>2. loading
    BY DEF SecurityInv, SpinnerOn
  <2> QED BY <1>1, <2>1, <2>2
<1>7. \A r \in runs : r.job = j.id
  BY DEF SecurityInv, Turns
<1>8. CASE hit = {}
  <2>1. listening' = listening /\ runs' = runs
    BY <1>1, <1>8
  <2> HIDE DEF hit, mine
  <2> QED BY <1>1, <1>4, <1>5, <1>6, <2>1, SecurityEnds
<1>9. CASE hit # {}
  <2>1. PICK l \in hit : l.job = j.id /\ listening = {l}
    BY <1>2, <1>9 DEF SecurityInv, OneCheck
  <2>2. listening' = {}
    BY <1>1, <2>1
  <2>3. \A r \in runs : \E x \in hit : x.job = r.job
    BY <1>7, <2>1
  <2>4. runs' = {IF r.job = j.id THEN Security!Advanced(r) ELSE r : r \in runs}
    BY <1>1, <1>7, <2>3
  <2> HIDE DEF hit, mine
  <2> QED BY <1>1, <1>4, <1>5, <1>6, <2>2, <2>4, SecurityEnds
<1> QED BY <1>8, <1>9

LEMMA SecurityNext == SecurityOnce /\ SecurityInv /\ [Security!Next]_Security!vars => SecurityInv'
<1> SUFFICES ASSUME SecurityOnce, SecurityInv, [Security!Next]_Security!vars PROVE SecurityInv'
  OBVIOUS
<1>1. ASSUME UNCHANGED <<loading, shown, mount, issued, jobs, listening, runs>> PROVE SecurityInv'
  <2>1. SecurityType' /\ ResultsAreOwn'
    BY <1>1 DEF SecurityInv, SecurityType, ResultsAreOwn, SecurityCall, SecurityRun, SecurityEar
  <2>2. OneCheck' /\ SpinnerOn' /\ Turns' /\ Hears'
    BY <1>1 DEF SecurityInv, OneCheck, SpinnerOn, Turns, Hears
  <2> QED BY <2>1, <2>2 DEF SecurityInv
<1>2. UNCHANGED Security!vars \/ (\E p : Security!SetPath(p)) \/ (\E x : Security!SelectTab(x))
        => SecurityInv'
  BY <1>1 DEF Security!vars, Security!SetPath, Security!SelectTab
<1>3. ~Security!Reopen
  BY DEF Security!Reopen, SecurityOnce, Security!SecurityAssumption, SecurityInv, SecurityType
<1>4. RunOrder \in Seq(Security!Checks)
  BY DEF SecurityOnce, Security!SecurityAssumption, Security!Checks
<1>5. \A r : ~Security!Expire(r)
  BY DEF Security!Expire, SecurityOnce
<1>6. Security!GoOn => SecurityInv'
  BY <1>4, <1>5, SecurityNextCheck, SecurityEndRun DEF Security!GoOn
<1>7. \A j : ~Security!TimesOut(j)
  BY DEF Security!TimesOut, SecurityOnce
<1> QED
  BY <1>2, <1>3, <1>6, <1>7, SecurityPress, SecurityPressAll, SecurityBind, SecurityRespond, SecurityDone
     DEF Security!Next

LEMMA SecurityInit == Security!Init => SecurityInv
<1> SUFFICES ASSUME Security!Init PROVE SecurityInv
  OBVIOUS
<1>1. shown = Security!Blank /\ mount = 1 /\ issued = 0 /\ jobs = {} /\ listening = {} /\ runs = {}
  BY DEF Security!Init
<1>2. SecurityType /\ ResultsAreOwn
  BY <1>1 DEF SecurityType, ResultsAreOwn, Security!Blank, SecurityCall, SecurityRun, SecurityEar
<1>3. OneCheck /\ SpinnerOn /\ Turns /\ Hears
  BY <1>1 DEF OneCheck, SpinnerOn, Turns, Hears
<1> QED BY <1>2, <1>3 DEF SecurityInv

\* One evented check runs at a time, and every result on the security page is
\* of the check it stands under: on the first visit, if no call and no check
\* outlives its time-out.
THEOREM ChecksAreOwn ==
    SecurityOnce => (Security!Spec => [](Security!SequentialChecks /\ Security!OwnResult))
<1> SUFFICES ASSUME SecurityOnce
             PROVE  Security!Spec => [](Security!SequentialChecks /\ Security!OwnResult)
  OBVIOUS
<1>1. Security!Init => SecurityInv
  BY SecurityInit
<1>2. SecurityInv /\ [Security!Next]_Security!vars => SecurityInv'
  BY SecurityNext
<1>3. SecurityInv => Security!SequentialChecks
  <2> SUFFICES ASSUME SecurityInv PROVE Security!SequentialChecks
    OBVIOUS
  <2> DEFINE E == {j \in jobs : j.check \in Evented}
  <2>1. E = {} \/ \E j : E = {j}
    BY DEF SecurityInv, OneCheck
  <2>2. Cardinality(E) \in {0, 1}
    BY <2>1, FS_EmptySet, FS_Singleton
  <2> QED BY <2>2, SameChecks DEF Security!SequentialChecks
<1>4. SecurityInv => Security!OwnResult
  BY DEF SecurityInv, ResultsAreOwn, Security!OwnResult, Security!Tone
<1> QED BY <1>1, <1>2, <1>3, <1>4, PTL DEF Security!Spec

SecurityShapes ==
    /\ issued \in Nat
    /\ \A j \in jobs :
         /\ j = [id |-> j.id, check |-> j.check, pkg |-> j.pkg, mount |-> j.mount, by |-> j.by]
         /\ j.id \in Nat /\ j.id # 0 /\ j.id <= issued
    /\ \A j, k \in jobs : j.id = k.id => j = k
    /\ \A r \in runs :
         /\ r = [mount |-> r.mount, pkg |-> r.pkg, step |-> r.step, job |-> r.job]
         /\ r.job \in Nat /\ r.job <= issued
    /\ \A l \in listening :
         l = [job |-> l.job, for |-> l.for, mount |-> l.mount, by |-> l.by, bound |-> l.bound]
\* The call of a button is no call of handleRunAll.
ButtonsApart == \A j \in jobs, r \in runs : j.by = "button" => r.job # j.id
\* The call of a button of this page, which a response or an event ends
ChecksOn(j) ==
    /\ j.by = "button" /\ j.mount = mount
    /\ j.check \in DirectChecks \/ \E l \in listening :
                                l.job = j.id /\ l.mount = mount /\ l.by = "button" /\ l.bound
SpinnerNeeds == loading => (\E j \in jobs : ChecksOn(j)) \/ (\E r \in runs : r.mount = mount)
SecurityWaits == SecurityShapes /\ ButtonsApart /\ SpinnerNeeds

\* A handleRunAll goes on with its next check.
LEMMA SecurityGoesOn ==
    ASSUME NEW r, r = [mount |-> r.mount, pkg |-> r.pkg, step |-> r.step, job |-> r.job]
    PROVE  /\ Security!Advanced(r).mount = r.mount /\ Security!Advanced(r).job = 0
           /\ Security!Advanced(r) = [mount |-> Security!Advanced(r).mount,
                                      pkg |-> Security!Advanced(r).pkg,
                             step |-> Security!Advanced(r).step, job |-> Security!Advanced(r).job]
<1> DEFINE k == [r EXCEPT !.step = @ + 1]
<1>1. k = [mount |-> r.mount, pkg |-> r.pkg, step |-> r.step + 1, job |-> r.job]
  OBVIOUS
<1>2. Security!Advanced(r) = [k EXCEPT !.job = 0]
  BY DEF Security!Advanced
<1> HIDE DEF k
<1>3. Security!Advanced(r) = [mount |-> r.mount, pkg |-> r.pkg, step |-> r.step + 1, job |-> 0]
  BY <1>1, <1>2
<1> HIDE DEF k
<1> QED BY ONLY <1>3

\* What a call adds
LEMMA SecurityAdds ==
    ASSUME SecurityShapes, NEW c, NEW pkg, NEW m, NEW by, NEW bound,
           Security!Issue(c, pkg, m, by, bound)
    PROVE  /\ issued' = issued + 1 /\ issued' \in Nat
           /\ \E j : /\ jobs' = jobs \cup {j} /\ j.id = issued' /\ j.check = c
                     /\ j.mount = m /\ j.by = by
                     /\ j = [id |-> j.id, check |-> j.check, pkg |-> j.pkg,
                             mount |-> j.mount, by |-> j.by]
           /\ \E l : /\ listening' = IF c \in Evented THEN listening \cup {l} ELSE listening
                     /\ l.job = issued' /\ l.mount = m /\ l.by = by /\ l.bound = bound
                     /\ l = [job |-> l.job, for |-> l.for, mount |-> l.mount, by |-> l.by,
                             bound |-> l.bound]
<1> DEFINE j == [id |-> issued', check |-> c, pkg |-> pkg, mount |-> m, by |-> by]
           l == [job |-> issued', for |-> c, mount |-> m, by |-> by, bound |-> bound]
<1>1. issued \in Nat /\ issued' = issued + 1
  BY DEF SecurityShapes, Security!Issue
<1>2. jobs' = jobs \cup {j}
  BY DEF Security!Issue
<1>3. listening' = IF c \in Evented THEN listening \cup {l} ELSE listening
  BY DEF Security!Issue
<1>4. /\ j.id = issued' /\ j.check = c /\ j.mount = m /\ j.by = by
      /\ j = [id |-> j.id, check |-> j.check, pkg |-> j.pkg, mount |-> j.mount, by |-> j.by]
  OBVIOUS
<1>5. /\ l.job = issued' /\ l.mount = m /\ l.by = by /\ l.bound = bound
      /\ l = [job |-> l.job, for |-> l.for, mount |-> l.mount, by |-> l.by, bound |-> l.bound]
  <2>1. PICK t : t = bound
    OBVIOUS
  <2>2. PICK k : k = [job |-> issued', for |-> c, mount |-> m, by |-> by, bound |-> t]
    OBVIOUS
  <2>3. k = l
    BY <2>1, <2>2
  <2>4. k.job = issued' /\ k.mount = m /\ k.by = by /\ k.bound = t
    BY <2>2
  <2>5. k = [job |-> k.job, for |-> k.for, mount |-> k.mount, by |-> k.by, bound |-> k.bound]
    BY <2>2
  <2> QED BY <2>1, <2>3, <2>4, <2>5
<1> HIDE DEF j, l
<1>6. /\ listening' = IF c \in Evented THEN listening \cup {l} ELSE listening
      /\ l.job = issued' /\ l.mount = m /\ l.by = by /\ l.bound = bound
      /\ l = [job |-> l.job, for |-> l.for, mount |-> l.mount, by |-> l.by, bound |-> l.bound]
  BY ONLY <1>3, <1>5
<1>7. \E k : /\ listening' = IF c \in Evented THEN listening \cup {k} ELSE listening
             /\ k.job = issued' /\ k.mount = m /\ k.by = by /\ k.bound = bound
             /\ k = [job |-> k.job, for |-> k.for, mount |-> k.mount, by |-> k.by,
                     bound |-> k.bound]
  BY ONLY <1>6, Zenon
<1>8. \E k : /\ jobs' = jobs \cup {k} /\ k.id = issued' /\ k.check = c
             /\ k.mount = m /\ k.by = by
             /\ k = [id |-> k.id, check |-> k.check, pkg |-> k.pkg,
                     mount |-> k.mount, by |-> k.by]
  BY <1>2, <1>4
<1>9. issued' = issued + 1 /\ issued' \in Nat
  BY <1>1
<1> QED BY ONLY <1>7, <1>8, <1>9, Zenon

\* The shapes after a call, whose run, if any, is among those after it
LEMMA SecurityShapesGrow ==
    ASSUME SecurityShapes, NEW c, NEW pkg, NEW m, NEW by, NEW bound,
           Security!Issue(c, pkg, m, by, bound),
           \A r \in runs' : \/ r \in runs
                            \/ /\ r.job = 0 \/ r.job = issued'
                               /\ r = [mount |-> r.mount, pkg |-> r.pkg,
                                       step |-> r.step, job |-> r.job]
    PROVE  SecurityShapes'
<1>1. issued \in Nat /\ issued' = issued + 1 /\ issued' \in Nat
  BY SecurityAdds DEF SecurityShapes
<1>2. PICK j : /\ jobs' = jobs \cup {j} /\ j.id = issued'
               /\ j = [id |-> j.id, check |-> j.check, pkg |-> j.pkg,
                       mount |-> j.mount, by |-> j.by]
  BY SecurityAdds
<1>3. \A l \in listening' :
         l = [job |-> l.job, for |-> l.for, mount |-> l.mount, by |-> l.by, bound |-> l.bound]
  <2>1. PICK l : /\ listening' = IF c \in Evented THEN listening \cup {l} ELSE listening
                 /\ l = [job |-> l.job, for |-> l.for, mount |-> l.mount, by |-> l.by,
                         bound |-> l.bound]
    BY SecurityAdds
  <2>2. \A k \in listening' : k \in listening \/ k = l
    BY <2>1
  <2> QED BY <2>1, <2>2 DEF SecurityShapes
<1>4. \A k \in jobs' :
         /\ k = [id |-> k.id, check |-> k.check, pkg |-> k.pkg, mount |-> k.mount, by |-> k.by]
         /\ k.id \in Nat /\ k.id # 0 /\ k.id <= issued'
  BY <1>1, <1>2 DEF SecurityShapes
<1>5. \A k, n \in jobs' : k.id = n.id => k = n
  BY <1>1, <1>2 DEF SecurityShapes
<1>6. \A r \in runs' :
         /\ r = [mount |-> r.mount, pkg |-> r.pkg, step |-> r.step, job |-> r.job]
         /\ r.job \in Nat /\ r.job <= issued'
  <2> SUFFICES ASSUME NEW r \in runs'
               PROVE  /\ r = [mount |-> r.mount, pkg |-> r.pkg, step |-> r.step, job |-> r.job]
                      /\ r.job \in Nat /\ r.job <= issued'
    OBVIOUS
  <2>1. CASE r \in runs
    BY <1>1, <2>1 DEF SecurityShapes
  <2>2. CASE r \notin runs
    <3>1. /\ r.job = 0 \/ r.job = issued'
          /\ r = [mount |-> r.mount, pkg |-> r.pkg, step |-> r.step, job |-> r.job]
      BY <2>2
    <3> QED BY <1>1, <3>1
  <2> QED BY <2>1, <2>2
<1> QED BY <1>1, <1>3, <1>4, <1>5, <1>6 DEF SecurityShapes

\* Calls that end, or one that nobody awaits any more
CallsShrink ==
    \/ jobs' \subseteq jobs
    \/ \E j \in jobs : \E k :
         /\ jobs' = (jobs \ {j}) \cup {k} /\ k.id = j.id /\ k.by = j.by
         /\ k = [id |-> k.id, check |-> k.check, pkg |-> k.pkg, mount |-> k.mount, by |-> k.by]

LEMMA SecurityCallsShrink ==
    ASSUME SecurityShapes, UNCHANGED issued, CallsShrink
    PROVE  /\ \A k \in jobs' :
                /\ k = [id |-> k.id, check |-> k.check, pkg |-> k.pkg, mount |-> k.mount,
                        by |-> k.by]
                /\ k.id \in Nat /\ k.id # 0 /\ k.id <= issued'
                /\ \E j \in jobs : k.id = j.id /\ k.by = j.by
           /\ \A k, n \in jobs' : k.id = n.id => k = n
<1>1. CASE jobs' \subseteq jobs
  BY <1>1 DEF SecurityShapes
<1>2. CASE ~(jobs' \subseteq jobs)
  <2>1. PICK j \in jobs : \E k :
           /\ jobs' = (jobs \ {j}) \cup {k} /\ k.id = j.id /\ k.by = j.by
           /\ k = [id |-> k.id, check |-> k.check, pkg |-> k.pkg, mount |-> k.mount, by |-> k.by]
    BY <1>2 DEF CallsShrink
  <2>2. PICK k : /\ jobs' = (jobs \ {j}) \cup {k} /\ k.id = j.id /\ k.by = j.by
                 /\ k = [id |-> k.id, check |-> k.check, pkg |-> k.pkg, mount |-> k.mount,
                         by |-> k.by]
    BY <2>1
  <2>3. \A n \in jobs' : (n \in jobs /\ n # j) \/ n = k
    BY <2>2
  <2>4. \A n \in jobs' : \E i \in jobs : n.id = i.id /\ n.by = i.by
    BY <2>2, <2>3
  <2>5. \A n \in jobs' :
          n = [id |-> n.id, check |-> n.check, pkg |-> n.pkg, mount |-> n.mount, by |-> n.by]
    BY <2>2, <2>3 DEF SecurityShapes
  <2>6. \A n \in jobs' : n.id \in Nat /\ n.id # 0 /\ n.id <= issued'
    BY <2>4 DEF SecurityShapes
  <2>7. \A n, m \in jobs' : n.id = m.id => n = m
    BY <2>2, <2>3 DEF SecurityShapes
  <2> QED BY <2>4, <2>5, <2>6, <2>7
<1> QED BY <1>1, <1>2

\* The shapes when calls end and runs go on
LEMMA SecurityShapesShrink ==
    ASSUME SecurityShapes, UNCHANGED issued, CallsShrink, listening' \subseteq listening,
           \A r \in runs' : r \in runs \/ \E s \in runs : r = Security!Advanced(s)
    PROVE  SecurityShapes'
<1>1. issued \in Nat /\ issued' = issued
  BY DEF SecurityShapes
<1>2. \A r \in runs' :
         /\ r = [mount |-> r.mount, pkg |-> r.pkg, step |-> r.step, job |-> r.job]
         /\ r.job \in Nat /\ r.job <= issued'
  <2> SUFFICES ASSUME NEW r \in runs'
               PROVE  /\ r = [mount |-> r.mount, pkg |-> r.pkg, step |-> r.step, job |-> r.job]
                      /\ r.job \in Nat /\ r.job <= issued'
    OBVIOUS
  <2>1. CASE r \in runs
    BY <1>1, <2>1 DEF SecurityShapes
  <2>2. CASE r \notin runs
    <3>1. PICK s \in runs : r = Security!Advanced(s)
      BY <2>2
    <3>2. /\ r.job = 0
          /\ r = [mount |-> r.mount, pkg |-> r.pkg, step |-> r.step, job |-> r.job]
      BY <3>1, SecurityGoesOn DEF SecurityShapes
    <3> QED BY <1>1, <3>2
  <2> QED BY <2>1, <2>2
<1> QED BY <1>1, <1>2, SecurityCallsShrink DEF SecurityShapes

LEMMA SecurityWaitsPress ==
    ASSUME Security!SecurityAssumption, SecurityWaits, NEW c \in Security!Checks, Security!Press(c)
    PROVE  SecurityWaits'
<1>1. UNCHANGED <<mount, runs>> /\ Security!Issue(c, path, mount, "button", TRUE)
  BY DEF Security!Press
<1>2. SecurityShapes'
  BY <1>1, SecurityShapesGrow DEF SecurityWaits
<1>3. PICK p, m, t : p = path /\ m = mount /\ t = TRUE
  OBVIOUS
<1>4. Security!Issue(c, p, m, "button", t)
  BY <1>1, <1>3
<1>5. PICK j : /\ jobs' = jobs \cup {j} /\ j.id = issued' /\ j.check = c
               /\ j.mount = m /\ j.by = "button"
  BY <1>4, SecurityAdds DEF SecurityWaits
<1>6. PICK l : /\ listening' = IF c \in Evented THEN listening \cup {l} ELSE listening
               /\ l.job = issued' /\ l.mount = m /\ l.by = "button" /\ l.bound = t
  BY <1>4, SecurityAdds DEF SecurityWaits
<1>7. issued \in Nat /\ issued' = issued + 1
  BY <1>4, SecurityAdds DEF SecurityWaits, SecurityShapes
<1>8. ButtonsApart'
  <2>1. \A r \in runs : r.job # issued'
    BY <1>7 DEF SecurityWaits, SecurityShapes
  <2> QED BY <1>1, <1>5, <2>1 DEF SecurityWaits, ButtonsApart
<1>9. ChecksOn(j)'
  <2>1. j.check \in DirectChecks \/ j.check \in Evented
    BY <1>5 DEF Security!Checks
  <2>2. j.check \in Evented
          => l \in listening' /\ l.job = j.id /\ l.mount = mount' /\ l.by = "button" /\ l.bound
    BY <1>1, <1>3, <1>5, <1>6
  <2>3. j.by = "button" /\ j.mount = mount'
    BY <1>1, <1>3, <1>5
  <2> QED BY <2>1, <2>2, <2>3 DEF ChecksOn
<1> QED BY <1>2, <1>5, <1>8, <1>9 DEF SecurityWaits, SpinnerNeeds

LEMMA SecurityWaitsPressAll == ASSUME SecurityWaits, Security!PressAll PROVE SecurityWaits'
<1> DEFINE r == [mount |-> mount, pkg |-> path, step |-> 1, job |-> 0]
<1>1. UNCHANGED <<mount, issued, jobs, listening>> /\ runs' = runs \cup {r}
  BY DEF Security!PressAll
<1>2. /\ r = [mount |-> r.mount, pkg |-> r.pkg, step |-> r.step, job |-> r.job]
      /\ r.job = 0 /\ r.mount = mount
  OBVIOUS
<1> HIDE DEF r
<1>3. SecurityShapes'
  BY <1>1, <1>2 DEF SecurityWaits, SecurityShapes
<1>4. ButtonsApart'
  BY <1>1, <1>2 DEF SecurityWaits, SecurityShapes, ButtonsApart
<1>5. r \in runs' /\ r.mount = mount'
  BY <1>1, <1>2
<1> QED BY <1>3, <1>4, <1>5 DEF SecurityWaits, SpinnerNeeds

LEMMA SecurityWaitsNext ==
    ASSUME SecurityWaits, NEW r \in runs, Security!NextCheck(r) PROVE SecurityWaits'
<1> DEFINE s == [r EXCEPT !.job = issued']
           c == RunOrder[r.step]
<1>1. UNCHANGED <<mount, loading>> /\ Security!Issue(c, r.pkg, r.mount, "all", FALSE)
      /\ runs' = (runs \ {r}) \cup {s}
  BY DEF Security!NextCheck
<1>2. r = [mount |-> r.mount, pkg |-> r.pkg, step |-> r.step, job |-> r.job]
  BY DEF SecurityWaits, SecurityShapes
<1>3. /\ s = [mount |-> s.mount, pkg |-> s.pkg, step |-> s.step, job |-> s.job]
      /\ s.job = issued' /\ s.mount = r.mount
  BY <1>2
<1> HIDE DEF s, c
<1>4. SecurityShapes'
  BY <1>1, <1>3, SecurityShapesGrow DEF SecurityWaits
<1>5. PICK p, m, t : p = r.pkg /\ m = r.mount /\ t = FALSE
  OBVIOUS
<1>6. Security!Issue(c, p, m, "all", t)
  BY <1>1, <1>5
<1>7. PICK j : jobs' = jobs \cup {j} /\ j.id = issued' /\ j.by = "all"
  BY <1>6, SecurityAdds DEF SecurityWaits
<1>8. listening \subseteq listening'
  BY <1>6, SecurityAdds DEF SecurityWaits
<1>9. issued \in Nat /\ issued' = issued + 1
  BY <1>6, SecurityAdds DEF SecurityWaits, SecurityShapes
<1>10. ButtonsApart'
  <2> SUFFICES ASSUME NEW k \in jobs', NEW w \in runs', k.by = "button" PROVE w.job # k.id
    BY DEF ButtonsApart
  <2>1. k \in jobs /\ k.id # issued'
    BY <1>7, <1>9 DEF SecurityWaits, SecurityShapes
  <2>2. w \in runs \/ w.job = issued'
    BY <1>1, <1>3
  <2> QED BY <2>1, <2>2 DEF SecurityWaits, ButtonsApart
<1>11. \A k : ChecksOn(k) => ChecksOn(k)'
  BY <1>1, <1>8 DEF ChecksOn
<1>12. (\E w \in runs : w.mount = mount) => \E w \in runs' : w.mount = mount'
  BY <1>1, <1>3
<1>13. SpinnerNeeds'
  BY <1>1, <1>7, <1>11, <1>12 DEF SecurityWaits, SpinnerNeeds
<1> QED BY <1>4, <1>10, <1>13 DEF SecurityWaits

LEMMA SecurityWaitsExpire ==
    ASSUME SecurityWaits, NEW r \in runs, Security!Expire(r)
    PROVE  SecurityWaits'
<1> DEFINE s == Security!Advanced(r)
<1>1. /\ UNCHANGED <<mount, issued, jobs, loading>>
      /\ runs' = (runs \ {r}) \cup {s}
      /\ listening' = {l \in listening : l.job # r.job}
  BY DEF Security!Expire
<1>2. s.mount = r.mount /\ s.job = 0
  BY SecurityGoesOn DEF SecurityWaits, SecurityShapes
<1>3. \A w \in runs' : w \in runs \/ w = Security!Advanced(r)
  BY <1>1
<1>4. SecurityShapes'
  BY <1>1, <1>3, SecurityShapesShrink DEF SecurityWaits, CallsShrink
<1> HIDE DEF s
<1>5. ButtonsApart'
  BY <1>1, <1>2 DEF SecurityWaits, SecurityShapes, ButtonsApart
<1>6. \A k \in jobs : ChecksOn(k) => ChecksOn(k)'
  BY <1>1 DEF ChecksOn, SecurityWaits, ButtonsApart
<1>7. (\E w \in runs : w.mount = mount) => \E w \in runs' : w.mount = mount'
  BY <1>1, <1>2
<1>8. SpinnerNeeds'
  BY <1>1, <1>6, <1>7 DEF SecurityWaits, SpinnerNeeds
<1> QED BY <1>4, <1>5, <1>8 DEF SecurityWaits

LEMMA SecurityWaitsEndRun ==
    ASSUME SecurityWaits, NEW r \in runs, Security!EndRun(r)
    PROVE  SecurityWaits'
<1>1. /\ UNCHANGED <<mount, issued, jobs, listening>> /\ runs' = runs \ {r}
      /\ loading' => loading /\ r.mount # mount
  BY DEF Security!EndRun
<1>2. SecurityShapes' /\ ButtonsApart'
  BY <1>1, SecurityShapesShrink DEF SecurityWaits, ButtonsApart, CallsShrink
<1>3. \A k \in jobs : ChecksOn(k) => ChecksOn(k)'
  BY <1>1 DEF ChecksOn
<1>4. SpinnerNeeds'
  BY <1>1, <1>3 DEF SecurityWaits, SpinnerNeeds
<1> QED BY <1>2, <1>4 DEF SecurityWaits

LEMMA SecurityWaitsBind ==
    ASSUME SecurityWaits, NEW l \in listening, Security!Bind(l)
    PROVE  SecurityWaits'
<1> DEFINE m == [l EXCEPT !.bound = TRUE]
<1>1. /\ ~l.bound /\ listening' = (listening \ {l}) \cup {m}
      /\ UNCHANGED <<loading, mount, issued, jobs, runs>>
  BY DEF Security!Bind
<1>2. l = [job |-> l.job, for |-> l.for, mount |-> l.mount, by |-> l.by, bound |-> l.bound]
  BY DEF SecurityWaits, SecurityShapes
<1>3. m = [job |-> m.job, for |-> m.for, mount |-> m.mount, by |-> m.by, bound |-> m.bound]
  <2> DEFINE a == l.job
             b == l.for
             n == l.mount
             w == l.by
             z == l.bound
  <2>1. l = [job |-> a, for |-> b, mount |-> n, by |-> w, bound |-> z]
    BY <1>2
  <2> HIDE DEF a, b, n, w, z
  <2>2. PICK t : t = TRUE
    OBVIOUS
  <2>3. m = [l EXCEPT !.bound = t]
    BY <2>2
  <2> HIDE DEF m
  <2>4. m = [job |-> a, for |-> b, mount |-> n, by |-> w, bound |-> t]
    BY <2>1, <2>3
  <2> QED BY ONLY <2>4
<1> HIDE DEF m
<1>4. SecurityShapes'
  BY <1>1, <1>3 DEF SecurityWaits, SecurityShapes
<1>5. ButtonsApart'
  BY <1>1 DEF SecurityWaits, ButtonsApart
<1>6. \A k \in jobs : ChecksOn(k) => ChecksOn(k)'
  BY <1>1 DEF ChecksOn
<1>7. SpinnerNeeds'
  BY <1>1, <1>6 DEF SecurityWaits, SpinnerNeeds
<1> QED BY <1>4, <1>5, <1>7 DEF SecurityWaits

\* Runs that go on stay runs of their page, and leave their call.
LEMMA SecurityWaitsOn ==
    ASSUME SecurityWaits, UNCHANGED <<mount, issued>>,
           CallsShrink, listening' \subseteq listening,
           \E P \in [runs -> BOOLEAN] :
             runs' = {IF P[r] THEN Security!Advanced(r) ELSE r : r \in runs}
    PROVE  /\ SecurityShapes' /\ ButtonsApart'
           /\ (\E w \in runs : w.mount = mount) => \E w \in runs' : w.mount = mount'
<1>1. PICK P \in [runs -> BOOLEAN] : runs' = {IF P[r] THEN Security!Advanced(r) ELSE r : r \in runs}
  OBVIOUS
<1>2. \A r \in runs : Security!Advanced(r).mount = r.mount /\ Security!Advanced(r).job = 0
  BY SecurityGoesOn DEF SecurityWaits, SecurityShapes
<1>3. \A w \in runs' : w \in runs \/ \E r \in runs : w = Security!Advanced(r)
  BY <1>1
<1>4. SecurityShapes'
  BY <1>3, SecurityShapesShrink DEF SecurityWaits
<1>5. ButtonsApart'
  <2> SUFFICES ASSUME NEW j \in jobs', NEW w \in runs', j.by = "button" PROVE w.job # j.id
    BY DEF ButtonsApart
  <2>1. PICK k \in jobs : k.id = j.id /\ k.by = j.by /\ j.id # 0
    BY SecurityCallsShrink DEF SecurityWaits
  <2>2. w \in runs \/ w.job = 0
    BY <1>2, <1>3
  <2> QED BY <2>1, <2>2 DEF SecurityWaits, ButtonsApart
<1>6. ASSUME NEW w \in runs, w.mount = mount PROVE \E k \in runs' : k.mount = mount'
  <2>1. (IF P[w] THEN Security!Advanced(w) ELSE w) \in runs'
    BY <1>1
  <2>2. (IF P[w] THEN Security!Advanced(w) ELSE w).mount = mount
    BY <1>2, <1>6
  <2> QED BY <2>1, <2>2
<1> QED BY <1>4, <1>5, <1>6

LEMMA SecurityWaitsRespond ==
    ASSUME SecurityWaits, NEW j \in jobs, NEW ok \in BOOLEAN, NEW clean \in BOOLEAN,
           Security!Respond(j, ok, clean)
    PROVE  SecurityWaits'
<1>1. /\ jobs' = jobs \ {j} /\ UNCHANGED <<mount, issued>>
      /\ runs' = {IF r.job = j.id THEN Security!Advanced(r) ELSE r : r \in runs}
      /\ listening' = {l \in listening : l.job # j.id}
      /\ loading' => loading /\ ~(j.by = "button" /\ j.mount = mount)
  BY DEF Security!Respond
<1> DEFINE P == [r \in runs |-> r.job = j.id]
<1>2. P \in [runs -> BOOLEAN] /\ runs' = {IF P[r] THEN Security!Advanced(r) ELSE r : r \in runs}
  BY <1>1
<1> HIDE DEF P
<1>3. CallsShrink /\ listening' \subseteq listening
  BY <1>1 DEF CallsShrink
<1>4. /\ SecurityShapes' /\ ButtonsApart'
      /\ (\E w \in runs : w.mount = mount) => \E w \in runs' : w.mount = mount'
  BY <1>1, <1>2, <1>3, SecurityWaitsOn
<1>5. loading' => \A k \in jobs : ChecksOn(k) => k \in jobs' /\ ChecksOn(k)'
  <2> SUFFICES ASSUME loading', NEW k \in jobs, ChecksOn(k) PROVE k \in jobs' /\ ChecksOn(k)'
    OBVIOUS
  <2>1. k # j
    BY <1>1 DEF ChecksOn
  <2>2. k.id # j.id
    BY <2>1 DEF SecurityWaits, SecurityShapes
  <2> QED BY <1>1, <2>1, <2>2 DEF ChecksOn
<1>6. SpinnerNeeds'
  BY <1>1, <1>4, <1>5 DEF SecurityWaits, SpinnerNeeds
<1> QED BY <1>4, <1>6 DEF SecurityWaits

LEMMA SecurityWaitsTimesOut ==
    ASSUME SecurityWaits, NEW j \in jobs, Security!TimesOut(j)
    PROVE  SecurityWaits'
<1> DEFINE k == [j EXCEPT !.mount = 0]
           P == [r \in runs |-> r.job = j.id]
<1>1. /\ jobs' = (jobs \ {j}) \cup {k} /\ UNCHANGED <<mount, issued>>
      /\ runs' = {IF r.job = j.id THEN Security!Advanced(r) ELSE r : r \in runs}
      /\ listening' = {l \in listening : l.job # j.id}
      /\ loading' => loading /\ ~(j.by = "button" /\ j.mount = mount)
  BY DEF Security!TimesOut
<1>2. P \in [runs -> BOOLEAN] /\ runs' = {IF P[r] THEN Security!Advanced(r) ELSE r : r \in runs}
  BY <1>1
<1>3. k = [id |-> j.id, check |-> j.check, pkg |-> j.pkg, mount |-> 0, by |-> j.by]
  BY DEF SecurityWaits, SecurityShapes
<1> HIDE DEF P, k
<1>4. /\ k.id = j.id /\ k.by = j.by
      /\ k = [id |-> k.id, check |-> k.check, pkg |-> k.pkg, mount |-> k.mount, by |-> k.by]
  BY <1>3
<1>5. CallsShrink /\ listening' \subseteq listening
  BY <1>1, <1>4 DEF CallsShrink
<1>6. /\ SecurityShapes' /\ ButtonsApart'
      /\ (\E w \in runs : w.mount = mount) => \E w \in runs' : w.mount = mount'
  BY <1>1, <1>2, <1>5, SecurityWaitsOn
<1>7. loading' => \A n \in jobs : ChecksOn(n) => n \in jobs' /\ ChecksOn(n)'
  <2> SUFFICES ASSUME loading', NEW n \in jobs, ChecksOn(n) PROVE n \in jobs' /\ ChecksOn(n)'
    OBVIOUS
  <2>1. n # j
    BY <1>1 DEF ChecksOn
  <2>2. n.id # j.id
    BY <2>1 DEF SecurityWaits, SecurityShapes
  <2> QED BY <1>1, <2>1, <2>2 DEF ChecksOn
<1>8. SpinnerNeeds'
  BY <1>1, <1>6, <1>7 DEF SecurityWaits, SpinnerNeeds
<1> QED BY <1>6, <1>8 DEF SecurityWaits

LEMMA SecurityWaitsDone ==
    ASSUME Security!SecurityAssumption, SecurityWaits, NEW j \in jobs, NEW ok \in BOOLEAN,
           NEW clean \in BOOLEAN, Security!Done(j, ok, clean)
    PROVE  SecurityWaits'
<1> DEFINE hit  == {l \in listening : l.bound}
           mine == {l \in hit : l.mount = mount}
           P == [r \in runs |-> \E l \in hit : l.job = r.job]
<1>1. /\ j.check \in Evented
      /\ jobs' = jobs \ {j} /\ UNCHANGED <<mount, issued>>
      /\ listening' = listening \ hit
      /\ loading' => loading /\ ~\E l \in mine : l.by = "button"
      /\ runs' = {IF \E l \in hit : l.job = r.job THEN Security!Advanced(r) ELSE r : r \in runs}
  BY DEF Security!Done
<1>2. P \in [runs -> BOOLEAN] /\ runs' = {IF P[r] THEN Security!Advanced(r) ELSE r : r \in runs}
  BY <1>1
<1>3. CallsShrink /\ listening' \subseteq listening
  BY <1>1 DEF CallsShrink
<1>4. loading' => \A k \in jobs : ChecksOn(k) => k \in jobs' /\ ChecksOn(k)'
  <2> SUFFICES ASSUME loading', NEW k \in jobs, ChecksOn(k) PROVE k \in jobs' /\ ChecksOn(k)'
    OBVIOUS
  <2>1. k.check \in DirectChecks
    BY <1>1 DEF ChecksOn
  <2>2. k # j
    BY <1>1, <2>1 DEF Security!SecurityAssumption
  <2> QED BY <1>1, <2>1, <2>2 DEF ChecksOn
<1> HIDE DEF hit, mine, P
<1>5. /\ SecurityShapes' /\ ButtonsApart'
      /\ (\E w \in runs : w.mount = mount) => \E w \in runs' : w.mount = mount'
  BY <1>1, <1>2, <1>3, SecurityWaitsOn
<1>6. SpinnerNeeds'
  BY <1>1, <1>4, <1>5 DEF SecurityWaits, SpinnerNeeds
<1> QED BY <1>5, <1>6 DEF SecurityWaits

\* The spinner of the security page turns only while a call or a handleRunAll
\* of this page is there to end it.
THEOREM SecurityRests == Security!SecurityAssumption => (Security!Spec => []Security!NoStuckLoading)
<1> SUFFICES ASSUME Security!SecurityAssumption PROVE Security!Spec => []Security!NoStuckLoading
  OBVIOUS
<1>1. Security!Init => SecurityWaits
  BY DEF Security!Init, SecurityWaits, SecurityShapes, ButtonsApart, SpinnerNeeds
<1>2. SecurityWaits /\ [Security!Next]_Security!vars => SecurityWaits'
  <2> SUFFICES ASSUME SecurityWaits, [Security!Next]_Security!vars PROVE SecurityWaits'
    OBVIOUS
  <2>1. UNCHANGED Security!vars \/ (\E p : Security!SetPath(p)) \/ (\E x : Security!SelectTab(x))
          => SecurityWaits'
    <3> SUFFICES ASSUME UNCHANGED <<loading, mount, issued, jobs, listening, runs>>
                 PROVE  SecurityWaits'
      BY DEF Security!vars, Security!SetPath, Security!SelectTab
    <3> QED BY DEF SecurityWaits, SecurityShapes, ButtonsApart, SpinnerNeeds, ChecksOn
  <2>2. Security!Reopen => SecurityWaits'
    BY DEF Security!Reopen, SecurityWaits, SecurityShapes, ButtonsApart, SpinnerNeeds
  <2>3. Security!GoOn => SecurityWaits'
    BY SecurityWaitsNext, SecurityWaitsExpire, SecurityWaitsEndRun DEF Security!GoOn
  <2> QED
    BY <2>1, <2>2, <2>3, SecurityWaitsPress, SecurityWaitsPressAll, SecurityWaitsBind,
       SecurityWaitsRespond, SecurityWaitsTimesOut, SecurityWaitsDone
       DEF Security!Next
<1>3. SecurityWaits => Security!NoStuckLoading
  BY DEF SecurityWaits, SpinnerNeeds, Security!NoStuckLoading, Security!Working, ChecksOn
<1> QED BY <1>1, <1>2, <1>3, PTL DEF Security!Spec

\* Of the page opened once it turns exactly while there is one.
THEOREM SpinnerIsExact == SecurityOnce => (Security!Spec => []Security!LoadingExact)
<1> SUFFICES ASSUME SecurityOnce PROVE Security!Spec => []Security!LoadingExact
  OBVIOUS
<1>1. Security!Spec => []Security!NoStuckLoading
  BY SecurityRests DEF SecurityOnce
<1>2. SecurityInv /\ [Security!Next]_Security!vars => SecurityInv'
  BY SecurityNext
<1>3. SecurityInv /\ Security!NoStuckLoading => Security!LoadingExact
  BY DEF SecurityInv, SpinnerOn, Security!NoStuckLoading, Security!LoadingExact, Security!Working
<1> QED BY <1>1, <1>2, <1>3, SecurityInit, PTL DEF Security!Spec

-----------------------------------------------------------------------------
(* The snapshot cards *)

SnapCall(j) ==
    j = [id |-> j.id, op |-> j.op, visit |-> j.visit, done |-> j.done, saw |-> j.saw]

\* The buttons of a card wait for a change of this visit.
SnapWait ==
    /\ \A j \in jobs : SnapCall(j)
    /\ page # None /\ snapBusy => \E j \in jobs : j.op \in Snapshots!Ops /\ j.visit = visit

LEMMA SnapAdds ==
    ASSUME SnapWait, NEW op, NEW v
    PROVE  \E r : Snapshots!Called(op, v) = jobs \cup {r} /\ SnapCall(r) /\ r.op = op /\ r.visit = v
<1> DEFINE r == [id |-> issued + 1, op |-> op, visit |-> v, done |-> FALSE, saw |-> None]
<1>1. Snapshots!Called(op, v) = jobs \cup {r}
  BY DEF Snapshots!Called
<1>2. SnapCall(r) /\ r.op = op /\ r.visit = v
  BY DEF SnapCall
<1> HIDE DEF r
<1> QED BY <1>1, <1>2

\* A card's buttons do not stay off with no change under way.
THEOREM SnapshotsRest == Snapshots!Spec => []Snapshots!NoStuckBusy
<1>1. Snapshots!Init => SnapWait
  BY DEF Snapshots!Init, SnapWait
<1>2. SnapWait /\ [Snapshots!Next]_Snapshots!vars => SnapWait'
  <2> SUFFICES ASSUME SnapWait, [Snapshots!Next]_Snapshots!vars PROVE SnapWait'
    OBVIOUS
  <2>1. CASE UNCHANGED Snapshots!vars \/ Snapshots!Leave \/ Snapshots!ReportsAskRemove
    BY <2>1 DEF Snapshots!vars, Snapshots!Leave, Snapshots!ReportsAskRemove, SnapWait, SnapCall
  <2>2. ASSUME NEW p, Snapshots!Open(p) PROVE SnapWait'
    <3>1. snapBusy' = FALSE /\ \E v : jobs' = Snapshots!Called("snapshot_status", v)
      BY <2>2 DEF Snapshots!Open
    <3>2. PICK r : jobs' = jobs \cup {r} /\ SnapCall(r)
      BY <3>1, SnapAdds
    <3> QED BY <3>1, <3>2 DEF SnapWait, SnapCall
  <2>3. CASE Snapshots!Refresh
    <3>1. UNCHANGED <<page, visit, snapBusy>>
            /\ \E v : jobs' = Snapshots!Called("snapshot_status", v)
      BY <2>3 DEF Snapshots!Refresh
    <3>2. PICK r : jobs' = jobs \cup {r} /\ SnapCall(r)
      BY <3>1, SnapAdds
    <3> QED BY <3>1, <3>2 DEF SnapWait, SnapCall
  <2>4. ASSUME NEW op \in Snapshots!Ops, Snapshots!Change(op) PROVE SnapWait'
    <3>1. UNCHANGED <<page, visit>> /\ \E v : v = visit /\ jobs' = Snapshots!Called(op, v)
      BY <2>4 DEF Snapshots!Change
    <3>2. PICK r : jobs' = jobs \cup {r} /\ SnapCall(r) /\ r.op = op /\ r.visit = visit
      BY <3>1, SnapAdds
    <3> QED BY <3>1, <3>2 DEF SnapWait, SnapCall
  <2>5. ASSUME NEW yes \in BOOLEAN, Snapshots!ReportsAnswer(yes) PROVE SnapWait'
    <3>1. CASE yes
      BY <2>4, <2>5, <3>1 DEF Snapshots!ReportsAnswer, Snapshots!Ops
    <3>2. CASE ~yes
      BY <2>5, <3>2 DEF Snapshots!ReportsAnswer, SnapWait, SnapCall
    <3> QED BY <3>1, <3>2
  <2>6. ASSUME NEW j \in jobs, NEW ok \in BOOLEAN, Snapshots!Work(j, ok) PROVE SnapWait'
    <3>1. PICK w : /\ jobs' = (jobs \ {j}) \cup {[j EXCEPT !.done = TRUE, !.saw = w]}
                   /\ UNCHANGED <<page, visit, snapBusy>>
      BY <2>6 DEF Snapshots!Work
    <3>0. PICK t : t = TRUE
      OBVIOUS
    <3> DEFINE i == [j EXCEPT !.done = t]
               k == [i EXCEPT !.saw = w]
    <3>2. SnapCall(i) /\ i.op = j.op /\ i.visit = j.visit
      BY DEF SnapWait, SnapCall
    <3>3. jobs' = (jobs \ {j}) \cup {k}
      BY <3>0, <3>1
    <3> HIDE DEF i
    <3>4. SnapCall(k) /\ k.op = j.op /\ k.visit = j.visit
      BY <3>2 DEF SnapCall
    <3> HIDE DEF k
    <3> QED BY <3>1, <3>3, <3>4 DEF SnapWait, SnapCall
  <2>7. ASSUME NEW j \in jobs, Snapshots!SnapshotDone(j) PROVE SnapWait'
    <3>1. CASE page = None
      BY <2>7, <3>1 DEF Snapshots!SnapshotDone, SnapWait, SnapCall
    <3>2. CASE page # None
      <4>1. snapBusy' = FALSE /\ \E v : jobs' = Snapshots!Called("snapshot_status", v) \ {j}
        BY <2>7, <3>2 DEF Snapshots!SnapshotDone
      <4>2. PICK v : jobs' = Snapshots!Called("snapshot_status", v) \ {j}
        BY <4>1
      <4>3. PICK r : Snapshots!Called("snapshot_status", v) = jobs \cup {r} /\ SnapCall(r)
        BY SnapAdds
      <4>4. jobs' = (jobs \cup {r}) \ {j}
        BY <4>2, <4>3
      <4> QED BY <4>1, <4>3, <4>4 DEF SnapWait, SnapCall
    <3> QED BY <3>1, <3>2
  <2>8. ASSUME NEW j \in jobs, Snapshots!Refused(j) PROVE SnapWait'
    BY <2>8 DEF Snapshots!Refused, SnapWait, SnapCall
  <2>9. ASSUME NEW j \in jobs, NEW ok \in BOOLEAN, Snapshots!Looked(j, ok) PROVE SnapWait'
    <3>1. j.op \notin Snapshots!Ops /\ jobs' = jobs \ {j} /\ UNCHANGED <<page, visit, snapBusy>>
      BY <2>9 DEF Snapshots!Looked, Snapshots!Ops
    <3> QED BY <3>1 DEF SnapWait, SnapCall
  <2> QED
    BY <2>1, <2>2, <2>3, <2>4, <2>5, <2>6, <2>7, <2>8, <2>9
       DEF Snapshots!Next, Snapshots!ToolsButton, Snapshots!ReportsInstall, Snapshots!Ops
<1>3. SnapWait => Snapshots!NoStuckBusy
  BY DEF SnapWait, Snapshots!NoStuckBusy
<1> QED BY <1>1, <1>2, <1>3, PTL DEF Snapshots!Spec

\* Every call has a number of its own, and the first look is the one that has
\* seen something.
SnapCalls ==
    /\ issued \in Nat
    /\ \A j \in jobs : SnapCall(j) /\ j.id \in Nat /\ j.id <= issued /\ j.done \in BOOLEAN
    /\ \A j, k \in jobs : j.id = k.id => j = k
Look(j) == j.op = "snapshot_status"
SnapFirst == \A j, k \in jobs : Look(j) /\ Look(k) /\ j.done => j.id <= k.id
\* The card is to hear of a change, to look, to be told, or is right.
SnapNews ==
    page # None =>
        \/ \E j \in jobs : j.op \in Snapshots!Ops /\ j.done
        \/ \E j \in jobs : Look(j) /\ j.visit = visit /\ ~j.done
        \/ \E j \in jobs : Look(j) /\ j.visit = visit /\ j.done /\ j.saw = service
        \/ snap = service /\ \A j \in jobs : Look(j) => j.visit # visit
SnapInv == SnapCalls /\ SnapFirst /\ SnapNews

\* The numbers after calls are added and removed
LEMMA SnapAsks ==
    ASSUME SnapInv, NEW op, NEW v, NEW gone, issued' = issued + 1,
           jobs' = Snapshots!Called(op, v) \ gone, gone \subseteq jobs
    PROVE  /\ SnapCalls' /\ SnapFirst'
           /\ \E r : /\ jobs' = (jobs \ gone) \cup {r} /\ r.op = op /\ r.visit = v /\ ~r.done
<1> DEFINE r == [id |-> issued + 1, op |-> op, visit |-> v, done |-> FALSE, saw |-> None]
<1>1. Snapshots!Called(op, v) = jobs \cup {r}
  BY DEF Snapshots!Called
<1>2. SnapCall(r) /\ r.op = op /\ r.visit = v /\ r.id = issued + 1 /\ ~r.done /\ r.done \in BOOLEAN
  BY DEF SnapCall
<1>3. issued \in Nat /\ issued' \in Nat /\ issued' = issued + 1
      /\ \A j \in jobs : j.id \in Nat /\ j.id <= issued
  BY DEF SnapInv, SnapCalls
<1> HIDE DEF r
<1>4. r \notin jobs
  BY <1>2, <1>3
<1>5. jobs' = (jobs \ gone) \cup {r}
  BY <1>1, <1>4
<1>6. SnapCalls'
  BY <1>2, <1>3, <1>5 DEF SnapInv, SnapCalls, SnapCall
<1>7. SnapFirst'
  BY <1>2, <1>3, <1>5 DEF SnapInv, SnapFirst, Look
<1> QED BY <1>2, <1>5, <1>6, <1>7

LEMMA SnapEnds ==
    ASSUME SnapInv, NEW j \in jobs, issued' = issued, jobs' = jobs \ {j}
    PROVE  SnapCalls' /\ SnapFirst'
  BY DEF SnapInv, SnapCalls, SnapCall, SnapFirst, Look

LEMMA SnapWorks ==
    ASSUME SnapInv, ~Rough, NEW j \in jobs, NEW ok \in BOOLEAN, Snapshots!Work(j, ok) PROVE SnapInv'
<1>1. PICK w : /\ jobs' = (jobs \ {j}) \cup {[j EXCEPT !.done = TRUE, !.saw = w]}
               /\ j.op \in Snapshots!Ops \/ w = service
  BY DEF Snapshots!Work
<1>2. /\ UNCHANGED <<page, visit, snap, issued>> /\ ~j.done
      /\ j.op \notin Snapshots!Ops => UNCHANGED service
      /\ Look(j) => \A k \in jobs : Look(k) => j.id <= k.id
  BY DEF Snapshots!Work, Look
<1>3. PICK t : t = TRUE
  OBVIOUS
<1> DEFINE i == [j EXCEPT !.done = t]
           k == [i EXCEPT !.saw = w]
<1>4. SnapCall(i) /\ i.op = j.op /\ i.visit = j.visit /\ i.id = j.id /\ i.done = t
  BY DEF SnapInv, SnapCalls, SnapCall
<1>5. jobs' = (jobs \ {j}) \cup {k}
  BY <1>1, <1>3
<1> HIDE DEF i
<1>6. SnapCall(k) /\ k.op = j.op /\ k.visit = j.visit /\ k.id = j.id /\ k.done = t /\ k.saw = w
  BY <1>4 DEF SnapCall
<1>7. k.done /\ k.done \in BOOLEAN
  BY <1>3, <1>6
<1> HIDE DEF k
<1>8. SnapCalls'
  <2>1. /\ issued' \in Nat /\ \A h \in jobs : SnapCall(h)' /\ h.id \in Nat /\ h.id <= issued'
        /\ \A h \in jobs : h.done \in BOOLEAN
        /\ \A h, l \in jobs : h.id = l.id => h = l
    BY <1>2 DEF SnapInv, SnapCalls, SnapCall
  <2>2. SnapCall(k)' /\ k.id \in Nat /\ k.id <= issued' /\ k.id = j.id
    BY <1>6, <2>1 DEF SnapCall
  <2>3. \A h \in jobs' : h = k \/ (h \in jobs /\ h # j)
    BY <1>5
  <2>4. \A h \in jobs' : SnapCall(h)' /\ h.id \in Nat /\ h.id <= issued' /\ h.done \in BOOLEAN
    BY <1>7, <2>1, <2>2, <2>3
  <2>5. \A h, l \in jobs' : h.id = l.id => h = l
    BY <2>1, <2>2, <2>3
  <2> QED BY <2>1, <2>4, <2>5 DEF SnapCalls
<1>9. SnapFirst'
  BY <1>2, <1>5, <1>6 DEF SnapInv, SnapFirst, Look
<1>10. SnapNews'
  <2>1. CASE j.op \in Snapshots!Ops
    BY <1>5, <1>6, <1>7, <2>1 DEF SnapNews
  <2>2. CASE ~Look(j) /\ j.op \notin Snapshots!Ops
    BY <1>2, <1>5, <1>6, <2>2 DEF SnapInv, SnapNews, Look
  <2>3. CASE Look(j) /\ j.op \notin Snapshots!Ops
    <3>1. w = service /\ UNCHANGED service
      BY <1>1, <1>2, <2>3
    <3>2. CASE j.visit # visit
      BY <1>2, <1>5, <1>6, <2>3, <3>1, <3>2 DEF SnapInv, SnapNews, Look
    <3>3. CASE j.visit = visit
      BY <1>2, <1>5, <1>6, <1>7, <2>3, <3>1, <3>3 DEF SnapNews, Look
    <3> QED BY <3>2, <3>3
  <2> QED BY <2>1, <2>2, <2>3
<1> QED BY <1>8, <1>9, <1>10 DEF SnapInv

LEMMA SnapLooked ==
    ASSUME SnapInv, ~Rough, NEW j \in jobs, NEW ok \in BOOLEAN, Snapshots!Looked(j, ok)
    PROVE  SnapInv'
<1>1. /\ Look(j) /\ j.done /\ jobs' = jobs \ {j} /\ j.op \notin Snapshots!Ops
      /\ UNCHANGED <<page, visit, service, issued>>
      /\ snap' = IF page # None /\ j.visit = visit THEN j.saw ELSE snap
  BY DEF Snapshots!Looked, Look, Snapshots!Ops
<1>2. SnapCalls' /\ SnapFirst'
  BY <1>1, SnapEnds
<1>3. \A k \in jobs : Look(k) /\ k.done => k = j
  BY <1>1 DEF SnapInv, SnapCalls, SnapFirst
<1>4. SnapNews'
  <2> SUFFICES ASSUME page # None PROVE SnapNews'
    BY <1>1 DEF SnapNews
  <2>1. CASE \E k \in jobs : (k.op \in Snapshots!Ops /\ k.done)
               \/ (Look(k) /\ k.visit = visit /\ ~k.done)
    BY <1>1, <2>1 DEF SnapNews
  <2>2. CASE ~\E k \in jobs : (k.op \in Snapshots!Ops /\ k.done)
               \/ (Look(k) /\ k.visit = visit /\ ~k.done)
    <3>1. \A k \in jobs' : Look(k) => k.visit # visit
      BY <1>1, <1>3, <2>2
    <3>2. CASE snap = service /\ \A k \in jobs : Look(k) => k.visit # visit
      BY <1>1, <3>1, <3>2 DEF SnapNews
    <3>3. CASE \E k \in jobs : Look(k) /\ k.visit = visit /\ k.done /\ k.saw = service
      BY <1>1, <1>3, <3>1, <3>3 DEF SnapNews
    <3> QED BY <2>2, <3>2, <3>3 DEF SnapInv, SnapNews
  <2> QED BY <2>1, <2>2
<1> QED BY <1>2, <1>4 DEF SnapInv

\* At rest the card on the screen tells what is installed.
THEOREM SnapshotsTrue == ~Rough => (Snapshots!Spec => []Snapshots!CardTruthful)
<1> SUFFICES ASSUME ~Rough PROVE Snapshots!Spec => []Snapshots!CardTruthful
  OBVIOUS
<1>1. Snapshots!Init => SnapInv
  BY DEF Snapshots!Init, SnapInv, SnapCalls, SnapFirst, SnapNews
<1>2. SnapInv /\ [Snapshots!Next]_Snapshots!vars => SnapInv'
  <2> SUFFICES ASSUME SnapInv, [Snapshots!Next]_Snapshots!vars PROVE SnapInv'
    OBVIOUS
  <2>1. CASE UNCHANGED Snapshots!vars \/ Snapshots!Leave \/ Snapshots!ReportsAskRemove
    BY <2>1
       DEF Snapshots!vars, Snapshots!Leave, Snapshots!ReportsAskRemove, SnapInv, SnapCalls,
           SnapCall, SnapFirst, SnapNews,
                Look
  <2>2. ASSUME NEW p \in Snapshots!Pages, Snapshots!Open(p) PROVE SnapInv'
    <3>1. issued' = issued + 1 /\ \E v : v = visit'
            /\ jobs' = Snapshots!Called("snapshot_status", v) \ {}
      BY <2>2 DEF Snapshots!Open
    <3>2. PICK v : v = visit' /\ jobs' = Snapshots!Called("snapshot_status", v) \ {}
      BY <3>1
    <3>3. SnapCalls' /\ SnapFirst'
          /\ \E r : jobs' = jobs \cup {r} /\ r.op = "snapshot_status" /\ r.visit = v /\ ~r.done
      <4>1. PICK gone : gone = {}
        OBVIOUS
      <4>2. jobs' = Snapshots!Called("snapshot_status", v) \ gone /\ gone \subseteq jobs
        BY <3>2, <4>1
      <4>3. SnapCalls' /\ SnapFirst'
            /\ \E r : jobs' = (jobs \ gone) \cup {r} /\ r.op = "snapshot_status" /\ r.visit = v
               /\ ~r.done
        BY <3>1, <4>2, SnapAsks
      <4> QED BY <4>1, <4>3
    <3> QED BY <3>2, <3>3 DEF SnapInv, SnapNews, Look
  <2>3. CASE Snapshots!Refresh
    <3>1. issued' = issued + 1 /\ UNCHANGED <<page, visit>>
          /\ \E v : v = visit /\ jobs' = Snapshots!Called("snapshot_status", v) \ {}
      BY <2>3 DEF Snapshots!Refresh
    <3>2. PICK v : v = visit /\ jobs' = Snapshots!Called("snapshot_status", v) \ {}
      BY <3>1
    <3>3. SnapCalls' /\ SnapFirst'
          /\ \E r : jobs' = jobs \cup {r} /\ r.op = "snapshot_status" /\ r.visit = v /\ ~r.done
      <4>1. PICK gone : gone = {}
        OBVIOUS
      <4>2. jobs' = Snapshots!Called("snapshot_status", v) \ gone /\ gone \subseteq jobs
        BY <3>2, <4>1
      <4>3. SnapCalls' /\ SnapFirst'
            /\ \E r : jobs' = (jobs \ gone) \cup {r} /\ r.op = "snapshot_status" /\ r.visit = v
               /\ ~r.done
        BY <3>1, <4>2, SnapAsks
      <4> QED BY <4>1, <4>3
    <3> QED BY <3>1, <3>2, <3>3 DEF SnapInv, SnapNews, Look
  <2>4. ASSUME NEW op \in Snapshots!Ops, Snapshots!Change(op) PROVE SnapInv'
    <3>1. issued' = issued + 1 /\ UNCHANGED <<page, visit, snap, service>>
          /\ \E v : v = visit /\ jobs' = Snapshots!Called(op, v) \ {}
      BY <2>4 DEF Snapshots!Change
    <3>2. PICK v : v = visit /\ jobs' = Snapshots!Called(op, v) \ {}
      BY <3>1
    <3>3. SnapCalls' /\ SnapFirst'
          /\ \E r : jobs' = jobs \cup {r} /\ r.op = op /\ r.visit = v /\ ~r.done
      <4>1. PICK gone : gone = {}
        OBVIOUS
      <4>2. jobs' = Snapshots!Called(op, v) \ gone /\ gone \subseteq jobs
        BY <3>2, <4>1
      <4>3. SnapCalls' /\ SnapFirst'
            /\ \E r : jobs' = (jobs \ gone) \cup {r} /\ r.op = op /\ r.visit = v /\ ~r.done
        BY <3>1, <4>2, SnapAsks
      <4> QED BY <4>1, <4>3
    <3>4. op # "snapshot_status"
      BY DEF Snapshots!Ops
    <3>5. SnapNews'
      BY <3>1, <3>3, <3>4 DEF SnapInv, SnapNews, Look
    <3> QED BY <3>3, <3>5 DEF SnapInv
  <2>5. ASSUME NEW yes \in BOOLEAN, Snapshots!ReportsAnswer(yes) PROVE SnapInv'
    <3>1. CASE yes
      BY <2>4, <2>5, <3>1 DEF Snapshots!ReportsAnswer, Snapshots!Ops
    <3>2. CASE ~yes
      BY <2>5, <3>2
         DEF Snapshots!ReportsAnswer, SnapInv, SnapCalls, SnapCall, SnapFirst, SnapNews, Look
    <3> QED BY <3>1, <3>2
  <2>6. ASSUME NEW j \in jobs, Snapshots!SnapshotDone(j) PROVE SnapInv'
    <3>1. CASE page = None
      <4>1. jobs' = jobs \ {j} /\ issued' = issued /\ page' = None
        BY <2>6, <3>1 DEF Snapshots!SnapshotDone
      <4> QED BY <4>1, SnapEnds DEF SnapInv, SnapNews
    <3>2. CASE page # None
      <4>1. issued' = issued + 1 /\ UNCHANGED <<page, visit>>
            /\ \E v : v = visit /\ jobs' = Snapshots!Called("snapshot_status", v) \ {j}
        BY <2>6, <3>2 DEF Snapshots!SnapshotDone
      <4>2. PICK v : v = visit /\ jobs' = Snapshots!Called("snapshot_status", v) \ {j}
        BY <4>1
      <4>3. PICK gone : gone = {j}
        OBVIOUS
      <4>4. SnapCalls' /\ SnapFirst'
            /\ \E r : /\ jobs' = (jobs \ gone) \cup {r} /\ r.op = "snapshot_status"
                      /\ r.visit = v /\ ~r.done
        <5>1. jobs' = Snapshots!Called("snapshot_status", v) \ gone /\ gone \subseteq jobs
          BY <4>2, <4>3
        <5> QED BY <4>1, <5>1, SnapAsks
      <4> QED BY <4>1, <4>2, <4>4 DEF SnapInv, SnapNews, Look
    <3> QED BY <3>1, <3>2
  <2>7. ASSUME NEW j \in jobs, Snapshots!Refused(j) PROVE SnapInv'
    <3>1. /\ j.op # "snapshot_status" /\ ~j.done /\ jobs' = jobs \ {j}
          /\ UNCHANGED <<page, visit, snap, service, issued>>
      BY <2>7 DEF Snapshots!Refused, Snapshots!Ops
    <3> QED BY <3>1, SnapEnds DEF SnapInv, SnapNews, Look
  <2> QED
    BY <2>1, <2>2, <2>3, <2>4, <2>5, <2>6, <2>7, SnapWorks, SnapLooked
       DEF Snapshots!Next, Snapshots!ToolsButton, Snapshots!ReportsInstall, Snapshots!Ops
<1>3. SnapInv => Snapshots!CardTruthful
  BY DEF SnapInv, SnapNews, Snapshots!CardTruthful
<1> QED BY <1>1, <1>2, <1>3, PTL DEF Snapshots!Spec

-----------------------------------------------------------------------------
(* The export page *)

\* The calls are known apart, and whoever listens has one of them.
ExportCalls ==
    /\ issued \in Nat
    /\ \A j \in jobs : /\ j = [id |-> j.id, op |-> j.op, visit |-> j.visit]
                       /\ j.id \in Nat /\ j.id <= issued
    /\ \A j, k \in jobs : j.id = k.id => j = k
ExportEars ==
    /\ \A l \in listening : /\ l = [card |-> l.card, job |-> l.job, visit |-> l.visit]
                            /\ l.card \in Export!Cards
                            /\ \E j \in jobs : j.id = l.job /\ j.op = l.card /\ j.visit = l.visit
ExportTyped ==
    /\ busy = [c \in Export!Cards |-> busy[c]] /\ result = [c \in Export!Cards |-> result[c]]
    /\ flatpaks = [apps |-> flatpaks.apps, loading |-> flatpaks.loading]
\* A busy card listens, and shows no result yet.
ExportBusy ==
    open => \A c \in Export!Cards : busy[c] =>
              result[c] = None /\ \E l \in listening : l.card = c /\ l.visit = visit
ExportLists ==
    (open /\ flatpaks.loading) => \E j \in jobs : j.op = "flatpak_list" /\ j.visit = visit
ExportInv == ExportCalls /\ ExportEars /\ ExportTyped /\ ExportBusy /\ ExportLists

\* What a call adds
LEMMA ExportAdds ==
    ASSUME ExportInv, NEW op, NEW v, Export!Call(op, v)
    PROVE  /\ ExportCalls'
           /\ \E r : jobs' = jobs \cup {r} /\ r.id = issued' /\ r.op = op /\ r.visit = v
<1> DEFINE r == [id |-> issued', op |-> op, visit |-> v]
<1>1. issued \in Nat /\ issued' = issued + 1 /\ jobs' = jobs \cup {r}
  BY DEF ExportInv, ExportCalls, Export!Call
<1>2. /\ r.id = issued' /\ r.op = op /\ r.visit = v
      /\ r = [id |-> r.id, op |-> r.op, visit |-> r.visit]
  OBVIOUS
<1> HIDE DEF r
<1>3. \A j \in jobs : j.id # r.id
  BY <1>1, <1>2 DEF ExportInv, ExportCalls
<1>4. ExportCalls'
  BY <1>1, <1>2, <1>3 DEF ExportInv, ExportCalls
<1> QED BY <1>1, <1>2, <1>4

\* The page is left, or what it shows of the list changes.
LEMMA ExportLook ==
    ASSUME ExportInv, ExportCalls', jobs \subseteq jobs', UNCHANGED <<visit, listening>>,
           open' => open /\ busy' = busy /\ result' = result,
           ExportTyped',
           ExportLists'
    PROVE  ExportInv'
<1>1. ExportEars'
  BY DEF ExportInv, ExportEars
<1>2. ExportBusy'
  BY DEF ExportInv, ExportBusy
<1> QED BY <1>1, <1>2 DEF ExportInv

\* An export begins on a card that rests, or that offers to try again.
LEMMA ExportSubmits ==
    ASSUME ExportInv, NEW c \in Export!Cards, Export!Submit(c), c # "flatpak_list"
    PROVE  ExportInv'
<1>1. /\ open /\ UNCHANGED <<open, visit, flatpaks>>
      /\ busy' = [busy EXCEPT ![c] = TRUE] /\ result' = [result EXCEPT ![c] = None]
  BY DEF Export!Submit, Export!list
<1>2. PICK v : v = visit
  OBVIOUS
<1>3. Export!Call(c, v)
  BY <1>2 DEF Export!Submit
<1>4. ExportCalls'
  BY <1>3, ExportAdds
<1>5. PICK r : jobs' = jobs \cup {r} /\ r.id = issued' /\ r.op = c /\ r.visit = visit
  BY <1>2, <1>3, ExportAdds
<1> DEFINE l == [card |-> c, job |-> issued', visit |-> visit]
<1>6. listening' = listening \cup {l}
  BY DEF Export!Submit, Export!subscribeExportDone
<1>7. /\ l.card = c /\ l.job = issued' /\ l.visit = visit
      /\ l = [card |-> l.card, job |-> l.job, visit |-> l.visit]
  OBVIOUS
<1> HIDE DEF l
<1>8. ExportEars'
  BY <1>5, <1>6, <1>7 DEF ExportInv, ExportEars
<1>9. ExportTyped'
  BY <1>1 DEF ExportInv, ExportTyped
<1>10. ExportBusy'
  <2> SUFFICES ASSUME NEW d \in Export!Cards, busy'[d]
               PROVE  result'[d] = None /\ \E m \in listening' : m.card = d /\ m.visit = visit
    BY <1>1 DEF ExportBusy
  <2>1. CASE d = c
    BY <1>1, <1>6, <1>7, <2>1 DEF ExportInv, ExportTyped
  <2>2. CASE d # c
    BY <1>1, <1>6, <2>2 DEF ExportInv, ExportTyped, ExportBusy
  <2> QED BY <2>1, <2>2
<1>11. ExportLists'
  BY <1>1, <1>5 DEF ExportInv, ExportLists
<1> QED BY <1>4, <1>8, <1>9, <1>10, <1>11 DEF ExportInv

\* An export ends, and nobody listens any more.
LEMMA ExportEnds ==
    ASSUME ExportInv, NEW j \in jobs, jobs' = jobs \ {j}, listening' = {},
           j.op # "flatpak_list", ExportTyped', open => \A c \in Export!Cards : ~busy'[c],
           UNCHANGED <<open, visit, issued, flatpaks>>
    PROVE  ExportInv'
<1>1. ExportCalls' /\ ExportEars'
  BY DEF ExportInv, ExportCalls, ExportEars
<1>2. ExportBusy' /\ ExportLists'
  BY DEF ExportInv, ExportBusy, ExportLists
<1> QED BY <1>1, <1>2 DEF ExportInv

\* The page that is open and busy hears the end of any export.
LEMMA ExportHears ==
    ASSUME ExportInv, open, NEW c \in Export!Cards, busy[c]
    PROVE  \E l \in listening : l.card = c /\ l.visit = visit
BY DEF ExportInv, ExportBusy

LEMMA ExportNext == ExportInv /\ [Export!Next]_Export!vars => ExportInv'
<1> SUFFICES ASSUME ExportInv, [Export!Next]_Export!vars PROVE ExportInv'
  OBVIOUS
<1>0. "flatpak_list" \notin Export!Cards
  BY DEF Export!Cards
<1>1. CASE UNCHANGED Export!vars
  BY <1>1
     DEF Export!vars, Export!list, ExportInv, ExportCalls, ExportEars, ExportTyped, ExportBusy,
         ExportLists
<1>2. CASE Export!Leave \/ Export!Select
  <2>1. /\ UNCHANGED <<jobs, issued, listening, visit, busy, result, flatpaks>>
        /\ open' => open
    BY <1>2 DEF Export!Leave, Export!Select, Export!list
  <2>2. ExportCalls' /\ ExportTyped' /\ ExportLists'
    BY <2>1 DEF ExportInv, ExportCalls, ExportTyped, ExportLists
  <2> QED BY <2>1, <2>2, ExportLook
<1>3. ASSUME NEW force \in BOOLEAN, NEW v, Export!loadFlatpak(force, v)
      PROVE  /\ ExportCalls' /\ jobs \subseteq jobs'
             /\ flatpaks' = [apps |-> flatpaks'.apps, loading |-> flatpaks'.loading]
             /\ flatpaks'.loading => \E j \in jobs' : j.op = "flatpak_list" /\ j.visit = v
  <2>1. CASE ~force /\ flatpakCache # None
    <3>1. /\ flatpaks' = [apps |-> flatpakCache, loading |-> FALSE]
          /\ jobs' = jobs /\ issued' = issued
      BY <1>3, <2>1 DEF Export!loadFlatpak
    <3> QED BY <3>1 DEF ExportInv, ExportCalls
  <2>2. CASE ~(~force /\ flatpakCache # None)
    <3>1. Export!Call("flatpak_list", v) /\ \E a : flatpaks' = [apps |-> a, loading |-> TRUE]
      BY <1>3, <2>2 DEF Export!loadFlatpak
    <3>2. flatpaks' = [apps |-> flatpaks'.apps, loading |-> flatpaks'.loading]
      BY <3>1
    <3>3. ExportCalls'
      BY <3>1, ExportAdds
    <3>4. PICK r : jobs' = jobs \cup {r} /\ r.id = issued' /\ r.op = "flatpak_list" /\ r.visit = v
      BY <3>1, ExportAdds
    <3> QED BY <3>2, <3>3, <3>4
  <2> QED BY <2>1, <2>2
<1>4. CASE Export!Refresh
  <2>1. PICK v : v = visit
    OBVIOUS
  <2>2. Export!loadFlatpak(TRUE, v) /\ UNCHANGED <<open, visit, busy, result, listening>>
    BY <1>4, <2>1 DEF Export!Refresh
  <2>3. /\ ExportCalls' /\ jobs \subseteq jobs'
        /\ flatpaks' = [apps |-> flatpaks'.apps, loading |-> flatpaks'.loading]
        /\ flatpaks'.loading => \E j \in jobs' : j.op = "flatpak_list" /\ j.visit = v
    BY <1>3, <2>2
  <2>4. ExportTyped' /\ ExportLists'
    BY <2>1, <2>2, <2>3 DEF ExportInv, ExportTyped, ExportLists
  <2> QED BY <2>2, <2>3, <2>4, ExportLook
<1>5. CASE Export!Open
  <2>1. PICK v : v = visit'
    OBVIOUS
  <2>2. /\ Export!loadFlatpak(FALSE, v) /\ UNCHANGED listening
        /\ busy' = [c \in Export!Cards |-> FALSE] /\ result' = [c \in Export!Cards |-> None]
    BY <1>5, <2>1 DEF Export!Open
  <2>3. /\ ExportCalls' /\ jobs \subseteq jobs'
        /\ flatpaks' = [apps |-> flatpaks'.apps, loading |-> flatpaks'.loading]
        /\ flatpaks'.loading => \E j \in jobs' : j.op = "flatpak_list" /\ j.visit = v
    BY <1>3, <2>2
  <2>4. ExportTyped' /\ ExportLists' /\ ExportBusy'
    BY <2>1, <2>2, <2>3 DEF ExportTyped, ExportLists, ExportBusy
  <2>5. ExportEars'
    BY <2>2, <2>3 DEF ExportInv, ExportEars
  <2> QED BY <2>3, <2>4, <2>5 DEF ExportInv
<1>6. CASE Export!handleAppimage \/ Export!handleFlatpak \/ Export!handleOci
  BY <1>0, <1>6, ExportSubmits
     DEF Export!handleAppimage, Export!handleFlatpak, Export!handleOci, Export!Cards
<1>7. CASE Export!handleOciExport
  <2>1. Export!Call("oci", 0) /\ UNCHANGED <<open, visit, busy, result, listening, flatpaks>>
    BY <1>7 DEF Export!handleOciExport, Export!list
  <2>2. ExportCalls' /\ jobs \subseteq jobs'
    BY <2>1, ExportAdds
  <2>3. ExportTyped' /\ ExportLists'
    BY <2>1, <2>2 DEF ExportInv, ExportTyped, ExportLists
  <2> QED BY <2>1, <2>2, <2>3, ExportLook
<1>8. ASSUME NEW j \in jobs, NEW ok \in BOOLEAN, Export!ExportDone(j, ok) PROVE ExportInv'
  <2> DEFINE mine == {l.card : l \in {l \in listening : open /\ l.visit = visit}}
  <2>1. /\ j.op \in Export!Cards /\ jobs' = jobs \ {j} /\ listening' = {}
        /\ busy' = [c \in Export!Cards |-> busy[c] /\ c \notin mine]
        /\ result' = [c \in Export!Cards |-> IF c \in mine THEN ok ELSE result[c]]
        /\ UNCHANGED <<open, visit, issued, flatpaks>>
    BY <1>8 DEF Export!ExportDone, Export!list
  <2>2. open => \A c \in Export!Cards : busy[c] => c \in mine
    BY ExportHears
  <2> HIDE DEF mine
  <2>3. open => \A c \in Export!Cards : ~busy'[c]
    BY <2>1, <2>2
  <2>4. ExportTyped'
    BY <2>1 DEF ExportInv, ExportTyped
  <2> QED BY <1>0, <2>1, <2>3, <2>4, ExportEnds
<1>9. ASSUME NEW j \in jobs, Export!ExportFailed(j) PROVE ExportInv'
  <2>1. /\ j.op \in Export!Cards /\ jobs' = jobs \ {j} /\ listening' = {}
        /\ busy' = [c \in Export!Cards |->
                      busy[c] /\ ~(open /\ \E l \in listening : l.card = c /\ l.visit = visit)]
        /\ UNCHANGED <<open, visit, issued, flatpaks, result>>
    BY <1>9 DEF Export!ExportFailed, Export!list
  <2>2. open => \A c \in Export!Cards : ~busy'[c]
    BY <2>1, ExportHears
  <2>3. ExportTyped'
    BY <2>1 DEF ExportInv, ExportTyped
  <2> QED BY <1>0, <2>1, <2>2, <2>3, ExportEnds
<1>10. ASSUME NEW j \in jobs, Export!Refused(j) PROVE ExportInv'
  <2>1. /\ j.op \in Export!Cards /\ jobs' = jobs \ {j}
        /\ listening' = {l \in listening : l.job # j.id}
        /\ UNCHANGED <<open, visit, issued, flatpaks, result>>
    BY <1>10 DEF Export!Refused, Export!list
  <2>2. busy' = IF open /\ j.visit = visit THEN [busy EXCEPT ![j.op] = FALSE] ELSE busy
    BY <1>10 DEF Export!Refused
  <2>3. ExportCalls'
    BY <2>1 DEF ExportInv, ExportCalls
  <2>4. ExportEars'
    BY <2>1 DEF ExportInv, ExportEars, ExportCalls
  <2>5. ExportTyped'
    BY <2>1, <2>2 DEF ExportInv, ExportTyped
  <2>6. ExportLists'
    BY <1>0, <2>1 DEF ExportInv, ExportLists
  <2>7. ExportBusy'
    <3> SUFFICES ASSUME open, NEW c \in Export!Cards, busy'[c]
                 PROVE  result[c] = None /\ \E l \in listening' : l.card = c /\ l.visit = visit
      BY <2>1 DEF ExportBusy
    <3>1. busy[c] /\ ~(j.op = c /\ j.visit = visit)
      BY <2>1, <2>2 DEF ExportInv, ExportTyped
    <3>2. PICK l \in listening : l.card = c /\ l.visit = visit
      BY <3>1, ExportHears
    <3>3. l.job # j.id
      BY <3>1, <3>2 DEF ExportInv, ExportEars, ExportCalls
    <3> QED BY <2>1, <3>1, <3>2, <3>3 DEF ExportInv, ExportBusy
  <2> QED BY <2>3, <2>4, <2>5, <2>6, <2>7 DEF ExportInv
<1>11. ASSUME NEW j \in jobs, NEW ok \in BOOLEAN, NEW a, Export!Listed(j, ok, a) PROVE ExportInv'
  <2>1. /\ j.op = "flatpak_list" /\ jobs' = jobs \ {j}
        /\ UNCHANGED <<open, visit, busy, result, listening, issued>>
    BY <1>11 DEF Export!Listed
  <2>2. \/ ~(open /\ j.visit = visit) /\ flatpaks' = flatpaks
        \/ \E b : flatpaks' = [apps |-> b, loading |-> FALSE]
    BY <1>11 DEF Export!Listed
  <2>3. ExportCalls'
    BY <2>1 DEF ExportInv, ExportCalls
  <2>4. ExportEars'
    BY <1>0, <2>1 DEF ExportInv, ExportEars
  <2>5. ExportTyped'
    BY <2>1, <2>2 DEF ExportInv, ExportTyped
  <2>6. ExportBusy'
    BY <2>1 DEF ExportInv, ExportBusy
  <2>7. ExportLists'
    BY <2>1, <2>2 DEF ExportInv, ExportLists
  <2> QED BY <2>3, <2>4, <2>5, <2>6, <2>7 DEF ExportInv
<1> QED
  BY <1>1, <1>2, <1>4, <1>5, <1>6, <1>7, <1>8, <1>9, <1>10, <1>11 DEF Export!Next

\* No card of the export page is busy with nothing or offers to try again what
\* it waits for, whatever other exports end meanwhile.
THEOREM ExportRests == Export!Spec => [](Export!SpinnersEnd /\ Export!NoRetryWhileBusy)
<1>1. Export!Init => ExportInv
  BY DEF Export!Init, ExportInv, ExportCalls, ExportEars, ExportTyped, ExportBusy, ExportLists
<1>2. ExportInv => Export!SpinnersEnd /\ Export!NoRetryWhileBusy
  BY DEF ExportInv, ExportEars, ExportBusy, ExportLists, Export!SpinnersEnd,
         Export!NoRetryWhileBusy,
     Export!resultBadge
<1> QED BY <1>1, <1>2, ExportNext, PTL DEF Export!Spec

-----------------------------------------------------------------------------
(* The plugins page *)

PluginCall(j) == j = [id |-> j.id, op |-> j.op, name |-> j.name, visit |-> j.visit,
                      saw |-> j.saw, done |-> j.done]
PluginsTyped ==
    /\ \A j \in jobs : PluginCall(j)
    /\ loading = [installed |-> loading.installed, available |-> loading.available]
\* One of the calls of this visit
PluginCalled(op) == \E j \in jobs : j.op = op /\ j.visit = visit
PluginsWait ==
    open => /\ busy \in PluginNames =>
                  \E j \in jobs : j.op \in Plugins!Changes /\ j.name = busy /\ j.visit = visit
            /\ busy = "__audit__" => PluginCalled("audit")
            /\ loading.installed => PluginCalled("list")
            /\ loading.available => PluginCalled("available")

LEMMA PluginAdds ==
    ASSUME NEW op, NEW n, NEW v
    PROVE  \E r : /\ Plugins!Called(op, n, v) = jobs \cup {r} /\ PluginCall(r)
                  /\ r.op = op /\ r.name = n /\ r.visit = v
<1> DEFINE r == [id |-> issued + 1, op |-> op, name |-> n, visit |-> v,
                 saw |-> None, done |-> FALSE]
<1>1. Plugins!Called(op, n, v) = jobs \cup {r}
  BY DEF Plugins!Called
<1>2. PluginCall(r) /\ r.op = op /\ r.name = n /\ r.visit = v
  BY DEF PluginCall
<1> HIDE DEF r
<1> QED BY <1>1, <1>2

\* A call ends, and the list may be looked up again.
LEMMA PluginReloads ==
    ASSUME PluginsTyped, PluginsWait, NEW j \in jobs, "" \notin PluginNames,
           j.op \notin {"list", "available"}, UNCHANGED <<open, visit>>,
           busy' = "" \/ (busy' = busy /\ ~(open /\ j.visit = visit)),
           \/ jobs' = jobs \ {j} /\ loading' = loading
           \/ /\ jobs' = Plugins!Called("list", None, visit) \ {j}
              /\ loading' = [loading EXCEPT !.installed = TRUE]
    PROVE  PluginsTyped' /\ PluginsWait'
<1>1. CASE /\ jobs' = Plugins!Called("list", None, visit) \ {j}
           /\ loading' = [loading EXCEPT !.installed = TRUE]
  <2>0. PICK v : v = visit
    OBVIOUS
  <2>1. PICK r : /\ Plugins!Called("list", None, v) = jobs \cup {r} /\ PluginCall(r)
                 /\ r.op = "list" /\ r.name = None /\ r.visit = v
    <3> DEFINE k == [id |-> issued + 1, op |-> "list", name |-> None, visit |-> v,
                     saw |-> None, done |-> FALSE]
    <3>1. Plugins!Called("list", None, v) = jobs \cup {k}
      BY DEF Plugins!Called
    <3>2. PluginCall(k) /\ k.op = "list" /\ k.name = None /\ k.visit = v
      BY DEF PluginCall
    <3> HIDE DEF k
    <3> QED BY <3>1, <3>2
  <2>2. jobs' = (jobs \cup {r}) \ {j}
    BY <1>1, <2>0, <2>1
  <2>3. j # r
    BY <2>1
  <2>4. /\ loading'.available = loading.available
        /\ loading' = [installed |-> loading'.installed, available |-> loading'.available]
    BY <1>1 DEF PluginsTyped
  <2>5. PluginsTyped'
    BY <2>1, <2>2, <2>4 DEF PluginsTyped, PluginCall
  <2>6. PluginsWait'
    BY <2>0, <2>1, <2>2, <2>3, <2>4 DEF PluginsWait, PluginCalled
  <2> QED BY <2>5, <2>6
<1>2. CASE jobs' = jobs \ {j} /\ loading' = loading
  BY <1>2 DEF PluginsTyped, PluginsWait, PluginCalled, PluginCall
<1> QED BY <1>1, <1>2

\* The plugins page waits for what is under way only, whatever overlapped, was
\* refused or was begun on an earlier visit.
THEOREM PluginsRest == Plugins!PluginsAssumption => (Plugins!Spec => []Plugins!SpinnersEnd)
<1> SUFFICES ASSUME Plugins!PluginsAssumption PROVE Plugins!Spec => []Plugins!SpinnersEnd
  OBVIOUS
<1>0. "" \notin PluginNames /\ "__audit__" \notin PluginNames
  BY DEF Plugins!PluginsAssumption
<1> DEFINE I == PluginsTyped /\ PluginsWait
<1>1. Plugins!Init => I
  BY DEF Plugins!Init, Plugins!Fresh, PluginsTyped, PluginsWait
<1>2. I /\ [Plugins!Next]_Plugins!vars => I'
  <2> SUFFICES ASSUME PluginsTyped, PluginsWait, [Plugins!Next]_Plugins!vars
               PROVE  PluginsTyped' /\ PluginsWait'
    OBVIOUS
  <2>1. CASE UNCHANGED Plugins!vars \/ Plugins!Leave \/ Plugins!SelectInstalled
    BY <2>1
       DEF Plugins!vars, Plugins!Leave, Plugins!SelectInstalled, PluginsTyped, PluginsWait,
           PluginCalled, PluginCall
  <2>2. CASE Plugins!Open
    <3>1. PICK r : /\ Plugins!Called("list", None, visit') = jobs \cup {r} /\ PluginCall(r)
                   /\ r.op = "list" /\ r.name = None /\ r.visit = visit'
      BY PluginAdds
    <3>2. jobs' = jobs \cup {r} /\ loading' = Plugins!Fresh /\ busy' = ""
      BY <2>2, <3>1 DEF Plugins!Open
    <3> QED BY <1>0, <3>1, <3>2
               DEF Plugins!Fresh, PluginsTyped, PluginsWait, PluginCalled, PluginCall
  <2>3. ASSUME Plugins!LoadAvailable, UNCHANGED <<open, visit, busy>>
        PROVE  PluginsTyped' /\ PluginsWait'
    <3>1. PICK r : /\ Plugins!Called("available", None, visit) = jobs \cup {r} /\ PluginCall(r)
                   /\ r.op = "available" /\ r.name = None /\ r.visit = visit
      BY PluginAdds
    <3>2. jobs' = jobs \cup {r} /\ loading' = [loading EXCEPT !.available = TRUE]
      BY <2>3, <3>1 DEF Plugins!LoadAvailable
    <3>3. /\ loading'.installed = loading.installed
          /\ loading' = [installed |-> loading'.installed, available |-> loading'.available]
      BY <3>2 DEF PluginsTyped
    <3>4. PluginsTyped'
      BY <3>1, <3>2, <3>3 DEF PluginsTyped, PluginCall
    <3>5. PluginsWait'
      BY <2>3, <3>1, <3>2, <3>3 DEF PluginsWait, PluginCalled
    <3> QED BY <3>4, <3>5
  <2>4. CASE Plugins!SelectAvailable \/ Plugins!RefreshAvailable
    <3>1. CASE UNCHANGED <<open, visit, busy, loading, jobs>>
      BY <3>1 DEF PluginsTyped, PluginsWait, PluginCalled, PluginCall
    <3> QED BY <2>3, <2>4, <3>1 DEF Plugins!SelectAvailable, Plugins!RefreshAvailable
  <2>5. ASSUME NEW op \in Plugins!Changes, NEW n \in PluginNames, Plugins!Begin(op, n)
        PROVE  PluginsTyped' /\ PluginsWait'
    <3>1. PICK r : /\ Plugins!Called(op, n, visit) = jobs \cup {r} /\ PluginCall(r)
                   /\ r.op = op /\ r.name = n /\ r.visit = visit
      BY PluginAdds
    <3>2. jobs' = jobs \cup {r} /\ busy' = n /\ UNCHANGED <<open, visit, loading>>
      BY <2>5, <3>1 DEF Plugins!Begin
    <3> QED BY <1>0, <3>1, <3>2 DEF PluginsTyped, PluginsWait, PluginCalled, PluginCall
  <2>6. CASE Plugins!handleAudit
    <3>1. PICK r : /\ Plugins!Called("audit", None, visit) = jobs \cup {r} /\ PluginCall(r)
                   /\ r.op = "audit" /\ r.name = None /\ r.visit = visit
      BY PluginAdds
    <3>2. jobs' = jobs \cup {r} /\ busy' = "__audit__" /\ UNCHANGED <<open, visit, loading>>
      BY <2>6, <3>1 DEF Plugins!handleAudit
    <3> QED BY <1>0, <3>1, <3>2 DEF PluginsTyped, PluginsWait, PluginCalled, PluginCall
  <2>7. ASSUME NEW j \in jobs, Plugins!PluginDone(j) PROVE PluginsTyped' /\ PluginsWait'
    <3>1. /\ j.op \notin {"list", "available"} /\ UNCHANGED <<open, visit>>
          /\ busy' = "" \/ (busy' = busy /\ ~(open /\ j.visit = visit))
      BY <2>7 DEF Plugins!PluginDone, Plugins!Threaded
    <3> QED BY <1>0, <2>7, <3>1, PluginReloads DEF Plugins!PluginDone, Plugins!Reload
  <2>8. ASSUME NEW j \in jobs, Plugins!Respond(j) PROVE PluginsTyped' /\ PluginsWait'
    <3>1. /\ j.op \notin {"list", "available"} /\ UNCHANGED <<open, visit>>
          /\ busy' = "" \/ (busy' = busy /\ ~(open /\ j.visit = visit))
      BY <2>8 DEF Plugins!Respond, Plugins!Threaded, Plugins!Here
    <3> QED BY <1>0, <2>8, <3>1, PluginReloads DEF Plugins!Respond, Plugins!Reload
  <2>9. ASSUME NEW j \in jobs, NEW ok \in BOOLEAN, Plugins!Work(j, ok)
        PROVE  PluginsTyped' /\ PluginsWait'
    <3>1. PICK w : /\ jobs' = (jobs \ {j}) \cup {[j EXCEPT !.done = TRUE, !.saw = w]}
                   /\ UNCHANGED <<open, visit, busy, loading>>
      BY <2>9 DEF Plugins!Work
    <3>2. PICK t : t = TRUE
      OBVIOUS
    <3> DEFINE i == [j EXCEPT !.done = t]
               k == [i EXCEPT !.saw = w]
    <3>3. PluginCall(i) /\ i.op = j.op /\ i.name = j.name /\ i.visit = j.visit
      BY DEF PluginsTyped, PluginCall
    <3>4. jobs' = (jobs \ {j}) \cup {k}
      BY <3>1, <3>2
    <3> HIDE DEF i
    <3>5. PluginCall(k) /\ k.op = j.op /\ k.name = j.name /\ k.visit = j.visit
      BY <3>3 DEF PluginCall
    <3> HIDE DEF k
    <3> QED BY <3>1, <3>4, <3>5 DEF PluginsTyped, PluginsWait, PluginCalled, PluginCall
  <2>10. ASSUME NEW j \in jobs, NEW ok \in BOOLEAN, Plugins!Listed(j, ok)
         PROVE  PluginsTyped' /\ PluginsWait'
    <3>1. /\ j.op \in {"list", "available"} /\ jobs' = jobs \ {j}
          /\ UNCHANGED <<open, visit, busy>>
      BY <2>10 DEF Plugins!Listed
    <3>2. CASE ~Plugins!Here(j)
      <4>1. loading' = loading
        BY <2>10, <3>2 DEF Plugins!Listed
      <4> QED BY <3>1, <3>2, <4>1
                 DEF PluginsTyped, PluginsWait, PluginCalled, PluginCall, Plugins!Here,
                     Plugins!Changes, Plugins!Threaded
    <3>3. CASE Plugins!Here(j) /\ j.op = "list"
      <4>1. loading' = [loading EXCEPT !.installed = FALSE]
        BY <2>10, <3>3 DEF Plugins!Listed
      <4>2. /\ ~loading'.installed /\ loading'.available = loading.available
            /\ loading' = [installed |-> loading'.installed, available |-> loading'.available]
        BY <4>1 DEF PluginsTyped
      <4> QED BY <3>1, <3>3, <4>2
                 DEF PluginsTyped, PluginsWait, PluginCalled, PluginCall, Plugins!Here,
                     Plugins!Changes, Plugins!Threaded
    <3>4. CASE Plugins!Here(j) /\ j.op # "list"
      <4>1. loading' = [loading EXCEPT !.available = FALSE]
        BY <2>10, <3>4 DEF Plugins!Listed
      <4>2. /\ ~loading'.available /\ loading'.installed = loading.installed
            /\ loading' = [installed |-> loading'.installed, available |-> loading'.available]
        BY <4>1 DEF PluginsTyped
      <4> QED BY <3>1, <3>4, <4>2
                 DEF PluginsTyped, PluginsWait, PluginCalled, PluginCall, Plugins!Here,
                     Plugins!Changes, Plugins!Threaded
    <3> QED BY <3>2, <3>3, <3>4
  <2> QED
    BY <2>1, <2>2, <2>4, <2>5, <2>6, <2>7, <2>8, <2>9, <2>10
       DEF Plugins!Next, Plugins!handleInstall, Plugins!handleUninstall, Plugins!handleUpdate,
           Plugins!Changes, Plugins!Threaded
<1>3. I => Plugins!SpinnersEnd
  BY DEF PluginsWait, PluginCalled, Plugins!SpinnersEnd
<1> QED BY <1>1, <1>2, <1>3, PTL DEF Plugins!Spec

\* Every call has a number of its own and a visit it is of; the first list is
\* the one that is read.
PluginEntry(j) ==
    /\ PluginCall(j) /\ j.id \in Nat /\ j.id <= issued /\ j.done \in BOOLEAN
    /\ j.visit \in Nat /\ j.visit # 0 /\ j.visit <= visit
    /\ j.op \in Plugins!Changes => j.name \in PluginNames
PluginCalls ==
    /\ issued \in Nat /\ visit \in Nat /\ (open => visit # 0) /\ disk \subseteq PluginNames
    /\ \A j \in jobs : PluginEntry(j)
    /\ \A j, k \in jobs : j.id = k.id => j = k
PluginFirst == \A j, k \in jobs : j.op = "list" /\ k.op = "list" /\ j.done => j.id <= k.id
\* A change after which this page looks its list up
PluginReport(j) == /\ j.done /\ j.saw # None
                   /\ j.op \in Plugins!Threaded \/ (j.op = "uninstall" /\ j.visit = visit)
Covers(s) == disk \subseteq s /\ (visit = 1 => s = disk)
\* The page is to hear of a change, to read its list, to be told, or is right.
PluginNews ==
    open =>
        \/ \E j \in jobs : PluginReport(j)
        \/ \E j \in jobs : j.op = "list" /\ j.visit = visit /\ ~j.done
        \/ \E j \in jobs : j.op = "list" /\ j.visit = visit /\ j.done /\ Covers(j.saw)
        \/ Covers(installed) /\ \A j \in jobs : j.op = "list" => j.visit # visit
PluginsInv == PluginCalls /\ PluginFirst /\ PluginNews

\* The numbers after calls are added and removed
LEMMA PluginAsks ==
    ASSUME PluginsInv, NEW op, NEW n, NEW v, NEW gone, issued' = issued + 1,
           disk' = disk, visit' \in Nat, visit <= visit', open' => visit' # 0,
           v \in Nat, v # 0, v <= visit', op \in Plugins!Changes => n \in PluginNames,
           jobs' = Plugins!Called(op, n, v) \ gone, gone \subseteq jobs
    PROVE  /\ PluginCalls' /\ PluginFirst'
           /\ \E r : /\ jobs' = (jobs \ gone) \cup {r} /\ r.op = op /\ r.visit = v /\ ~r.done
<1>1. PICK r : /\ Plugins!Called(op, n, v) = jobs \cup {r}
               /\ PluginCall(r) /\ r.op = op /\ r.name = n /\ r.visit = v /\ r.id = issued + 1
               /\ ~r.done /\ r.done \in BOOLEAN
  <2> DEFINE r == [id |-> issued + 1, op |-> op, name |-> n, visit |-> v,
                   saw |-> None, done |-> FALSE]
  <2>1. Plugins!Called(op, n, v) = jobs \cup {r}
    BY DEF Plugins!Called
  <2>2. /\ PluginCall(r) /\ r.op = op /\ r.name = n /\ r.visit = v /\ r.id = issued + 1
        /\ ~r.done /\ r.done \in BOOLEAN
    BY DEF PluginCall
  <2> HIDE DEF r
  <2> QED BY <2>1, <2>2
<1>2. /\ PluginCall(r) /\ r.op = op /\ r.name = n /\ r.visit = v /\ r.id = issued + 1
      /\ ~r.done /\ r.done \in BOOLEAN
  BY <1>1
<1>3. issued \in Nat /\ issued' \in Nat /\ issued' = issued + 1 /\ visit \in Nat
      /\ \A j \in jobs : j.id \in Nat /\ j.id <= issued
  BY DEF PluginsInv, PluginCalls, PluginEntry
<1>4. r \notin jobs
  BY <1>2, <1>3
<1>5. jobs' = (jobs \ gone) \cup {r}
  BY <1>1, <1>4
<1>6. PluginEntry(r)'
  BY <1>2, <1>3 DEF PluginEntry, PluginCall
<1>7. \A j \in jobs : PluginEntry(j)'
  <2> SUFFICES ASSUME NEW j \in jobs PROVE PluginEntry(j)'
    OBVIOUS
  <2>1. PluginEntry(j)
    BY DEF PluginsInv, PluginCalls
  <2>2. j.id <= issued' /\ j.visit <= visit'
    BY <1>3, <2>1 DEF PluginEntry
  <2> QED BY <2>1, <2>2 DEF PluginEntry, PluginCall
<1>8. PluginCalls'
  <2>1. \A j, k \in jobs' : j.id = k.id => j = k
    BY <1>2, <1>3, <1>5 DEF PluginsInv, PluginCalls
  <2>2. \A j \in jobs' : PluginEntry(j)'
    BY <1>5, <1>6, <1>7
  <2> QED BY <1>3, <2>1, <2>2 DEF PluginsInv, PluginCalls
<1>9. PluginFirst'
  BY <1>2, <1>3, <1>5 DEF PluginsInv, PluginFirst
<1> QED BY <1>2, <1>5, <1>8, <1>9

LEMMA PluginEnds ==
    ASSUME PluginsInv, NEW j \in jobs, UNCHANGED <<issued, visit, open, disk>>, jobs' = jobs \ {j}
    PROVE  PluginCalls' /\ PluginFirst'
  BY DEF PluginsInv, PluginCalls, PluginEntry, PluginCall, PluginFirst

\* The list is looked up again, or need not be.
LEMMA PluginTells ==
    ASSUME PluginsInv, NEW j \in jobs, NEW p \in BOOLEAN, Plugins!Reload(j, p), j.op # "list",
           UNCHANGED <<open, visit, installed, disk>>,
           open /\ PluginReport(j) => p,
           p => open
    PROVE  PluginsInv'
<1>1. CASE p /\ j.saw # None
  <2>1. issued' = issued + 1 /\ open
    BY <1>1 DEF Plugins!Reload
  <2>2. PICK v, n, gone : v = visit /\ n = None /\ gone = {j}
    OBVIOUS
  <2>3. jobs' = Plugins!Called("list", n, v) \ gone /\ gone \subseteq jobs
    BY <1>1, <2>2 DEF Plugins!Reload
  <2>4. visit' \in Nat /\ visit <= visit' /\ (open' => visit' # 0) /\ v \in Nat /\ v # 0
          /\ v <= visit'
    BY <2>1, <2>2 DEF PluginsInv, PluginCalls
  <2>5. "list" \notin Plugins!Changes
    BY DEF Plugins!Changes, Plugins!Threaded
  <2>6. /\ PluginCalls' /\ PluginFirst'
        /\ \E r : jobs' = (jobs \ gone) \cup {r} /\ r.op = "list" /\ r.visit = v /\ ~r.done
    BY <2>1, <2>3, <2>4, <2>5, PluginAsks
  <2> QED BY <2>2, <2>6 DEF PluginsInv, PluginNews
<1>2. CASE ~(p /\ j.saw # None)
  <2>1. jobs' = jobs \ {j} /\ issued' = issued
    BY <1>2 DEF Plugins!Reload
  <2>2. open => ~PluginReport(j)
    BY <1>2 DEF PluginReport
  <2>3. PluginNews'
    BY <2>1, <2>2 DEF PluginsInv, PluginNews, PluginReport, Covers
  <2> QED BY <2>1, <2>3, PluginEnds DEF PluginsInv
<1> QED BY <1>1, <1>2

LEMMA PluginWorks ==
    ASSUME Plugins!PluginsAssumption, ~Rough, PluginsInv, NEW j \in jobs, NEW ok \in BOOLEAN,
           Plugins!Work(j, ok)
    PROVE  PluginsInv'
<1>1. PICK w : /\ jobs' = (jobs \ {j}) \cup {[j EXCEPT !.done = TRUE, !.saw = w]}
               /\ j.op = "list" \/ (j.op \in Plugins!Changes /\ ok) => w = disk'
  BY DEF Plugins!Work
<1>2. /\ UNCHANGED <<open, visit, installed, issued>> /\ ~j.done
      /\ j.op = "list" => \A k \in jobs : k.op = "list" => j.id <= k.id
  BY DEF Plugins!Work
<1>3. PICK t : t = TRUE
  OBVIOUS
<1> DEFINE i == [j EXCEPT !.done = t]
<1>4. PluginEntry(j)
  BY DEF PluginsInv, PluginCalls
<1>5. /\ PluginCall(i) /\ i.op = j.op /\ i.name = j.name /\ i.visit = j.visit /\ i.id = j.id
      /\ i.done = t
  BY <1>4 DEF PluginEntry, PluginCall
<1>6. PICK k : k = [i EXCEPT !.saw = w] /\ jobs' = (jobs \ {j}) \cup {k}
  BY <1>1, <1>3
<1> HIDE DEF i
<1>7. /\ PluginCall(k) /\ k.op = j.op /\ k.name = j.name /\ k.visit = j.visit /\ k.id = j.id
      /\ k.done = t /\ k.saw = w
  BY <1>5, <1>6 DEF PluginCall
<1>8. k.done /\ k.done \in BOOLEAN
  BY <1>3, <1>7
<1>9. disk' \subseteq PluginNames /\ disk' # None
  <2>1. disk' \subseteq PluginNames
    BY <1>4
       DEF Plugins!Work, PluginsInv, PluginCalls, PluginEntry, Plugins!Changes, Plugins!Threaded
  <2>2. None \notin SUBSET PluginNames
    BY DEF Plugins!PluginsAssumption
  <2> QED BY <2>1, <2>2
<1>10. PluginCalls'
  <2>1. \A h \in jobs' : h = k \/ (h \in jobs /\ h # j)
    BY <1>6
  <2>2. \A h \in jobs : PluginEntry(h)'
    BY <1>2 DEF PluginsInv, PluginCalls, PluginEntry, PluginCall
  <2>3. PluginEntry(k)'
    BY <1>2, <1>4, <1>7, <1>8 DEF PluginEntry, PluginCall
  <2>4. \A h, l \in jobs : h.id = l.id => h = l
    BY DEF PluginsInv, PluginCalls
  <2>5. \A h, l \in jobs' : h.id = l.id => h = l
    BY <1>7, <2>1, <2>4
  <2> QED BY <1>2, <1>9, <2>1, <2>2, <2>3, <2>5 DEF PluginsInv, PluginCalls
<1>11. PluginFirst'
  <2>1. \A h \in jobs' : h = k \/ (h \in jobs /\ h # j)
    BY <1>6
  <2>2. \A h, l \in jobs : h.op = "list" /\ l.op = "list" /\ h.done => h.id <= l.id
    BY DEF PluginsInv, PluginFirst
  <2>3. k.op = "list" => \A h \in jobs : h.op = "list" => k.id <= h.id
    BY <1>2, <1>7
  <2>4. k.id \in Nat
    BY <1>4, <1>7 DEF PluginEntry
  <2> SUFFICES ASSUME NEW h \in jobs', NEW l \in jobs', h.op = "list", l.op = "list", h.done
               PROVE  h.id <= l.id
    BY DEF PluginFirst
  <2>5. CASE h = k
    BY <2>1, <2>3, <2>4, <2>5
  <2>6. CASE h # k
    BY <1>4, <1>7, <2>1, <2>2, <2>6 DEF PluginEntry
  <2> QED BY <2>5, <2>6
<1>12. PluginNews'
  <2> SUFFICES ASSUME open PROVE PluginNews'
    BY <1>2 DEF PluginNews
  <2>1. CASE ok /\ (j.op \in Plugins!Threaded \/ (j.op = "uninstall" /\ j.visit = visit))
    <3>1. k.saw = disk' /\ k.saw # None
      BY <1>1, <1>7, <1>9, <2>1 DEF Plugins!Changes
    <3>2. PluginReport(k)'
      BY <1>2, <1>7, <1>8, <2>1, <3>1 DEF PluginReport
    <3> QED BY <1>6, <3>2 DEF PluginNews
  <2>2. CASE ok /\ j.op = "uninstall" /\ j.visit # visit
    <3>1. disk' \subseteq disk /\ j.op # "list" /\ visit # 1
      <4>1. disk' \subseteq disk
        BY <2>2 DEF Plugins!Work
      <4>2. visit # 1
        BY <1>4, <2>2 DEF PluginEntry, PluginsInv, PluginCalls
      <4> QED BY <2>2, <4>1, <4>2
    <3>2. \A s : Covers(s) => Covers(s)'
      BY <1>2, <3>1 DEF Covers
    <3>3. \A h : h # j /\ PluginReport(h) => PluginReport(h)'
      BY <1>2 DEF PluginReport
    <3>4. ~PluginReport(j)
      BY <1>2 DEF PluginReport
    <3> QED BY <1>2, <1>6, <1>7, <3>1, <3>2, <3>3, <3>4 DEF PluginsInv, PluginNews
  <2>3. CASE ~ok \/ j.op \notin Plugins!Changes
    <3>1. disk' = disk
      BY <2>3 DEF Plugins!Work, Plugins!Changes, Plugins!Threaded
    <3>2. /\ \A s : Covers(s) <=> Covers(s)'
          /\ \A h : PluginReport(h) <=> PluginReport(h)'
          /\ ~PluginReport(j)
      BY <1>2, <3>1 DEF Covers, PluginReport
    <3>3. CASE j.op = "list" /\ j.visit = visit
      <4>1. Covers(k.saw)'
        BY <1>1, <1>7, <3>1, <3>3 DEF Covers
      <4> QED BY <1>2, <1>6, <1>7, <1>8, <3>3, <4>1 DEF PluginNews
    <3>4. CASE j.op # "list" \/ j.visit # visit
      BY <1>2, <1>6, <1>7, <3>2, <3>4 DEF PluginsInv, PluginNews
    <3> QED BY <3>3, <3>4
  <2> QED BY <2>1, <2>2, <2>3 DEF Plugins!Changes
<1> QED BY <1>10, <1>11, <1>12 DEF PluginsInv

LEMMA PluginListed ==
    ASSUME PluginsInv, ~Rough, NEW j \in jobs, NEW ok \in BOOLEAN, Plugins!Listed(j, ok)
    PROVE  PluginsInv'
<1>1. /\ j.op \in {"list", "available"} /\ j.done /\ jobs' = jobs \ {j} /\ ok
      /\ UNCHANGED <<open, visit, disk, issued>>
  BY DEF Plugins!Listed
<1>2. PluginCalls' /\ PluginFirst'
  BY <1>1, PluginEnds
<1>3. \A k \in jobs : j.op = "list" /\ k.op = "list" /\ k.done => k = j
  BY <1>1 DEF PluginsInv, PluginCalls, PluginEntry, PluginFirst
<1>4. /\ \A s : Covers(s) <=> Covers(s)'
      /\ \A h : PluginReport(h) <=> PluginReport(h)'
      /\ ~PluginReport(j)
  BY <1>1 DEF Covers, PluginReport, Plugins!Threaded
<1>5. CASE j.op = "available" \/ ~Plugins!Here(j)
  <2>1. installed' = installed
    BY <1>5 DEF Plugins!Listed, Plugins!Here
  <2> QED BY <1>1, <1>2, <1>4, <1>5, <2>1 DEF PluginsInv, PluginNews, Plugins!Here
<1>6. CASE j.op = "list" /\ Plugins!Here(j)
  <2>1. installed' = j.saw /\ open /\ j.visit = visit
    BY <1>1, <1>6 DEF Plugins!Listed, Plugins!Here
  <2>2. CASE \E k \in jobs : PluginReport(k) \/ (k.op = "list" /\ k.visit = visit /\ ~k.done)
    BY <1>1, <1>2, <1>4, <2>2 DEF PluginsInv, PluginNews
  <2>3. CASE ~\E k \in jobs : PluginReport(k) \/ (k.op = "list" /\ k.visit = visit /\ ~k.done)
    <3>1. \A k \in jobs' : k.op = "list" => k.visit # visit
      BY <1>1, <1>3, <1>6, <2>3
    <3>2. \E k \in jobs : k.op = "list" /\ k.visit = visit /\ k.done /\ Covers(k.saw)
      BY <1>6, <2>1, <2>3 DEF PluginsInv, PluginNews
    <3>3. Covers(j.saw)
      BY <1>3, <1>6, <3>2
    <3> QED BY <1>1, <1>2, <1>4, <2>1, <3>1, <3>3 DEF PluginsInv, PluginNews
  <2> QED BY <2>2, <2>3
<1> QED BY <1>1, <1>5, <1>6

\* At rest the first tab lists what is installed, and of what an earlier visit
\* removed at most something too much.
THEOREM PluginsTrue ==
    Plugins!PluginsAssumption /\ ~Rough => (Plugins!Spec => []Plugins!ListTruthful)
<1> SUFFICES ASSUME Plugins!PluginsAssumption, ~Rough PROVE Plugins!Spec => []Plugins!ListTruthful
  OBVIOUS
<1>1. Plugins!Init => PluginsInv
  <2>1. Plugins!Init
          => open = FALSE /\ visit = 0 /\ issued = 0 /\ jobs = {} /\ disk \subseteq PluginNames
    BY DEF Plugins!Init
  <2> QED BY <2>1 DEF PluginsInv, PluginCalls, PluginFirst, PluginNews
<1>2. PluginsInv /\ [Plugins!Next]_Plugins!vars => PluginsInv'
  <2> SUFFICES ASSUME PluginsInv, [Plugins!Next]_Plugins!vars PROVE PluginsInv'
    OBVIOUS
  <2>1. ASSUME UNCHANGED <<visit, installed, disk, issued, jobs>>, open' => open PROVE PluginsInv'
    <3>1. PluginCalls'
      BY <2>1 DEF PluginsInv, PluginCalls, PluginEntry, PluginCall
    <3>2. PluginFirst'
      BY <2>1 DEF PluginsInv, PluginFirst
    <3>3. PluginNews'
      BY <2>1 DEF PluginsInv, PluginNews, PluginReport, Covers
    <3> QED BY <3>1, <3>2, <3>3 DEF PluginsInv
  <2>2. UNCHANGED Plugins!vars \/ Plugins!Leave \/ Plugins!SelectInstalled => PluginsInv'
    BY <2>1 DEF Plugins!vars, Plugins!Leave, Plugins!SelectInstalled
  <2>3. ASSUME NEW op, NEW n, NEW v, jobs' = Plugins!Called(op, n, v), issued' = issued + 1,
               disk' = disk,
               \/ visit' = visit + 1 /\ v = visit' /\ op = "list"
               \/ open /\ open' /\ visit' = visit /\ v = visit /\ installed' = installed
                  /\ (op \in Plugins!Changes => n \in PluginNames)
        PROVE  PluginsInv'
    <3>1. PICK gone : gone = {}
      OBVIOUS
    <3>2. jobs' = Plugins!Called(op, n, v) \ gone /\ gone \subseteq jobs
      BY <2>3, <3>1
    <3>3. /\ visit' \in Nat /\ visit <= visit' /\ (open' => visit' # 0)
          /\ v \in Nat /\ v # 0 /\ v <= visit' /\ (op \in Plugins!Changes => n \in PluginNames)
      BY <2>3 DEF PluginsInv, PluginCalls, Plugins!Changes, Plugins!Threaded
    <3>4. /\ PluginCalls' /\ PluginFirst'
          /\ \E r : jobs' = (jobs \ gone) \cup {r} /\ r.op = op /\ r.visit = v /\ ~r.done
      BY <2>3, <3>2, <3>3, PluginAsks
    <3>5. PICK r : jobs' = jobs \cup {r} /\ r.op = op /\ r.visit = v /\ ~r.done
      BY <3>1, <3>4
    <3>6. PluginNews'
      <4>1. CASE op = "list"
        BY <2>3, <3>5, <4>1 DEF PluginNews
      <4>2. CASE op # "list"
        <5>1. /\ open /\ UNCHANGED <<visit, installed, disk>>
          BY <2>3, <4>2
        <5> QED BY <3>5, <4>2, <5>1 DEF PluginsInv, PluginNews, PluginReport, Covers
      <4> QED BY <4>1, <4>2
    <3> QED BY <3>4, <3>6 DEF PluginsInv
  <2>4. CASE Plugins!Open
    <3>1. PICK v, n : v = visit' /\ n = None
      OBVIOUS
    <3>2. jobs' = Plugins!Called("list", n, v) /\ issued' = issued + 1 /\ disk' = disk
            /\ visit' = visit + 1
      BY <2>4, <3>1 DEF Plugins!Open
    <3> QED BY <2>3, <3>1, <3>2
  <2>5. ASSUME open, open', UNCHANGED <<visit, installed, disk>>, Plugins!LoadAvailable
        PROVE  PluginsInv'
    <3>1. PICK v, n : v = visit /\ n = None
      OBVIOUS
    <3>2. jobs' = Plugins!Called("available", n, v) /\ issued' = issued + 1
            /\ "available" \notin Plugins!Changes
      BY <2>5, <3>1 DEF Plugins!LoadAvailable, Plugins!Changes, Plugins!Threaded
    <3> QED BY <2>3, <2>5, <3>1, <3>2
  <2>6. CASE Plugins!SelectAvailable \/ Plugins!RefreshAvailable
    <3>1. open /\ open' /\ UNCHANGED <<visit, installed, disk>>
      BY <2>6 DEF Plugins!SelectAvailable, Plugins!RefreshAvailable
    <3> QED BY <2>1, <2>5, <2>6, <3>1 DEF Plugins!SelectAvailable, Plugins!RefreshAvailable
  <2>7. ASSUME NEW op \in Plugins!Changes, NEW n \in PluginNames, open, Plugins!Begin(op, n)
        PROVE  PluginsInv'
    <3>1. PICK v : v = visit
      OBVIOUS
    <3>2. jobs' = Plugins!Called(op, n, v) /\ issued' = issued + 1
            /\ UNCHANGED <<open, visit, installed, disk>>
      BY <2>7, <3>1 DEF Plugins!Begin
    <3> QED BY <2>3, <2>7, <3>1, <3>2
  <2>8. CASE Plugins!handleAudit
    <3>1. PICK v, n : v = visit /\ n = None
      OBVIOUS
    <3>2. /\ jobs' = Plugins!Called("audit", n, v) /\ issued' = issued + 1
             /\ "audit" \notin Plugins!Changes
          /\ open /\ UNCHANGED <<open, visit, installed, disk>>
      BY <2>8, <3>1 DEF Plugins!handleAudit, Plugins!Changes, Plugins!Threaded
    <3> QED BY <2>3, <3>1, <3>2
  <2>9. ASSUME NEW j \in jobs, Plugins!PluginDone(j) PROVE PluginsInv'
    <3>1. PICK p \in BOOLEAN : p <=> open
      OBVIOUS
    <3>2. /\ j.op # "list" /\ UNCHANGED <<open, visit, installed, disk>>
          /\ Plugins!Reload(j, p)
      BY <2>9, <3>1 DEF Plugins!PluginDone, Plugins!Threaded, Plugins!Reload
    <3> QED BY <3>1, <3>2, PluginTells
  <2>10. ASSUME NEW j \in jobs, Plugins!Respond(j) PROVE PluginsInv'
    <3>1. PICK p \in BOOLEAN : p <=> (open /\ j.visit = visit)
      OBVIOUS
    <3>2. /\ j.op # "list" /\ UNCHANGED <<open, visit, installed, disk>>
          /\ Plugins!Reload(j, p)
      BY <2>10, <3>1 DEF Plugins!Respond, Plugins!Threaded, Plugins!Reload
    <3>3. open /\ PluginReport(j) => p
      BY <2>10, <3>1 DEF Plugins!Respond, PluginReport, Plugins!Threaded
    <3> QED BY <3>1, <3>2, <3>3, PluginTells
  <2> QED
    BY <2>2, <2>4, <2>6, <2>7, <2>8, <2>9, <2>10, PluginWorks, PluginListed
       DEF Plugins!Next, Plugins!handleInstall, Plugins!handleUninstall, Plugins!handleUpdate,
           Plugins!Offers, Plugins!Changes, Plugins!Threaded
<1>3. PluginsInv => Plugins!ListTruthful
  BY DEF PluginsInv, PluginNews, Covers, Plugins!ListTruthful
<1> QED BY <1>1, <1>2, <1>3, PTL DEF Plugins!Spec

-----------------------------------------------------------------------------
(* The settings page *)

SettingCall(j) == j = [id |-> j.id, as |-> j.as, visit |-> j.visit, arg |-> j.arg,
                       phase |-> j.phase, saw |-> j.saw]
\* Loading the form, or about to
SettingFills(j) == j.as \in {"load", "switch"} /\ j.visit = visit
SettingsCalls ==
    /\ visit \in Nat
    /\ \A j \in jobs : SettingCall(j) /\ j.visit \in Nat /\ j.visit <= visit
    /\ \A j \in jobs : j.as = "switch" => j.arg \in SomeProfiles
SettingsFlags == open \in BOOLEAN /\ loading \in BOOLEAN /\ saving \in BOOLEAN
  /\ profileBusy \in BOOLEAN
\* The page fills its form from one call at a time; the page that is busy with
\* a profile waits for the switch, or for the form of that profile.
SettingsFill ==
    open =>
      /\ \A j, k \in jobs : SettingFills(j) /\ SettingFills(k) => j = k
      /\ loading <=> \E j \in jobs : SettingFills(j) /\ j.as = "load"
      /\ \A j \in jobs : SettingFills(j) /\ j.as = "switch" => profileBusy
      /\ profileBusy => \E j \in jobs : SettingFills(j) /\ j.arg # Settings!DEFAULTS
SettingsSave ==
    (open /\ saving) => \E j \in jobs : j.as \in {"save", "reset"} /\ j.visit = visit
SettingsWait == SettingsCalls /\ SettingsFlags /\ SettingsFill /\ SettingsSave

\* What a call adds
LEMMA SettingAdds ==
    ASSUME NEW n, NEW as, NEW arg, NEW v, NEW r, r = Settings!Request(n, as, arg, v)
    PROVE  SettingCall(r) /\ r.as = as /\ r.arg = arg /\ r.visit = v
BY DEF SettingCall, Settings!Request
LEMMA SettingCalled ==
    ASSUME NEW as, NEW arg, NEW v, Settings!Call(as, arg, v)
    PROVE  \E r : /\ jobs' = jobs \cup {r} /\ SettingCall(r)
                  /\ r.as = as /\ r.arg = arg /\ r.visit = v
<1> DEFINE r == Settings!Request(issued', as, arg, v)
<1>1. jobs' = jobs \cup {r}
  BY DEF Settings!Call
<1>2. SettingCall(r) /\ r.as = as /\ r.arg = arg /\ r.visit = v
  BY DEF SettingCall, Settings!Request
<1> HIDE DEF r
<1> QED BY <1>1, <1>2

\* A call that does not fill the form is made.
LEMMA SettingAsks ==
    ASSUME SettingsWait, NEW op, NEW x, NEW w, w \in {0, visit}, Settings!Call(op, x, w),
           op \notin {"load", "switch"}, UNCHANGED <<open, visit, loading, profileBusy>>,
           saving' \in BOOLEAN, saving' => saving \/ (op \in {"save", "reset"} /\ w = visit)
    PROVE  SettingsWait'
<1>0. Settings!Call(op, x, w)
  OBVIOUS
<1>1. PICK r : /\ jobs' = jobs \cup {r} /\ SettingCall(r)
               /\ r.as = op /\ r.arg = x /\ r.visit = w
  <2> DEFINE r == Settings!Request(issued', op, x, w)
  <2>1. jobs' = jobs \cup {r}
    BY <1>0 DEF Settings!Call
  <2>2. SettingCall(r) /\ r.as = op /\ r.arg = x /\ r.visit = w
    BY DEF SettingCall, Settings!Request
  <2> HIDE DEF r
  <2> QED BY <2>1, <2>2
<1>2. w \in Nat /\ w <= visit
  BY DEF SettingsWait, SettingsCalls
<1>3. SettingsCalls'
  BY <1>1, <1>2 DEF SettingsWait, SettingsCalls, SettingCall
<1>4. SettingsFlags'
  BY DEF SettingsWait, SettingsFlags
<1>5. SettingsFill'
  BY <1>1, <1>2 DEF SettingsWait, SettingsFill, SettingFills
<1>6. SettingsSave'
  BY <1>1, <1>2 DEF SettingsWait, SettingsSave
<1> QED BY <1>3, <1>4, <1>5, <1>6 DEF SettingsWait

\* A call is worked on.
LEMMA SettingWorks ==
    ASSUME SettingsWait, NEW j \in jobs, NEW p, NEW s, Settings!To(j, p, s),
           UNCHANGED <<open, visit, loading, saving, profileBusy>>
    PROVE  SettingsWait'
<1> DEFINE i == [j EXCEPT !.phase = p]
           k == [i EXCEPT !.saw = s]
<1>1. jobs' = (jobs \ {j}) \cup {k}
  BY DEF Settings!To
<1>2. SettingCall(i) /\ i.as = j.as /\ i.arg = j.arg /\ i.visit = j.visit
  BY DEF SettingsWait, SettingsCalls, SettingCall
<1> HIDE DEF i
<1>3. SettingCall(k) /\ k.as = j.as /\ k.arg = j.arg /\ k.visit = j.visit
  BY <1>2 DEF SettingCall
<1> HIDE DEF k
<1>4. SettingsCalls'
  BY <1>1, <1>3 DEF SettingsWait, SettingsCalls, SettingCall
<1>5. SettingsFlags'
  BY DEF SettingsWait, SettingsFlags
<1>6. SettingsFill'
  <2> SUFFICES ASSUME open PROVE SettingsFill'
    BY DEF SettingsFill
  <2>1. \A a, b \in jobs' : (SettingFills(a) /\ SettingFills(b))' => a = b
    BY <1>1, <1>3 DEF SettingsWait, SettingsFill, SettingFills
  <2>2. (\E a \in jobs' : SettingFills(a)' /\ a.as = "load")
          <=> \E a \in jobs : SettingFills(a) /\ a.as = "load"
    BY <1>1, <1>3 DEF SettingFills
  <2>3. \A a \in jobs' : SettingFills(a)' /\ a.as = "switch" => profileBusy
    BY <1>1, <1>3 DEF SettingsWait, SettingsFill, SettingFills
  <2>4. profileBusy => \E a \in jobs' : SettingFills(a)' /\ a.arg # Settings!DEFAULTS
    BY <1>1, <1>3 DEF SettingsWait, SettingsFill, SettingFills
  <2> QED BY <2>1, <2>2, <2>3, <2>4 DEF SettingsWait, SettingsFill
<1>7. SettingsSave'
  BY <1>1, <1>3 DEF SettingsWait, SettingsSave
<1> QED BY <1>4, <1>5, <1>6, <1>7 DEF SettingsWait

\* A call ends that the page does not wait for any more.
LEMMA SettingEnds ==
    ASSUME SettingsWait, NEW j \in jobs, jobs' = jobs \ {j}, UNCHANGED <<open, visit>>,
           loading' = (loading /\ ~(j.as = "load" /\ Settings!Here(j))),
           profileBusy' = (profileBusy /\ ~(/\ Settings!Here(j)
                                            /\ \/ j.as = "switch"
                                               \/ j.as = "load" /\ j.arg # Settings!DEFAULTS)),
           saving' \in BOOLEAN, saving'
             => saving /\ ~(j.as \in {"save", "reset"} /\ Settings!Here(j))
    PROVE  SettingsWait'
<1>1. SettingsCalls'
  BY DEF SettingsWait, SettingsCalls, SettingCall
<1>2. SettingsFlags'
  BY DEF SettingsWait, SettingsFlags
<1>3. SettingsSave'
  BY DEF SettingsWait, SettingsSave, Settings!Here
<1>4. SettingsFill'
  <2> SUFFICES ASSUME open PROVE SettingsFill'
    BY DEF SettingsFill
  <2>1. /\ \A a, b \in jobs : SettingFills(a) /\ SettingFills(b) => a = b
        /\ loading <=> \E a \in jobs : SettingFills(a) /\ a.as = "load"
        /\ \A a \in jobs : SettingFills(a) /\ a.as = "switch" => profileBusy
        /\ profileBusy => \E a \in jobs : SettingFills(a) /\ a.arg # Settings!DEFAULTS
    BY DEF SettingsWait, SettingsFill
  <2>2. SettingFills(j) <=> Settings!Here(j) /\ j.as \in {"load", "switch"}
    BY DEF SettingFills, Settings!Here
  <2>3. \A a : SettingFills(a)' <=> SettingFills(a)
    BY DEF SettingFills
  <2>4. CASE SettingFills(j)
    <3>1. \A a \in jobs' : ~SettingFills(a)
      BY <2>1, <2>4
    <3>2. j.as = "switch" => ~loading
      BY <2>1, <2>4
    <3>3. ~loading'
      BY <2>2, <2>4, <3>2
    <3>4. j.arg = Settings!DEFAULTS => ~profileBusy
      BY <2>1, <2>4
    <3>5. ~profileBusy'
      BY <2>2, <2>4, <3>4
    <3> QED BY <2>3, <3>1, <3>3, <3>5 DEF SettingsFill
  <2>5. CASE ~SettingFills(j)
    <3>1. loading' = loading /\ profileBusy' = profileBusy
      BY <2>2, <2>5 DEF SettingsWait, SettingsFlags
    <3>2. \A a : SettingFills(a) => (a \in jobs' <=> a \in jobs)
      BY <2>5
    <3>3. \A a, b \in jobs' : SettingFills(a) /\ SettingFills(b) => a = b
      BY <2>1
    <3>4. loading' <=> \E a \in jobs' : SettingFills(a) /\ a.as = "load"
      BY <2>1, <3>1, <3>2
    <3>5. \A a \in jobs' : SettingFills(a) /\ a.as = "switch" => profileBusy'
      BY <2>1, <3>1
    <3>6. profileBusy' => \E a \in jobs' : SettingFills(a) /\ a.arg # Settings!DEFAULTS
      BY <2>1, <3>1, <3>2
    <3> QED BY <2>3, <3>3, <3>4, <3>5, <3>6 DEF SettingsFill
  <2> QED BY <2>4, <2>5
<1> QED BY <1>1, <1>2, <1>3, <1>4 DEF SettingsWait

LEMMA SettingsNext ==
    Settings!SettingsAssumption /\ SettingsWait /\ [Settings!Next]_Settings!vars => SettingsWait'
<1> SUFFICES ASSUME Settings!SettingsAssumption, SettingsWait, [Settings!Next]_Settings!vars
             PROVE  SettingsWait'
  OBVIOUS
<1>0. Settings!DEFAULTS \notin SomeProfiles
  BY DEF Settings!SettingsAssumption
<1> USE DEF Settings!app, Settings!disk, Settings!form
<1>1. ASSUME UNCHANGED <<jobs, visit, loading, saving, profileBusy>>, open' \in BOOLEAN,
             open' => open
      PROVE  SettingsWait'
  BY <1>1
     DEF SettingsWait, SettingsCalls, SettingCall, SettingsFlags, SettingsFill, SettingsSave,
         SettingFills
<1>2. CASE UNCHANGED Settings!vars \/ Settings!Leave
             \/ \E k \in Settings!Keys, v \in Settings!Values : Settings!set(k, v)
  <2>1. open \in BOOLEAN
    BY DEF SettingsWait, SettingsFlags
  <2>2. UNCHANGED <<jobs, visit, loading, saving, profileBusy>>
    BY <1>2 DEF Settings!vars, Settings!Leave, Settings!set
  <2>3. open' = open \/ open' = FALSE
    BY <1>2 DEF Settings!vars, Settings!Leave, Settings!set
  <2> QED BY <1>1, <2>1, <2>2, <2>3
<1>3. ASSUME NEW as, NEW arg, Settings!Call(as, arg, 0), as = "toggle",
             UNCHANGED <<open, visit, loading, profileBusy, saving>>
      PROVE  SettingsWait'
  <2>1. saving' \in BOOLEAN
    BY <1>3 DEF SettingsWait, SettingsFlags
  <2> QED BY <1>3, <2>1, SettingAsks
<1>4. CASE Settings!toggleLang \/ Settings!toggleTheme
             \/ \E v \in Settings!Values : Settings!setLangCmd(v) \/ Settings!setThemeCmd(v)
  <2>1. /\ UNCHANGED <<open, visit, loading, profileBusy, saving>>
        /\ \E arg : Settings!Call("toggle", arg, 0)
    BY <1>4 DEF Settings!toggleLang, Settings!toggleTheme, Settings!setLangCmd, Settings!setThemeCmd
  <2> QED BY <1>3, <2>1
<1>5. CASE Settings!handleSave \/ Settings!handleReset
             \/ \E p \in Imports : Settings!handleImportFile(p)
  <2>1. PICK v : v = visit
    OBVIOUS
  <2>2. /\ UNCHANGED <<open, visit, loading, profileBusy>>
        /\ \E as \in {"save", "reset", "import"} : \E arg : Settings!Call(as, arg, v)
        /\ \/ saving' = TRUE /\ \E as \in {"save", "reset"} : \E arg : Settings!Call(as, arg, v)
           \/ saving' = saving
    BY <1>5, <2>1 DEF Settings!handleSave, Settings!handleReset, Settings!handleImportFile
  <2>3. saving \in BOOLEAN
    BY DEF SettingsWait, SettingsFlags
  <2>4. CASE saving' = saving
    BY <2>1, <2>2, <2>3, <2>4, SettingAsks
  <2>5. CASE saving' = TRUE /\ \E as \in {"save", "reset"} : \E arg : Settings!Call(as, arg, v)
    BY <2>1, <2>2, <2>3, <2>5, SettingAsks
  <2> QED BY <2>2, <2>4, <2>5
<1>6. CASE Settings!Open
  <2>1. PICK v : v = visit'
    OBVIOUS
  <2>2. Settings!Call("load", Settings!DEFAULTS, v)
    BY <1>6, <2>1 DEF Settings!Open
  <2>3. PICK r : /\ jobs' = jobs \cup {r} /\ SettingCall(r)
                 /\ r.as = "load" /\ r.arg = Settings!DEFAULTS /\ r.visit = v
    BY <2>2, SettingCalled
  <2>4. /\ jobs' = jobs \cup {r} /\ open' = TRUE /\ visit' = visit + 1
        /\ loading' = TRUE /\ saving' = FALSE /\ profileBusy' = FALSE
    BY <1>6, <2>3 DEF Settings!Open
  <2>5. visit \in Nat /\ \A j \in jobs : SettingCall(j) /\ j.visit \in Nat /\ j.visit <= visit
    BY DEF SettingsWait, SettingsCalls
  <2>6. \A j \in jobs : j.visit # visit' /\ j.visit <= visit'
    BY <2>4, <2>5
  <2>7. visit' \in Nat /\ v \in Nat
    BY <2>1, <2>4, <2>5
  <2>8. SettingsCalls'
    BY <2>1, <2>3, <2>4, <2>5, <2>6, <2>7 DEF SettingsWait, SettingsCalls, SettingCall
  <2>9. SettingsFlags' /\ SettingsSave'
    BY <2>4 DEF SettingsFlags, SettingsSave
  <2>10. SettingsFill'
    BY <2>1, <2>3, <2>4, <2>6 DEF SettingsFill, SettingFills
  <2> QED BY <2>8, <2>9, <2>10 DEF SettingsWait
<1>7. ASSUME NEW p \in SomeProfiles, Settings!handleSwitchProfile(p) PROVE SettingsWait'
  <2>1. PICK v : v = visit
    OBVIOUS
  <2>2. Settings!Call("switch", p, v)
    BY <1>7, <2>1 DEF Settings!handleSwitchProfile
  <2>3. PICK r : /\ jobs' = jobs \cup {r} /\ SettingCall(r)
                 /\ r.as = "switch" /\ r.arg = p /\ r.visit = v
    BY <2>2, SettingCalled
  <2>4. /\ jobs' = jobs \cup {r} /\ open /\ ~loading /\ ~profileBusy /\ profileBusy' = TRUE
        /\ UNCHANGED <<open, visit, loading, saving>>
    BY <1>7, <2>3 DEF Settings!handleSwitchProfile, Settings!Form
  <2>5. \A j \in jobs : ~SettingFills(j)
    BY <2>4 DEF SettingsWait, SettingsFill, SettingFills
  <2>6. SettingsCalls'
    BY <1>7, <2>1, <2>3, <2>4 DEF SettingsWait, SettingsCalls, SettingCall
  <2>7. SettingsFlags' /\ SettingsSave'
    BY <2>4 DEF SettingsWait, SettingsFlags, SettingsSave
  <2>8. SettingsFill'
    BY <1>0, <1>7, <2>1, <2>3, <2>4, <2>5 DEF SettingsFill, SettingFills
  <2> QED BY <2>6, <2>7, <2>8 DEF SettingsWait
<1>8. ASSUME NEW j \in jobs, Settings!Load(j) \/ Settings!Save(j) \/ Settings!Switch(j)
      PROVE  SettingsWait'
  <2>1. /\ UNCHANGED <<open, visit, loading, saving, profileBusy>>
        /\ \E p, s : Settings!To(j, p, s)
    BY <1>8 DEF Settings!Load, Settings!Save, Settings!Switch
  <2> QED BY <2>1, SettingWorks
<1>9. ASSUME NEW j \in jobs, NEW ok \in BOOLEAN,
             Settings!Started(j, ok) \/ Settings!Toggled(j, ok) \/ Settings!Imported(j, ok)
               \/ Settings!SaveDone(j, ok)
      PROVE  SettingsWait'
  <2>1. /\ j.as \notin {"load", "switch"} /\ jobs' = jobs \ {j}
        /\ UNCHANGED <<open, visit, loading, profileBusy>>
    BY <1>9 DEF Settings!Started, Settings!Toggled, Settings!Imported, Settings!SaveDone
  <2>2. \/ j.as \notin {"save", "reset"} /\ saving' = saving
        \/ saving' = (saving /\ ~Settings!Here(j))
    BY <1>9 DEF Settings!Started, Settings!Toggled, Settings!Imported, Settings!SaveDone
  <2>3. loading \in BOOLEAN /\ saving \in BOOLEAN /\ profileBusy \in BOOLEAN
    BY DEF SettingsWait, SettingsFlags
  <2>4. saving' \in BOOLEAN
          /\ (saving' => saving /\ ~(j.as \in {"save", "reset"} /\ Settings!Here(j)))
    <3>1. CASE j.as \notin {"save", "reset"} /\ saving' = saving
      BY <2>3, <3>1
    <3>2. CASE saving' = (saving /\ ~Settings!Here(j))
      BY <3>2
    <3> QED BY <2>2, <3>1, <3>2
  <2>5. /\ loading' = (loading /\ ~(j.as = "load" /\ Settings!Here(j)))
        /\ profileBusy' = (profileBusy /\ ~(/\ Settings!Here(j)
                                            /\ \/ j.as = "switch"
                                               \/ j.as = "load" /\ j.arg # Settings!DEFAULTS))
    BY <2>1, <2>3
  <2> QED BY <2>1, <2>4, <2>5, SettingEnds
<1>10. ASSUME NEW j \in jobs, NEW ok \in BOOLEAN, Settings!Loaded(j, ok) PROVE SettingsWait'
  <2>1. /\ j.as = "load" /\ jobs' = jobs \ {j} /\ UNCHANGED <<open, visit, saving>>
        /\ loading' = (loading /\ ~Settings!Here(j))
        /\ profileBusy' = (profileBusy /\ ~(Settings!Here(j) /\ j.arg # Settings!DEFAULTS))
    BY <1>10 DEF Settings!Loaded
  <2>2. saving \in BOOLEAN
    BY DEF SettingsWait, SettingsFlags
  <2>3. saving' \in BOOLEAN
          /\ (saving' => saving /\ ~(j.as \in {"save", "reset"} /\ Settings!Here(j)))
    BY <2>1, <2>2
  <2>4. /\ loading' = (loading /\ ~(j.as = "load" /\ Settings!Here(j)))
        /\ profileBusy' = (profileBusy /\ ~(/\ Settings!Here(j)
                                            /\ \/ j.as = "switch"
                                               \/ j.as = "load" /\ j.arg # Settings!DEFAULTS))
    BY <2>1
  <2> QED BY <2>1, <2>3, <2>4, SettingEnds
<1>11. ASSUME NEW j \in jobs, NEW ok \in BOOLEAN, Settings!Switched(j, ok) PROVE SettingsWait'
  <2>0. j.as = "switch" /\ UNCHANGED <<open, visit, saving>>
    BY <1>11 DEF Settings!Switched
  <2>1. CASE ~ok
    <3>1. /\ jobs' = jobs \ {j} /\ profileBusy' = (profileBusy /\ ~Settings!Here(j))
             /\ loading' = loading
      BY <1>11, <2>1 DEF Settings!Switched
    <3>2. saving \in BOOLEAN /\ loading \in BOOLEAN
      BY DEF SettingsWait, SettingsFlags
    <3>3. saving' \in BOOLEAN
            /\ (saving' => saving /\ ~(j.as \in {"save", "reset"} /\ Settings!Here(j)))
      BY <2>0, <3>2
    <3>4. /\ loading' = (loading /\ ~(j.as = "load" /\ Settings!Here(j)))
          /\ profileBusy' = (profileBusy /\ ~(/\ Settings!Here(j)
                                              /\ \/ j.as = "switch"
                                                 \/ j.as = "load" /\ j.arg # Settings!DEFAULTS))
      BY <2>0, <3>1, <3>2
    <3> QED BY <2>0, <3>1, <3>3, <3>4, SettingEnds
  <2>2. CASE ok
    <3>1. PICK n : n = issued'
      OBVIOUS
    <3>0. PICK r : r = Settings!Request(n, "load", j.arg, j.visit)
      OBVIOUS
    <3>2. SettingCall(r) /\ r.as = "load" /\ r.arg = j.arg /\ r.visit = j.visit
      BY ONLY <3>0, SettingAdds
    <3>3. /\ jobs' = (jobs \ {j}) \cup {r} /\ profileBusy' = profileBusy
          /\ loading' = (loading \/ Settings!Here(j))
      BY <1>11, <2>2, <3>1, <3>0 DEF Settings!Switched
    <3>4. SettingsCalls'
      BY <2>0, <3>2, <3>3 DEF SettingsWait, SettingsCalls, SettingCall
    <3>5. SettingsFlags'
      BY <2>0, <3>3 DEF SettingsWait, SettingsFlags, Settings!Here
    <3>6. SettingsSave'
      BY <2>0, <3>3 DEF SettingsWait, SettingsSave
    <3>7. SettingsFill'
      <4> SUFFICES ASSUME open PROVE SettingsFill'
        BY <2>0 DEF SettingsFill
      <4>1. /\ \A a, b \in jobs : SettingFills(a) /\ SettingFills(b) => a = b
            /\ loading <=> \E a \in jobs : SettingFills(a) /\ a.as = "load"
            /\ \A a \in jobs : SettingFills(a) /\ a.as = "switch" => profileBusy
            /\ profileBusy => \E a \in jobs : SettingFills(a) /\ a.arg # Settings!DEFAULTS
        BY DEF SettingsWait, SettingsFill
      <4>2. j.arg # Settings!DEFAULTS
        BY <1>0, <2>0 DEF SettingsWait, SettingsCalls
      <4>3. \A a : SettingFills(a)' <=> SettingFills(a)
        BY <2>0 DEF SettingFills
      <4>4. SettingFills(r) <=> SettingFills(j)
        BY <2>0, <3>2 DEF SettingFills
      <4>5. Settings!Here(j) <=> SettingFills(j)
        BY <2>0 DEF SettingFills, Settings!Here
      <4>6. CASE SettingFills(j)
        <5>1. \A a \in jobs' : SettingFills(a) => a = r
          BY <3>3, <4>1, <4>6
        <5>2. r \in jobs' /\ SettingFills(r) /\ r.as = "load" /\ r.arg # Settings!DEFAULTS
          BY <3>2, <3>3, <4>2, <4>4, <4>6
        <5>3. loading'
          BY <3>3, <4>5, <4>6
        <5> QED BY <4>3, <5>1, <5>2, <5>3 DEF SettingsFill
      <4>7. CASE ~SettingFills(j)
        <5>1. \A a : SettingFills(a) => (a \in jobs' <=> a \in jobs)
          BY <3>3, <4>4, <4>7
        <5>2. loading' = loading
          BY <3>3, <4>5, <4>7 DEF SettingsWait, SettingsFlags
        <5>3. \A a, b \in jobs' : SettingFills(a) /\ SettingFills(b) => a = b
          BY <4>1, <5>1
        <5>4. loading' <=> \E a \in jobs' : SettingFills(a) /\ a.as = "load"
          BY <4>1, <5>1, <5>2
        <5>5. \A a \in jobs' : SettingFills(a) /\ a.as = "switch" => profileBusy'
          BY <3>3, <4>1, <5>1
        <5>6. profileBusy' => \E a \in jobs' : SettingFills(a) /\ a.arg # Settings!DEFAULTS
          BY <3>3, <4>1, <5>1
        <5> QED BY <4>3, <5>3, <5>4, <5>5, <5>6 DEF SettingsFill
      <4> QED BY <4>6, <4>7
    <3> QED BY <3>4, <3>5, <3>6, <3>7 DEF SettingsWait
  <2> QED BY <2>1, <2>2
<1> QED
  BY <1>2, <1>4, <1>5, <1>6, <1>7, <1>8, <1>9, <1>10, <1>11 DEF Settings!Next

\* The settings page waits for what is under way only, whatever is refused or
\* overtaken, however often the page was left and opened again.
THEOREM SettingsRest == Settings!SettingsAssumption => (Settings!Spec => []Settings!SpinnersEnd)
<1> SUFFICES ASSUME Settings!SettingsAssumption PROVE Settings!Spec => []Settings!SpinnersEnd
  OBVIOUS
<1>1. Settings!Init => SettingsWait
  <2> SUFFICES ASSUME Settings!Init PROVE SettingsWait
    OBVIOUS
  <2>1. PICK a : a = Settings!Request(1, "loadLang", Settings!DEFAULTS, 0)
    OBVIOUS
  <2>2. PICK b : b = Settings!Request(2, "loadTheme", Settings!DEFAULTS, 0)
    OBVIOUS
  <2>3. SettingCall(a) /\ a.as = "loadLang" /\ a.arg = Settings!DEFAULTS /\ a.visit = 0
    BY ONLY <2>1, SettingAdds
  <2>4. SettingCall(b) /\ b.as = "loadTheme" /\ b.arg = Settings!DEFAULTS /\ b.visit = 0
    BY ONLY <2>2, SettingAdds
  <2>5. /\ jobs = {a, b} /\ open = FALSE /\ visit = 0
        /\ loading = FALSE /\ saving = FALSE /\ profileBusy = FALSE
    BY <2>1, <2>2 DEF Settings!Init
  <2>6. SettingsCalls
    BY <2>3, <2>4, <2>5 DEF SettingsCalls
  <2>7. SettingsFlags /\ SettingsFill /\ SettingsSave
    BY <2>5 DEF SettingsFlags, SettingsFill, SettingsSave
  <2> QED BY <2>6, <2>7 DEF SettingsWait
<1>2. SettingsWait /\ [Settings!Next]_Settings!vars => SettingsWait'
  BY SettingsNext
<1>3. SettingsWait => Settings!SpinnersEnd
  BY DEF SettingsWait, SettingsFill, SettingsSave, SettingFills, Settings!SpinnersEnd
<1> QED BY <1>1, <1>2, <1>3, PTL DEF Settings!Spec

\* Only the page writes, and what it imports is complete.
PageAlone == ~Rough /\ Imports \subseteq Settings!Settings

FileWrites == {"save", "reset", "import"}
SettingEntry(j) ==
    /\ SettingCall(j) /\ j.id \in Nat /\ j.id <= issued /\ j.saw \in Settings!Settings
    /\ j.as \in Settings!Reads \cup FileWrites \cup {"switch"}
    /\ j.as \in FileWrites => j.arg \in Settings!Settings
    /\ j.as = "reset" => j.arg = Settings!DEFAULTS
    /\ j.as = "switch" => j.arg \in SomeProfiles
    /\ j.phase = "read" => j.as \in FileWrites
\* Calls are numbered, and worked on in their order.
SettingsQueue ==
    /\ issued \in Nat
    /\ \A j \in jobs : SettingEntry(j)
    /\ \A j, k \in jobs : j.id = k.id => j = k
    /\ \A j, k \in jobs : j.phase = "done" /\ k.phase # "done" => j.id <= k.id
SettingsValues ==
    /\ file \in [SomeProfiles -> Settings!Settings] /\ active \in SomeProfiles
    /\ settings \in Settings!Settings /\ saved \in Settings!Settings
\* A call after which the form of this visit is compared with something else
SetsSaved(j) == j.visit = visit /\ j.as \in FileWrites \cup {"load"}
\* The last that changes the file, the profile or what the form is compared with
SettingLast(j) ==
    /\ SetsSaved(j)
    /\ \A k \in jobs : k.as \in FileWrites \cup {"switch"} \/ SetsSaved(k) => k.id <= j.id
Tells(j) == IF j.as = "load" THEN j.saw ELSE j.arg
SettingsNews ==
    open =>
        \/ \E j \in jobs : j.as = "switch" /\ j.visit = visit
        \/ \E j \in jobs : SettingLast(j) /\ j.phase # "done"
        \/ \E j \in jobs : SettingLast(j) /\ j.phase = "done" /\ Tells(j) = file[active]
        \/ /\ saved = file[active]
           /\ \A j \in jobs : ~SetsSaved(j) /\ j.as \notin FileWrites \cup {"switch"}
\* The language shows what the form says.
LanguageShows ==
    open => /\ lang = settings["language"]
            /\ \A j \in jobs : j.as \notin {"loadLang", "loadTheme"}
SettingsTruth == SettingsQueue /\ SettingsValues /\ SettingsNews /\ LanguageShows

LEMMA SettingDefaults == Settings!DEFAULTS \in Settings!Settings
  BY DEF Settings!DEFAULTS, Settings!Settings, Settings!Values

LEMMA SettingMerges == \A s, p : p \in Settings!Settings => Settings!Merged(s, p) = p
  BY DEF Settings!Merged, Settings!Settings

\* The queue after a call is made, and another may have ended
LEMMA SettingJoins ==
    ASSUME SettingsQueue, NEW op, NEW arg, NEW v, NEW gone, gone \subseteq jobs,
           issued' = issued + 1, jobs' = (jobs \ gone) \cup {Settings!Request(issued', op, arg, v)},
           op \in Settings!Reads \cup FileWrites \cup {"switch"}, op \in FileWrites
             => arg \in Settings!Settings,
           op = "reset" => arg = Settings!DEFAULTS, op = "switch" => arg \in SomeProfiles
    PROVE  /\ SettingsQueue'
           /\ \E r : /\ jobs' = (jobs \ gone) \cup {r} /\ r.as = op /\ r.visit = v
                     /\ r.arg = arg /\ r.phase # "done"
                     /\ r.id = issued' /\ \A j \in jobs : j.id < r.id
<1>1. issued \in Nat /\ issued' \in Nat /\ \A j \in jobs : SettingEntry(j) /\ j.id < issued'
  BY DEF SettingsQueue, SettingEntry
<1>2. PICK r : /\ jobs' = (jobs \ gone) \cup {r} /\ SettingCall(r) /\ r.as = op /\ r.visit = v
               /\ r.arg = arg /\ r.phase = "sent" /\ r.saw = Settings!DEFAULTS /\ r.id = issued'
  <2> DEFINE r == Settings!Request(issued', op, arg, v)
  <2>1. /\ SettingCall(r) /\ r.as = op /\ r.visit = v /\ r.arg = arg /\ r.phase = "sent"
        /\ r.saw = Settings!DEFAULTS /\ r.id = issued'
    BY DEF Settings!Request, SettingCall
  <2>2. jobs' = (jobs \ gone) \cup {r}
    OBVIOUS
  <2> HIDE DEF r
  <2> QED BY <2>1, <2>2
<1>3. SettingEntry(r)'
  BY <1>1, <1>2, SettingDefaults DEF SettingEntry, SettingCall
<1>4. \A j \in jobs : SettingEntry(j)'
  BY <1>1 DEF SettingEntry, SettingCall
<1>5. \A j \in jobs' : SettingEntry(j)'
  BY <1>2, <1>3, <1>4
<1>6. \A j, k \in jobs' : j.id = k.id => j = k
  BY <1>1, <1>2 DEF SettingsQueue, SettingEntry
<1>7. \A j, k \in jobs' : j.phase = "done" /\ k.phase # "done" => j.id <= k.id
  <2> SUFFICES ASSUME NEW j \in jobs', NEW k \in jobs', j.phase = "done", k.phase # "done"
               PROVE  j.id <= k.id
    OBVIOUS
  <2>1. j \in jobs /\ (k \in jobs \/ k = r)
    BY <1>2
  <2> QED BY <1>1, <1>2, <2>1 DEF SettingsQueue, SettingEntry
<1> QED BY <1>1, <1>2, <1>5, <1>6, <1>7 DEF SettingsQueue

LEMMA SettingLeaves ==
    ASSUME SettingsQueue, NEW j \in jobs, issued' = issued, jobs' = jobs \ {j}
    PROVE  SettingsQueue'
  BY DEF SettingsQueue, SettingEntry, SettingCall

\* A call that is made is the last, or one of the profile.
LEMMA SettingCalling ==
    ASSUME SettingsTruth, SettingsValues', NEW op, NEW arg, NEW v, v = visit',
           Settings!Call(op, arg, v),
           UNCHANGED <<file, active>>, open', visit' = visit \/ op = "load",
           op \in FileWrites \cup {"switch", "load"}, op \in FileWrites
             => arg \in Settings!Settings,
           op = "reset" => arg = Settings!DEFAULTS, op = "switch" => arg \in SomeProfiles
    PROVE  SettingsQueue' /\ SettingsNews' /\ \A j \in jobs' : j \in jobs \/ j.as = op
<1>1. PICK gone : gone = {}
  OBVIOUS
<1>2. /\ issued' = issued + 1 /\ gone \subseteq jobs
      /\ jobs' = (jobs \ gone) \cup {Settings!Request(issued', op, arg, v)}
  BY <1>1 DEF Settings!Call
<1>3. op \in Settings!Reads \cup FileWrites \cup {"switch"} /\ SettingsQueue
  BY DEF Settings!Reads, SettingsTruth
<1>4. SettingsQueue'
  BY <1>2, <1>3, SettingJoins
<1>5. PICK r : /\ jobs' = jobs \cup {r} /\ r.as = op /\ r.visit = v /\ r.phase # "done"
               /\ r.id = issued' /\ \A j \in jobs : j.id < r.id
  <2>1. \E r : /\ jobs' = (jobs \ gone) \cup {r} /\ r.as = op /\ r.visit = v
               /\ r.arg = arg /\ r.phase # "done"
               /\ r.id = issued' /\ \A j \in jobs : j.id < r.id
    BY <1>2, <1>3, SettingJoins
  <2> QED BY <1>1, <2>1
<1>6. CASE op = "switch"
  BY <1>4, <1>5, <1>6 DEF SettingsNews
<1>7. CASE op # "switch"
  <2>1. \A k \in jobs' : k.id <= r.id
    BY <1>4, <1>5 DEF SettingsQueue, SettingEntry
  <2>2. SettingLast(r)'
    BY <1>5, <1>7, <2>1 DEF SettingLast, SetsSaved
  <2> QED BY <1>4, <1>5, <2>2 DEF SettingsNews
<1> QED BY <1>6, <1>7

\* A call is worked on.
LEMMA SettingTurns ==
    ASSUME NEW j, SettingCall(j), NEW p, NEW s, Settings!To(j, p, s)
    PROVE  \E k : /\ jobs' = (jobs \ {j}) \cup {k} /\ SettingCall(k)
                  /\ k.id = j.id /\ k.as = j.as /\ k.visit = j.visit /\ k.arg = j.arg
                  /\ k.phase = p /\ k.saw = s
<1> DEFINE i == [j EXCEPT !.phase = p]
           k == [i EXCEPT !.saw = s]
<1>1. jobs' = (jobs \ {j}) \cup {k}
  BY DEF Settings!To
<1>2. /\ SettingCall(i) /\ i.id = j.id /\ i.as = j.as /\ i.arg = j.arg /\ i.visit = j.visit
      /\ i.phase = p
  BY DEF SettingCall
<1> HIDE DEF i
<1>3. /\ SettingCall(k) /\ k.id = j.id /\ k.as = j.as /\ k.arg = j.arg /\ k.visit = j.visit
      /\ k.phase = p /\ k.saw = s
  BY <1>2 DEF SettingCall
<1> HIDE DEF k
<1> QED BY <1>1, <1>3

LEMMA SettingGoes ==
    ASSUME PageAlone, SettingsTruth, NEW j \in jobs,
           Settings!Load(j) \/ Settings!Save(j) \/ Settings!Switch(j)
    PROVE  SettingsTruth'
<1>1. PICK p, s : /\ Settings!To(j, p, s) /\ p # "sent"
                  /\ p = "read" => Settings!Load(j) /\ j.as \notin Settings!Reads
                  /\ p = "done"
                     => (j.as \in Settings!Reads \/ Settings!Save(j) \/ Settings!Switch(j))
                  /\ Settings!Load(j) => s = file[active]
                  /\ s = j.saw \/ s = file[active]
                  /\ p \in {"read", "done"}
  BY DEF Settings!Load, Settings!Save, Settings!Switch
<1>2. SettingEntry(j) /\ SettingCall(j)
  BY DEF SettingsTruth, SettingsQueue, SettingEntry
<1>3. PICK k : /\ jobs' = (jobs \ {j}) \cup {k} /\ SettingCall(k)
               /\ k.id = j.id /\ k.as = j.as /\ k.visit = j.visit /\ k.arg = j.arg
               /\ k.phase = p /\ k.saw = s
  BY <1>1, <1>2, SettingTurns
<1>4. /\ UNCHANGED <<issued, Settings!app, open, visit, Settings!form>> /\ j.phase # "done"
      /\ \A h \in jobs : h.phase # "done" => j.id <= h.id
  BY DEF Settings!Load, Settings!Save, Settings!Switch, Settings!First, PageAlone
<1>5. file[active] \in Settings!Settings /\ s \in Settings!Settings
  BY <1>1, <1>2 DEF SettingsTruth, SettingsValues, SettingEntry
<1>6. \A h \in jobs' : h = k \/ (h \in jobs /\ h # j)
  BY <1>3
<1>7. SettingsQueue'
  <2>1. SettingEntry(k)'
    <3>1. p = "read" => j.as \in FileWrites
      BY <1>1, <1>2 DEF SettingEntry, Settings!Load
    <3> QED BY <1>2, <1>3, <1>4, <1>5, <3>1 DEF SettingEntry, SettingCall
  <2>2. \A h \in jobs : SettingEntry(h)'
    BY <1>4 DEF SettingsTruth, SettingsQueue, SettingEntry, SettingCall
  <2>3. \A h, l \in jobs : h.id = l.id => h = l
    BY DEF SettingsTruth, SettingsQueue
  <2>4. \A h, l \in jobs' : h.id = l.id => h = l
    BY <1>3, <1>6, <2>3
  <2>5. \A h, l \in jobs' : h.phase = "done" /\ l.phase # "done" => h.id <= l.id
    <3> SUFFICES ASSUME NEW h \in jobs', NEW l \in jobs', h.phase = "done", l.phase # "done"
                 PROVE  h.id <= l.id
      OBVIOUS
    <3>1. \A a, b \in jobs : a.phase = "done" /\ b.phase # "done" => a.id <= b.id
      BY DEF SettingsTruth, SettingsQueue
    <3>2. CASE h = k
      BY <1>3, <1>4, <1>6, <3>2
    <3>3. CASE h # k
      BY <1>3, <1>4, <1>6, <3>1, <3>3
    <3> QED BY <3>2, <3>3
  <2> QED BY <1>4, <1>6, <2>1, <2>2, <2>4, <2>5 DEF SettingsTruth, SettingsQueue
<1>8. SettingsValues'
  <2>1. UNCHANGED <<settings, saved>>
    BY <1>4 DEF Settings!form
  <2>2. CASE Settings!Load(j)
    BY <2>1, <2>2 DEF Settings!Load, Settings!disk, SettingsTruth, SettingsValues
  <2>3. CASE Settings!Switch(j)
    BY <1>2, <2>1, <2>3 DEF Settings!Switch, SettingsTruth, SettingsValues, SettingEntry
  <2>4. CASE Settings!Save(j)
    <3>1. Settings!Merged(j.saw, j.arg) \in Settings!Settings
      BY <1>2, <2>4, SettingMerges DEF Settings!Save, SettingEntry
    <3> QED BY <2>1, <2>4, <3>1 DEF Settings!Save, SettingsTruth, SettingsValues
  <2> QED BY <2>2, <2>3, <2>4
<1>9. LanguageShows'
  <2>1. UNCHANGED <<lang, settings, open>>
    BY <1>4 DEF Settings!app, Settings!form
  <2> QED BY <1>3, <1>6, <2>1 DEF SettingsTruth, LanguageShows
<1>10. SettingsNews'
  <2> SUFFICES ASSUME open PROVE SettingsNews'
    BY <1>4 DEF SettingsNews
  <2>0. UNCHANGED <<visit, saved>>
    BY <1>4 DEF Settings!form
  <2>1. /\ \A h : SetsSaved(h)' <=> SetsSaved(h)
        /\ SetsSaved(k) <=> SetsSaved(j)
    BY <1>3, <1>4 DEF SetsSaved
  <2>2. /\ \A h \in jobs : h # j /\ SettingLast(h) => SettingLast(h)'
        /\ SettingLast(j) => SettingLast(k)'
    BY <1>3, <1>6, <2>1 DEF SettingLast
  <2>3. j.as \notin FileWrites \cup {"switch"} => file' = file /\ active' = active
    BY <1>2 DEF Settings!Load, Settings!Save, Settings!Switch, Settings!disk, SettingEntry
  <2>4. CASE \E h \in jobs : h.as = "switch" /\ h.visit = visit
    BY <1>3, <1>4, <2>4 DEF SettingsNews
  <2>5. CASE \E h \in jobs : SettingLast(h) /\ h.phase # "done"
    <3>1. CASE \E h \in jobs : SettingLast(h) /\ h.phase # "done" /\ h # j
      BY <1>3, <2>2, <3>1 DEF SettingsNews
    <3>2. CASE SettingLast(j)
      <4>1. CASE p # "done"
        BY <1>3, <2>2, <3>2, <4>1 DEF SettingsNews
      <4>2. CASE p = "done" /\ j.as = "load"
        <5>1. Settings!Load(j) /\ s = file[active] /\ file' = file /\ active' = active
          BY <1>1, <1>2, <2>3, <4>2 DEF SettingEntry, Settings!Save, Settings!Switch, FileWrites
        <5>2. Tells(k) = s
          BY <1>3, <4>2 DEF Tells
        <5> QED BY <1>3, <2>2, <3>2, <4>2, <5>1, <5>2 DEF SettingsNews, Tells
      <4>3. CASE p = "done" /\ j.as # "load"
        <5>1. j.as \in FileWrites /\ Settings!Save(j)
          BY <1>1, <3>2, <4>3
             DEF SettingLast, SetsSaved, Settings!Reads, FileWrites, Settings!Switch
        <5>2. file' = [file EXCEPT ![active] = j.arg] /\ active' = active
          BY <1>2, <5>1, SettingMerges DEF Settings!Save, SettingEntry
        <5>3. file'[active'] = j.arg
          BY <5>2 DEF SettingsTruth, SettingsValues
        <5>4. Tells(k) = j.arg
          BY <1>3, <4>3 DEF Tells
        <5> QED BY <1>3, <2>2, <3>2, <4>3, <5>3, <5>4 DEF SettingsNews, Tells
      <4> QED BY <4>1, <4>2, <4>3
    <3> QED BY <2>5, <3>1, <3>2
  <2>6. CASE \E h \in jobs : SettingLast(h) /\ h.phase = "done" /\ Tells(h) = file[active]
    <3>1. PICK h \in jobs : SettingLast(h) /\ h.phase = "done" /\ Tells(h) = file[active]
      BY <2>6
    <3>2. h # j /\ h.id <= j.id
      BY <1>4, <3>1 DEF SettingsTruth, SettingsQueue
    <3>3. j.as \in FileWrites \cup {"switch"} => j.id <= h.id
      BY <3>1 DEF SettingLast
    <3>4. j.as \notin FileWrites \cup {"switch"}
      BY <1>2, <3>1, <3>2, <3>3 DEF SettingsTruth, SettingsQueue, SettingEntry
    <3> QED BY <1>3, <2>2, <2>3, <3>1, <3>2, <3>4 DEF SettingsNews, Tells
  <2>7. CASE saved = file[active] /\ \A h \in jobs : ~SetsSaved(h)
               /\ h.as \notin FileWrites \cup {"switch"}
    <3>1. file' = file /\ active' = active
      BY <2>3, <2>7
    <3>2. \A h \in jobs' : ~SetsSaved(h)' /\ h.as \notin FileWrites \cup {"switch"}
      BY <1>3, <1>6, <2>1, <2>7
    <3> QED BY <2>0, <2>7, <3>1, <3>2 DEF SettingsNews
  <2> QED BY <2>4, <2>5, <2>6, <2>7 DEF SettingsTruth, SettingsNews
<1> QED BY <1>7, <1>8, <1>9, <1>10 DEF SettingsTruth

\* An answer takes the first call away; if it is one the form is compared with
\* from now on, saved is what it tells.
LEMMA SettingTold ==
    ASSUME SettingsTruth, SettingsValues', NEW j \in jobs, jobs' = jobs \ {j}, j.phase = "done",
           UNCHANGED <<issued, file, active, open, visit>>, \A k \in jobs : j.id <= k.id,
           j.as # "switch",
           saved' = IF open /\ SetsSaved(j) THEN Tells(j) ELSE saved
    PROVE  SettingsQueue' /\ SettingsNews'
<1>1. SettingsQueue'
  BY SettingLeaves DEF SettingsTruth
<1>2. ASSUME open PROVE SettingsNews'
  <2>1. \A h : SetsSaved(h)' <=> SetsSaved(h)
    BY DEF SetsSaved
  <2>2. \A h : SettingLast(h) => SettingLast(h)'
    BY <2>1 DEF SettingLast
  <2>3. CASE \E h \in jobs : h.as = "switch" /\ h.visit = visit
    BY <2>3 DEF SettingsNews
  <2>4. CASE \E h \in jobs : SettingLast(h) /\ h.phase # "done"
    BY <2>2, <2>4 DEF SettingsNews
  <2>5. CASE SettingLast(j) /\ Tells(j) = file[active]
    <3>1. saved' = file'[active']
      BY <1>2, <2>5 DEF SettingLast
    <3>2. \A h \in jobs : h.as \in FileWrites \cup {"switch"} \/ SetsSaved(h) => h.id = j.id
      BY <2>5 DEF SettingLast, SettingsTruth, SettingsQueue, SettingEntry
    <3>3. \A h \in jobs : h.as \in FileWrites \cup {"switch"} \/ SetsSaved(h) => h = j
      BY <3>2 DEF SettingsTruth, SettingsQueue
    <3>4. \A h \in jobs' : ~SetsSaved(h)' /\ h.as \notin FileWrites \cup {"switch"}
      BY <2>1, <3>3
    <3> QED BY <3>1, <3>4 DEF SettingsNews
  <2>6. CASE \E h \in jobs : h # j /\ SettingLast(h) /\ h.phase = "done" /\ Tells(h) = file[active]
    BY <2>2, <2>6 DEF SettingsNews, Tells
  <2>7. CASE saved = file[active] /\ \A h \in jobs : ~SetsSaved(h)
               /\ h.as \notin FileWrites \cup {"switch"}
    <3>1. saved' = saved
      BY <2>7
    <3>2. \A h \in jobs' : ~SetsSaved(h)' /\ h.as \notin FileWrites \cup {"switch"}
      BY <2>1, <2>7
    <3> QED BY <2>7, <3>1, <3>2 DEF SettingsNews
  <2>8. \/ \E h \in jobs : h.as = "switch" /\ h.visit = visit
        \/ \E h \in jobs : SettingLast(h) /\ h.phase # "done"
        \/ \E h \in jobs : SettingLast(h) /\ h.phase = "done" /\ Tells(h) = file[active]
        \/ /\ saved = file[active]
           /\ \A h \in jobs : ~SetsSaved(h) /\ h.as \notin FileWrites \cup {"switch"}
    BY <1>2 DEF SettingsTruth, SettingsNews
  <2> QED BY <2>3, <2>4, <2>5, <2>6, <2>7, <2>8
<1>3. SettingsNews'
  BY <1>2 DEF SettingsNews
<1> QED BY <1>1, <1>3

\* The form is filled with what the answer tells.
LEMMA SettingFilled ==
    ASSUME SettingsTruth, NEW j \in jobs, jobs' = jobs \ {j}, j.phase = "done",
           UNCHANGED <<issued, file, active, open, visit>>, \A k \in jobs : j.id <= k.id,
           j.as # "switch", Tells(j) \in Settings!Settings,
           \/ Settings!Here(j) /\ Settings!Fill(Tells(j)) /\ SetsSaved(j)
           \/ ~Settings!Here(j) /\ UNCHANGED <<settings, saved, lang>>
           \/ Settings!Here(j) /\ SetsSaved(j) /\ saved' = Tells(j) /\ UNCHANGED <<settings, lang>>
    PROVE  SettingsTruth'
<1>1. saved' = IF open /\ SetsSaved(j) THEN Tells(j) ELSE saved
  BY DEF Settings!Here, SetsSaved, Settings!Fill
<1>2. SettingsValues'
  BY DEF SettingsTruth, SettingsValues, Settings!Fill
<1>3. LanguageShows'
  BY DEF SettingsTruth, LanguageShows, Settings!Fill
<1> QED BY <1>1, <1>2, <1>3, SettingTold DEF SettingsTruth

LEMMA SettingAnswers ==
    ASSUME PageAlone, SettingsTruth, NEW j \in jobs, NEW ok \in BOOLEAN,
           Settings!Loaded(j, ok) \/ Settings!SaveDone(j, ok) \/ Settings!Imported(j, ok)
    PROVE  SettingsTruth'
<1>1. /\ ok /\ j.phase = "done" /\ (\A k \in jobs : j.id <= k.id) /\ jobs' = jobs \ {j}
      /\ UNCHANGED <<issued, file, active, open, visit>>
      /\ j.as \in {"load", "save", "reset", "import"}
  BY DEF Settings!Loaded, Settings!SaveDone, Settings!Imported, Settings!Answered, PageAlone,
         Settings!disk
<1>2. SettingEntry(j)
  BY DEF SettingsTruth, SettingsQueue
<1>3. j.as # "switch" /\ Tells(j) \in Settings!Settings /\ (Settings!Here(j) => SetsSaved(j))
  BY <1>1, <1>2 DEF SettingEntry, Tells, Settings!Here, SetsSaved, FileWrites
<1>4. CASE Settings!Loaded(j, ok)
  <2>1. Tells(j) = j.saw
    BY <1>4 DEF Settings!Loaded, Tells
  <2>2. (Settings!Here(j) /\ Settings!Fill(Tells(j)))
          \/ (~Settings!Here(j) /\ UNCHANGED <<settings, saved, lang>>)
    BY <1>1, <1>4, <2>1 DEF Settings!Loaded
  <2> QED BY <1>1, <1>3, <2>2, SettingFilled
<1>5. CASE Settings!SaveDone(j, ok)
  <2>1. Tells(j) = j.arg /\ (j.as = "reset" => Tells(j) = Settings!DEFAULTS)
    BY <1>2, <1>5 DEF Settings!SaveDone, Tells, SettingEntry
  <2>2. \/ Settings!Here(j) /\ Settings!Fill(Tells(j))
        \/ ~Settings!Here(j) /\ UNCHANGED <<settings, saved, lang>>
        \/ Settings!Here(j) /\ saved' = Tells(j) /\ UNCHANGED <<settings, lang>>
    BY <1>1, <1>5, <2>1 DEF Settings!SaveDone
  <2> QED BY <1>1, <1>3, <2>2, SettingFilled
<1>6. CASE Settings!Imported(j, ok)
  <2>1. Tells(j) = j.arg /\ Settings!Merged(Settings!DEFAULTS, j.arg) = j.arg
    BY <1>2, <1>6, SettingMerges DEF Settings!Imported, Tells, SettingEntry, FileWrites
  <2>2. (Settings!Here(j) /\ Settings!Fill(Tells(j)))
          \/ (~Settings!Here(j) /\ UNCHANGED <<settings, saved, lang>>)
    BY <1>1, <1>6, <2>1 DEF Settings!Imported
  <2> QED BY <1>1, <1>3, <2>2, SettingFilled
<1> QED BY <1>4, <1>5, <1>6

LEMMA SettingSwitched ==
    ASSUME PageAlone, SettingsTruth, NEW j \in jobs, NEW ok \in BOOLEAN, Settings!Switched(j, ok)
    PROVE  SettingsTruth'
<1>1. PICK v, arg, gone : v = j.visit /\ arg = j.arg /\ gone = {j}
  OBVIOUS
<1>2. /\ j.as = "switch" /\ issued' = issued + 1 /\ gone \subseteq jobs
      /\ jobs' = (jobs \ gone) \cup {Settings!Request(issued', "load", arg, v)}
      /\ UNCHANGED <<file, active, lang, settings, saved, open, visit>>
  BY <1>1 DEF Settings!Switched, Settings!Answered, PageAlone, Settings!disk, Settings!app
<1>3. "load" \in Settings!Reads /\ "load" \notin FileWrites /\ SettingsQueue
  BY DEF Settings!Reads, FileWrites, SettingsTruth
<1>4. /\ SettingsQueue'
      /\ \E r : /\ jobs' = (jobs \ gone) \cup {r} /\ r.as = "load" /\ r.visit = v
                /\ r.arg = arg /\ r.phase # "done"
                /\ r.id = issued' /\ \A k \in jobs : k.id < r.id
  BY <1>2, <1>3, SettingJoins
<1>5. PICK r : /\ jobs' = (jobs \ {j}) \cup {r} /\ r.as = "load" /\ r.visit = j.visit
               /\ r.phase # "done" /\ r.id = issued' /\ \A k \in jobs : k.id < r.id
  BY <1>1, <1>4
<1>6. SettingsValues' /\ LanguageShows'
  BY <1>2, <1>5 DEF SettingsTruth, SettingsValues, LanguageShows
<1>7. \A h : SetsSaved(h)' <=> SetsSaved(h)
  BY <1>2 DEF SetsSaved
<1>8. CASE ~open
  BY <1>2, <1>4, <1>6, <1>8 DEF SettingsTruth, SettingsNews
<1>9. CASE open /\ j.visit = visit
  <2>1. \A k \in jobs' : k.id <= r.id
    BY <1>4, <1>5 DEF SettingsQueue, SettingEntry
  <2>2. SettingLast(r)'
    BY <1>2, <1>5, <1>9, <2>1 DEF SettingLast, SetsSaved
  <2> QED BY <1>4, <1>5, <1>6, <2>2 DEF SettingsTruth, SettingsNews
<1>10. CASE open /\ j.visit # visit
  <2>1. ~SetsSaved(r) /\ r.as \notin FileWrites \cup {"switch"} /\ ~SetsSaved(j)
    BY <1>5, <1>10 DEF SetsSaved, FileWrites
  <2>2. \A h \in jobs : SettingLast(h) => SettingLast(h)' /\ h # j
    BY <1>5, <1>7, <2>1 DEF SettingLast
  <2>3. SettingsNews'
    <3>1. CASE \E h \in jobs : h.as = "switch" /\ h.visit = visit
      BY <1>2, <1>5, <1>10, <3>1 DEF SettingsNews
    <3>2. CASE \E h \in jobs : SettingLast(h) /\ h.phase # "done"
      BY <1>5, <2>2, <3>2 DEF SettingsNews
    <3>3. CASE \E h \in jobs : SettingLast(h) /\ h.phase = "done" /\ Tells(h) = file[active]
      BY <1>2, <1>5, <2>2, <3>3 DEF SettingsNews, Tells
    <3> QED BY <1>2, <1>10, <3>1, <3>2, <3>3 DEF SettingsTruth, SettingsNews
  <2> QED BY <1>4, <1>6, <2>3 DEF SettingsTruth
<1> QED BY <1>8, <1>9, <1>10

\* The buttons of the page
LEMMA SettingActs ==
    ASSUME PageAlone, SettingsTruth,
           \/ Settings!Open \/ Settings!handleSave \/ Settings!handleReset
           \/ \E p \in Imports : Settings!handleImportFile(p)
           \/ \E p \in SomeProfiles : Settings!handleSwitchProfile(p)
    PROVE  SettingsTruth'
<1>0. Settings!DEFAULTS \in Settings!Settings /\ settings \in Settings!Settings
        /\ saved \in Settings!Settings
  BY SettingDefaults DEF SettingsTruth, SettingsValues
<1>1. CASE Settings!Open
  <2>1. PICK v, d : v = visit' /\ d = Settings!DEFAULTS
    OBVIOUS
  <2>2. /\ Settings!Call("load", d, v) /\ UNCHANGED <<file, active>> /\ open'
        /\ settings' = Settings!DEFAULTS /\ saved' = Settings!DEFAULTS
           /\ lang' = Settings!DEFAULTS["language"]
        /\ \A j \in jobs : j.as \notin {"loadLang", "loadTheme"}
    BY <1>1, <2>1 DEF Settings!Open, Settings!disk, Settings!May, PageAlone
  <2>3. SettingsValues'
    BY <1>0, <2>2 DEF SettingsTruth, SettingsValues
  <2>4. SettingsQueue' /\ SettingsNews' /\ \A j \in jobs' : j \in jobs \/ j.as = "load"
    BY <2>1, <2>2, <2>3, SettingCalling DEF FileWrites
  <2> QED BY <2>2, <2>3, <2>4 DEF SettingsTruth, LanguageShows
<1>2. ASSUME NEW op \in FileWrites \cup {"switch"}, NEW arg, Settings!Call(op, arg, visit), open,
             UNCHANGED <<file, active, open, visit, lang, settings, saved>>,
             op \in FileWrites => arg \in Settings!Settings, op = "reset"
               => arg = Settings!DEFAULTS,
             op = "switch" => arg \in SomeProfiles
      PROVE  SettingsTruth'
  <2>1. PICK v : v = visit
    OBVIOUS
  <2>2. Settings!Call(op, arg, v) /\ v = visit' /\ SettingsValues'
    BY <1>2, <2>1 DEF SettingsTruth, SettingsValues
  <2>3. SettingsQueue' /\ SettingsNews' /\ \A j \in jobs' : j \in jobs \/ j.as = op
    BY <1>2, <2>2, SettingCalling
  <2>4. LanguageShows'
    BY <1>2, <2>3 DEF SettingsTruth, LanguageShows, FileWrites
  <2> QED BY <2>2, <2>3, <2>4 DEF SettingsTruth
<1>3. CASE Settings!handleSave
  <2>1. PICK s : s = settings
    OBVIOUS
  <2>2. Settings!Call("save", s, visit) /\ open
          /\ UNCHANGED <<file, active, open, visit, lang, settings, saved>>
    BY <1>3, <2>1 DEF Settings!handleSave, Settings!Form, Settings!disk, Settings!app
  <2> QED BY <1>0, <1>2, <2>1, <2>2 DEF FileWrites
<1>4. CASE Settings!handleReset
  <2>1. Settings!Call("reset", Settings!DEFAULTS, visit) /\ open
          /\ UNCHANGED <<file, active, open, visit, lang, settings, saved>>
    BY <1>4 DEF Settings!handleReset, Settings!Form, Settings!disk, Settings!app
  <2> QED BY <1>0, <1>2, <2>1 DEF FileWrites
<1>5. ASSUME NEW p \in Imports, Settings!handleImportFile(p) PROVE SettingsTruth'
  <2>1. Settings!Call("import", p, visit) /\ open
          /\ UNCHANGED <<file, active, open, visit, lang, settings, saved>>
    BY <1>5 DEF Settings!handleImportFile, Settings!Form, Settings!disk, Settings!app, Settings!form
  <2> QED BY <1>2, <2>1 DEF FileWrites, PageAlone
<1>6. ASSUME NEW p \in SomeProfiles, Settings!handleSwitchProfile(p) PROVE SettingsTruth'
  <2>1. Settings!Call("switch", p, visit) /\ open
          /\ UNCHANGED <<file, active, open, visit, lang, settings, saved>>
    BY <1>6 DEF Settings!handleSwitchProfile, Settings!Form, Settings!disk, Settings!app
  <2> QED BY <1>2, <2>1 DEF FileWrites
<1> QED BY <1>1, <1>3, <1>4, <1>5, <1>6

LEMMA SettingsTruthNext ==
    PageAlone /\ SettingsTruth /\ [Settings!Next]_Settings!vars => SettingsTruth'
<1> SUFFICES ASSUME PageAlone, SettingsTruth, [Settings!Next]_Settings!vars PROVE SettingsTruth'
  OBVIOUS
<1>1. ASSUME UNCHANGED <<file, active, jobs, issued, visit, saved>>,
             settings' \in Settings!Settings,
             open' => open /\ lang' = settings'["language"]
      PROVE  SettingsTruth'
  <2>1. SettingsQueue' /\ SettingsValues' /\ LanguageShows'
    BY <1>1 DEF SettingsTruth, SettingsQueue, SettingEntry, SettingCall, SettingsValues,
                LanguageShows
  <2>2. SettingsNews'
    BY <1>1 DEF SettingsTruth, SettingsNews, SettingLast, SetsSaved, Tells
  <2> QED BY <2>1, <2>2 DEF SettingsTruth
<1>2. settings \in Settings!Settings /\ (open => lang = settings["language"])
  BY DEF SettingsTruth, SettingsValues, LanguageShows
<1>3. CASE UNCHANGED Settings!vars \/ Settings!Leave
  BY <1>1, <1>2, <1>3 DEF Settings!vars, Settings!Leave, Settings!disk, Settings!app, Settings!form
<1>4. ASSUME NEW k \in Settings!Keys, NEW v \in Settings!Values, Settings!set(k, v)
      PROVE  SettingsTruth'
  <2>1. /\ UNCHANGED <<file, active, jobs, issued, visit, saved, open>>
        /\ settings' = [settings EXCEPT ![k] = v] /\ lang' = IF k = "language" THEN v ELSE lang
        /\ open
    BY <1>4 DEF Settings!set, Settings!disk, Settings!Form
  <2>2. settings' \in Settings!Settings /\ lang' = settings'["language"]
    BY <1>2, <2>1 DEF Settings!Settings, Settings!Keys
  <2> QED BY <1>1, <2>1, <2>2
<1>5. ~Settings!toggleLang /\ ~Settings!toggleTheme
        /\ \A v \in Settings!Values : ~Settings!setLangCmd(v) /\ ~Settings!setThemeCmd(v)
  BY DEF Settings!toggleLang, Settings!toggleTheme, Settings!setLangCmd, Settings!setThemeCmd,
         Settings!May, PageAlone
<1>6. ASSUME NEW j \in jobs, NEW ok \in BOOLEAN, Settings!Started(j, ok) PROVE SettingsTruth'
  <2>1. /\ ~open /\ jobs' = jobs \ {j}
        /\ UNCHANGED <<file, active, issued, open, visit, settings, saved>>
    BY <1>6 DEF Settings!Started, Settings!disk, Settings!form, SettingsTruth, LanguageShows
  <2> QED BY <2>1, SettingLeaves DEF SettingsTruth, SettingsValues, SettingsNews, LanguageShows
<1>7. \A j \in jobs, ok \in BOOLEAN : ~Settings!Toggled(j, ok)
  BY DEF Settings!Toggled, SettingsTruth, SettingsQueue, SettingEntry, Settings!Reads, FileWrites
<1> QED
  BY <1>3, <1>4, <1>5, <1>6, <1>7, SettingActs, SettingGoes, SettingAnswers, SettingSwitched
     DEF Settings!Next

\* A form that says nothing is unsaved is what the file holds, at rest, and the
\* app speaks its language.
THEOREM SettingsTrue ==
    PageAlone => (Settings!Spec => [](Settings!DirtyTruthful /\ Settings!LanguageAgrees))
<1> SUFFICES ASSUME PageAlone
             PROVE  Settings!Spec => [](Settings!DirtyTruthful /\ Settings!LanguageAgrees)
  OBVIOUS
<1>1. Settings!Init => SettingsTruth
  <2> SUFFICES ASSUME Settings!Init PROVE SettingsTruth
    OBVIOUS
  <2>1. PICK a, b : /\ a = Settings!Request(1, "loadLang", Settings!DEFAULTS, 0)
                       /\ b = Settings!Request(2, "loadTheme", Settings!DEFAULTS, 0)
                    /\ jobs = {a, b}
    BY DEF Settings!Init
  <2>2. /\ SettingCall(a) /\ a.id = 1 /\ a.as = "loadLang" /\ a.phase = "sent"
           /\ a.saw = Settings!DEFAULTS
        /\ SettingCall(b) /\ b.id = 2 /\ b.as = "loadTheme" /\ b.phase = "sent"
           /\ b.saw = Settings!DEFAULTS
    BY <2>1, SettingAdds DEF Settings!Request, SettingCall
  <2>3. issued = 2
    BY DEF Settings!Init
  <2>4. SettingEntry(a) /\ SettingEntry(b)
    BY <2>2, <2>3, SettingDefaults DEF SettingEntry, Settings!Reads, FileWrites
  <2>5. SettingsQueue
    BY <2>1, <2>2, <2>3, <2>4 DEF SettingsQueue
  <2>6. SettingsValues /\ SettingsNews /\ LanguageShows
    BY SettingDefaults DEF Settings!Init, SettingsValues, SettingsNews, LanguageShows
  <2> QED BY <2>5, <2>6 DEF SettingsTruth
<1>2. SettingsTruth /\ [Settings!Next]_Settings!vars => SettingsTruth'
  BY SettingsTruthNext
<1>3. SettingsTruth => Settings!DirtyTruthful /\ Settings!LanguageAgrees
  BY DEF SettingsTruth, SettingsNews, LanguageShows, Settings!DirtyTruthful,
         Settings!LanguageAgrees, Settings!dirty
<1> QED BY <1>1, <1>2, <1>3, PTL DEF Settings!Spec

-----------------------------------------------------------------------------
(* The switches of the top bar and of the palette *)

TopCall(j) == j = [id |-> j.id, as |-> j.as, visit |-> j.visit, arg |-> j.arg,
                   phase |-> j.phase, saw |-> j.saw]
\* A call of start-up, or of a switch; the one that has loaded the file and is
\* to save it is the first, so the file is still as it saw it.
TopEntry(j) ==
    /\ TopCall(j) /\ j.id \in Nat /\ j.id <= issued
    /\ j.as \in {"loadLang", "loadTheme", "toggle"}
    /\ j.phase = "read" => /\ j.as = "toggle" /\ j.saw = file[active]
                           /\ \A k \in jobs : k.phase # "done" => j.id <= k.id
TopQueue ==
    /\ issued \in Nat /\ ~open /\ DOMAIN file = {None} /\ active \in {None}
    /\ \A j \in jobs : TopEntry(j)
    /\ \A j, k \in jobs : j.id = k.id => j = k
    /\ \A j, k \in jobs : j.as # "toggle" => (k.as # "toggle" /\ (j.as = k.as => j = k))
\* A switch of key that is still to be saved, and the last of them
Sets1(key, j) == j.as = "toggle" /\ key \in DOMAIN j.arg /\ j.phase # "done"
LastSet(key, j) == Sets1(key, j) /\ \A k \in jobs : Sets1(key, k) => k.id <= j.id
\* What shows is still to be loaded, or to be saved, or is in the file.
TopNews(key, load, shows) ==
    \/ \E j \in jobs : j.as = load /\ (j.phase = "done" => j.saw[key] = file[active][key])
    \/ \E j \in jobs : LastSet(key, j) /\ j.arg[key] = shows
    \/ /\ shows = file[active][key]
       /\ \A j \in jobs : j.as # load /\ ~Sets1(key, j)
TopTruth == /\ TopQueue
            /\ TopNews("language", "loadLang", lang)
            /\ TopNews("theme", "loadTheme", theme)

\* A switch is pressed; the other key is not touched.
LEMMA TopPresses ==
    ASSUME TopTruth, NEW key \in {"language", "theme"}, NEW v,
           \A j \in jobs : j.as = "toggle",
           Topbar!Call("toggle", Topbar!Some(key, v), 0), UNCHANGED <<Topbar!disk, open>>,
           key = "language" => lang' = v, key # "language" => lang' = lang,
           key = "theme" => theme' = v, key # "theme" => theme' = theme
    PROVE  TopTruth'
<1>1. PICK r : /\ jobs' = jobs \cup {r} /\ TopCall(r) /\ r.as = "toggle" /\ r.phase = "sent"
               /\ r.arg = Topbar!Some(key, v) /\ r.id = issued'
  <2> DEFINE r == Topbar!Request(issued', "toggle", Topbar!Some(key, v), 0)
  <2>1. /\ TopCall(r) /\ r.as = "toggle" /\ r.phase = "sent"
        /\ r.arg = Topbar!Some(key, v) /\ r.id = issued'
    BY DEF Topbar!Request, TopCall
  <2>2. jobs' = jobs \cup {r}
    BY DEF Topbar!Call
  <2> HIDE DEF r
  <2> QED BY <2>1, <2>2
<1>2. /\ issued \in Nat /\ issued' = issued + 1 /\ issued' \in Nat
      /\ \A j \in jobs : TopEntry(j) /\ j.id \in Nat /\ j.id < issued'
      /\ UNCHANGED <<file, active>>
  BY DEF Topbar!Call, Topbar!disk, TopTruth, TopQueue, TopEntry
<1>3. DOMAIN r.arg = {key} /\ r.arg[key] = v
  BY <1>1 DEF Topbar!Some
<1>4. TopQueue'
  <2>1. TopEntry(r)'
    BY <1>1, <1>2 DEF TopEntry, TopCall
  <2>2. \A j \in jobs : TopEntry(j)'
    BY <1>1, <1>2 DEF TopEntry, TopCall
  <2>3. \A j, k \in jobs' : j.id = k.id => j = k
    BY <1>1, <1>2 DEF TopTruth, TopQueue
  <2>4. \A j \in jobs' : TopEntry(j)' /\ j.as = "toggle"
    BY <1>1, <2>1, <2>2
  <2> QED BY <1>2, <2>3, <2>4 DEF TopTruth, TopQueue
<1>5. Sets1(key, r) /\ LastSet(key, r)'
  BY <1>1, <1>2, <1>3 DEF Sets1, LastSet
<1>6. \A l : l # key => ~Sets1(l, r)
  BY <1>3 DEF Sets1
<1>7. \A l : l # key => \A j \in jobs : LastSet(l, j) => LastSet(l, j)'
  BY <1>1, <1>6 DEF LastSet
<1>8. \A j \in jobs' : j.as = "toggle"
  BY <1>1
<1>9. TopNews("language", "loadLang", lang)'
  <2>1. CASE key = "language"
    BY <1>1, <1>3, <1>5, <2>1 DEF TopNews
  <2>2. CASE key # "language"
    BY <1>1, <1>2, <1>6, <1>7, <1>8, <2>2 DEF TopTruth, TopNews
  <2> QED BY <2>1, <2>2
<1>10. TopNews("theme", "loadTheme", theme)'
  <2>1. CASE key = "theme"
    BY <1>1, <1>3, <1>5, <2>1 DEF TopNews
  <2>2. CASE key # "theme"
    BY <1>1, <1>2, <1>6, <1>7, <1>8, <2>2 DEF TopTruth, TopNews
  <2> QED BY <2>1, <2>2
<1> QED BY <1>4, <1>9, <1>10 DEF TopTruth

\* A call is worked on.
LEMMA TopTurns ==
    ASSUME NEW j, TopCall(j), NEW p, NEW s, Topbar!To(j, p, s)
    PROVE  \E k : /\ jobs' = (jobs \ {j}) \cup {k} /\ TopCall(k)
                  /\ k.id = j.id /\ k.as = j.as /\ k.arg = j.arg /\ k.phase = p /\ k.saw = s
<1> DEFINE i == [j EXCEPT !.phase = p]
           k == [i EXCEPT !.saw = s]
<1>1. jobs' = (jobs \ {j}) \cup {k}
  BY DEF Topbar!To
<1>2. TopCall(i) /\ i.id = j.id /\ i.as = j.as /\ i.arg = j.arg /\ i.phase = p
  BY DEF TopCall
<1> HIDE DEF i
<1>3. TopCall(k) /\ k.id = j.id /\ k.as = j.as /\ k.arg = j.arg /\ k.phase = p /\ k.saw = s
  BY <1>2 DEF TopCall
<1> HIDE DEF k
<1> QED BY <1>1, <1>3

LEMMA TopGoes ==
    ASSUME TopTruth, NEW j \in jobs, Topbar!Load(j) \/ Topbar!Save(j)
    PROVE  TopTruth'
<1>1. TopEntry(j) /\ TopCall(j) /\ TopQueue
  BY DEF TopTruth, TopQueue, TopEntry
<1>2. PICK p, s : /\ Topbar!To(j, p, s) /\ p \in {"read", "done"}
                  /\ Topbar!Load(j) => /\ s = file[active] /\ file' = file /\ j.phase = "sent"
                                       /\ p = (IF j.as = "toggle" THEN "read" ELSE "done")
                  /\ ~Topbar!Load(j) => p = "done" /\ j.phase = "read" /\ j.as = "toggle"
  BY <1>1 DEF Topbar!Load, Topbar!Save, Topbar!Reads, Topbar!disk, TopEntry
<1>3. PICK k : /\ jobs' = (jobs \ {j}) \cup {k} /\ TopCall(k)
               /\ k.id = j.id /\ k.as = j.as /\ k.arg = j.arg /\ k.phase = p /\ k.saw = s
  BY <1>1, <1>2, TopTurns
<1>4. /\ UNCHANGED <<issued, active, lang, theme, open>> /\ j.phase # "done"
      /\ \A h \in jobs : h.phase # "done" => j.id <= h.id
  BY DEF Topbar!Load, Topbar!Save, Topbar!First, Topbar!disk, Topbar!app
<1>5. \A h \in jobs' : h = k \/ (h \in jobs /\ h # j)
  BY <1>3
\* Of the others none is between its load and its save.
<1>6. \A h \in jobs : h # j => h.phase # "read"
  BY <1>1, <1>4 DEF TopQueue, TopEntry
<1>7. DOMAIN file' = {None}
  BY <1>1, <1>2 DEF Topbar!Save, TopQueue
<1>8. TopQueue'
  <2>1. TopEntry(k)'
    <3>1. \A h \in jobs' : h.phase # "done" => k.id <= h.id
      BY <1>1, <1>3, <1>4, <1>5 DEF TopEntry
    <3>2. k.phase = "read" => k.as = "toggle" /\ k.saw = file'[active']
      BY <1>2, <1>3, <1>4
    <3> QED BY <1>1, <1>3, <1>4, <3>1, <3>2 DEF TopEntry, TopCall
  <2>2. \A h \in jobs : h # j => TopEntry(h)'
    BY <1>1, <1>4, <1>6 DEF TopQueue, TopEntry, TopCall
  <2>3. \A h, l \in jobs' : h.id = l.id => h = l
    BY <1>1, <1>3, <1>5 DEF TopQueue
  <2>4. \A h, l \in jobs' : h.as # "toggle" => (l.as # "toggle" /\ (h.as = l.as => h = l))
    BY <1>1, <1>3, <1>5 DEF TopQueue
  <2> QED BY <1>1, <1>4, <1>5, <1>7, <2>1, <2>2, <2>3, <2>4 DEF TopQueue
<1>9. ASSUME NEW key \in {"language", "theme"}, NEW load \in {"loadLang", "loadTheme"}, NEW shows,
             TopNews(key, load, shows)
      PROVE  \/ \E h \in jobs' : h.as = load
                /\ (h.phase = "done" => h.saw[key] = file'[active'][key])
             \/ \E h \in jobs' : LastSet(key, h)' /\ h.arg[key] = shows
             \/ /\ shows = file'[active'][key]
                /\ \A h \in jobs' : h.as # load /\ ~Sets1(key, h)
  <2>1. \A h \in jobs : h # j /\ LastSet(key, h) => LastSet(key, h)'
    BY <1>3, <1>4, <1>5 DEF LastSet, Sets1
  <2>2. CASE \E h \in jobs : h.as = load /\ (h.phase = "done" => h.saw[key] = file[active][key])
    <3>1. Topbar!Load(j) /\ j.as # "toggle"
      BY <1>1, <1>2, <2>2 DEF TopQueue
    <3>2. file' = file /\ s = file[active]
      BY <1>2, <3>1
    <3> QED BY <1>3, <1>4, <2>2, <3>2
  <2>3. CASE \E h \in jobs : h # j /\ LastSet(key, h) /\ h.arg[key] = shows
    BY <1>3, <2>1, <2>3
  <2>4. CASE LastSet(key, j) /\ j.arg[key] = shows
    <3>1. CASE Topbar!Load(j)
      <4>1. LastSet(key, k)'
        BY <1>2, <1>3, <1>5, <2>4, <3>1 DEF LastSet, Sets1
      <4> QED BY <1>3, <2>4, <4>1
    <3>2. CASE ~Topbar!Load(j)
      <4>1. file' = [file EXCEPT ![active] = Topbar!Merged(j.saw, j.arg)] /\ active' = active
        BY <1>4, <3>2 DEF Topbar!Save
      <4>2. file'[active'] = Topbar!Merged(j.saw, j.arg)
        BY <1>1, <4>1 DEF TopQueue
      <4>3. file'[active'][key] = shows
        BY <2>4, <4>2 DEF Topbar!Merged, LastSet, Sets1, Topbar!Keys
      <4>4. \A h \in jobs : Sets1(key, h) => h.id = j.id
        BY <1>1, <1>4, <2>4 DEF LastSet, Sets1, TopQueue, TopEntry
      <4>5. \A h \in jobs : Sets1(key, h) => h = j
        BY <1>1, <4>4 DEF TopQueue
      <4>6. k.phase = "done" /\ k.as = "toggle" /\ j.as = "toggle"
        BY <1>2, <1>3, <3>2
      <4>7. \A h \in jobs' : h.as # load /\ ~Sets1(key, h)
        BY <1>1, <1>5, <4>5, <4>6 DEF Sets1, TopQueue
      <4> QED BY <4>3, <4>7
    <3> QED BY <3>1, <3>2
  <2>5. CASE shows = file[active][key] /\ \A h \in jobs : h.as # load /\ ~Sets1(key, h)
    <3>1. \A h \in jobs' : h.as # load /\ ~Sets1(key, h)
      BY <1>2, <1>3, <1>4, <1>5, <2>5 DEF Sets1
    <3>2. CASE Topbar!Load(j)
      BY <1>2, <1>4, <2>5, <3>1, <3>2
    <3>3. CASE ~Topbar!Load(j)
      <4>1. file' = [file EXCEPT ![active] = Topbar!Merged(j.saw, j.arg)] /\ active' = active
        BY <1>4, <3>3 DEF Topbar!Save
      <4>2. file'[active'] = Topbar!Merged(j.saw, j.arg) /\ j.saw = file[active]
        BY <1>1, <1>2, <3>3, <4>1 DEF TopQueue, TopEntry
      <4>3. key \notin DOMAIN j.arg
        BY <1>2, <1>4, <2>5, <3>3 DEF Sets1
      <4>4. file'[active'][key] = file[active][key]
        BY <4>2, <4>3 DEF Topbar!Merged, Topbar!Keys
      <4> QED BY <2>5, <3>1, <4>4
    <3> QED BY <3>2, <3>3
  <2> QED BY <1>9, <2>2, <2>3, <2>4, <2>5 DEF TopNews
<1>10. TopNews("language", "loadLang", lang)'
  <2>1. PICK shows : shows = lang
    OBVIOUS
  <2>2. TopNews("language", "loadLang", shows)
    BY <2>1 DEF TopTruth
  <2> QED BY <1>4, <1>9, <2>1, <2>2 DEF TopNews
<1>11. TopNews("theme", "loadTheme", theme)'
  <2>1. PICK shows : shows = theme
    OBVIOUS
  <2>2. TopNews("theme", "loadTheme", shows)
    BY <2>1 DEF TopTruth
  <2> QED BY <1>4, <1>9, <2>1, <2>2 DEF TopNews
<1> QED BY <1>8, <1>10, <1>11 DEF TopTruth

\* A call of start-up tells what the file has, one of a switch nothing.
LEMMA TopAnswers ==
    ASSUME TopTruth, NEW j \in jobs, NEW ok \in BOOLEAN,
           Topbar!Started(j, ok) \/ Topbar!Toggled(j, ok)
    PROVE  TopTruth'
<1>1. /\ ok /\ j.phase = "done" /\ jobs' = jobs \ {j} /\ UNCHANGED <<issued, file, active, open>>
      /\ lang'  = IF j.as = "loadLang" THEN j.saw["language"] ELSE lang
      /\ theme' = IF j.as = "loadTheme" THEN j.saw["theme"] ELSE theme
  BY DEF Topbar!Started, Topbar!Toggled, Topbar!Answered, Topbar!disk, Topbar!app
<1>2. TopQueue'
  BY <1>1 DEF TopTruth, TopQueue, TopEntry, TopCall
<1>3. \A key : \A h \in jobs : LastSet(key, h) => LastSet(key, h)' /\ h # j
  BY <1>1 DEF LastSet, Sets1
<1>4. \A key : j.as # "toggle" => \A h \in jobs' : h.as # j.as /\ ~Sets1(key, h)
  BY <1>1 DEF TopTruth, TopQueue, Sets1
<1>5. TopNews("language", "loadLang", lang)'
  <2>1. CASE j.as = "loadLang"
    <3>1. j.saw["language"] = file[active]["language"]
      BY <1>1, <2>1 DEF TopTruth, TopQueue, TopNews, LastSet, Sets1
    <3> QED BY <1>1, <1>4, <2>1, <3>1 DEF TopNews
  <2>2. CASE j.as # "loadLang"
    BY <1>1, <1>3, <2>2 DEF TopTruth, TopNews
  <2> QED BY <2>1, <2>2
<1>6. TopNews("theme", "loadTheme", theme)'
  <2>1. CASE j.as = "loadTheme"
    <3>1. j.saw["theme"] = file[active]["theme"]
      BY <1>1, <2>1 DEF TopTruth, TopQueue, TopNews, LastSet, Sets1
    <3> QED BY <1>1, <1>4, <2>1, <3>1 DEF TopNews
  <2>2. CASE j.as # "loadTheme"
    BY <1>1, <1>3, <2>2 DEF TopTruth, TopNews
  <2> QED BY <2>1, <2>2
<1> QED BY <1>2, <1>5, <1>6 DEF TopTruth

LEMMA TopNext == TopTruth /\ [Topbar!Next]_Topbar!vars => TopTruth'
<1> SUFFICES ASSUME TopTruth, [Topbar!Next]_Topbar!vars PROVE TopTruth'
  OBVIOUS
<1>0. ~open /\ ~Topbar!May("page")
  BY DEF TopTruth, TopQueue, Topbar!May
<1>1. CASE UNCHANGED Topbar!vars
  BY <1>1 DEF Topbar!vars, TopTruth, TopQueue, TopEntry, TopCall, TopNews, LastSet, Sets1
<1>2. Topbar!May("topbar") => \A j \in jobs : j.as = "toggle"
  BY DEF Topbar!May, TopTruth, TopQueue, TopEntry
<1>3. CASE Topbar!toggleLang \/ \E v \in Topbar!Values : Topbar!setLangCmd(v)
  <2>1. PICK v, key : /\ key = "language" /\ Topbar!Call("toggle", Topbar!Some(key, v), 0)
                         /\ lang' = v
                      /\ theme' = theme /\ UNCHANGED <<Topbar!disk, open>> /\ Topbar!May("topbar")
    BY <1>3 DEF Topbar!toggleLang, Topbar!setLangCmd
  <2> QED BY <1>2, <2>1, TopPresses
<1>4. CASE Topbar!toggleTheme \/ \E v \in Topbar!Values : Topbar!setThemeCmd(v)
  <2>1. PICK v, key : /\ key = "theme" /\ Topbar!Call("toggle", Topbar!Some(key, v), 0)
                         /\ theme' = v
                      /\ lang' = lang /\ UNCHANGED <<Topbar!disk, open>> /\ Topbar!May("topbar")
    BY <1>4 DEF Topbar!toggleTheme, Topbar!setThemeCmd
  <2> QED BY <1>2, <2>1, TopPresses
<1>5. \A j \in jobs : j.as \in {"loadLang", "loadTheme", "toggle"}
  BY DEF TopTruth, TopQueue, TopEntry
<1>6. ASSUME Topbar!Next
      PROVE  \/ Topbar!toggleLang \/ Topbar!toggleTheme
                \/ \E v \in Topbar!Values : Topbar!setLangCmd(v) \/ Topbar!setThemeCmd(v)
             \/ \E j \in jobs : \/ Topbar!Load(j) \/ Topbar!Save(j)
                                \/ \E ok \in BOOLEAN : Topbar!Started(j, ok)
                                   \/ Topbar!Toggled(j, ok)
  BY <1>0, <1>5, <1>6
     DEF Topbar!Next, Topbar!Open, Topbar!Leave, Topbar!handleSave, Topbar!handleReset,
         Topbar!set, Topbar!handleImportFile, Topbar!handleSwitchProfile,
         Topbar!Form, Topbar!Switch, Topbar!Loaded, Topbar!SaveDone, Topbar!Imported,
         Topbar!Switched
<1> QED BY <1>1, <1>3, <1>4, <1>6, TopGoes, TopAnswers

\* What the switches of the top bar and of the palette have set is in the file
\* of settings when their calls are answered: if those succeed, come one after the
\* other, and nobody else writes the file.
THEOREM TopbarTrue == Topbar!Spec => []Topbar!TogglesPersist
<1>1. Topbar!Init => TopTruth
  <2> SUFFICES ASSUME Topbar!Init PROVE TopTruth
    OBVIOUS
  <2>1. PICK a, b : /\ a = Topbar!Request(1, "loadLang", Topbar!DEFAULTS, 0)
                       /\ b = Topbar!Request(2, "loadTheme", Topbar!DEFAULTS, 0)
    OBVIOUS
  <2>2. jobs = {a, b} /\ issued = 2
    BY <2>1 DEF Topbar!Init
  <2>3. /\ TopCall(a) /\ a.id = 1 /\ a.as = "loadLang" /\ a.phase = "sent"
        /\ TopCall(b) /\ b.id = 2 /\ b.as = "loadTheme" /\ b.phase = "sent"
    BY <2>1 DEF Topbar!Request, TopCall
  <2>4. DOMAIN file = {None} /\ active \in {None} /\ ~open
    BY DEF Topbar!Init
  <2>5. TopQueue
    BY <2>2, <2>3, <2>4 DEF TopQueue, TopEntry
  <2> QED BY <2>2, <2>3, <2>5 DEF TopTruth, TopNews
<1>2. TopTruth /\ [Topbar!Next]_Topbar!vars => TopTruth'
  BY TopNext
<1>3. TopTruth => Topbar!TogglesPersist
  BY DEF TopTruth, TopNews, Topbar!TogglesPersist
<1> QED BY <1>1, <1>2, <1>3, PTL DEF Topbar!Spec

-----------------------------------------------------------------------------
(* The page of installed packages *)

\* The conduct under which the records are safe
CalmUse == Installed!InstalledAssumption /\ ~Rough

RowOnce == [Records -> 0..1]
CalmJob == [id : 1..Jobs["installed"], op : {"list", "backup", "clear", "restore"},
            visit : 1..Visits["installed"],
            rows : RowOnce, done : BOOLEAN]

RecordShape ==
    /\ open \in BOOLEAN /\ visit \in 0..Visits["installed"] /\ issued \in 0..Jobs["installed"]
    /\ loading \in BOOLEAN /\ confirm \in {None, "clear", "uninstall"}
    /\ shown \in RowOnce /\ disk \in RowOnce /\ jobs \subseteq CalmJob
    /\ \A o \in offers : o.rows \in RowOnce /\ o.visit \in 1..visit
    /\ recorded \subseteq Records /\ late \subseteq recorded /\ released \subseteq recorded
    /\ open => visit # 0

\* A call has an id of its own, and the visit it was made on has been.
RecordIds ==
    /\ \A j \in jobs : j.id <= issued /\ j.visit <= visit
    /\ \A j, k \in jobs : j.id = k.id => j = k

\* One change is under way at a time, and calls are left for what follows it.
OneRecordChange == \A j, k \in Installed!Changing : j = k
RecordRoom == \A j \in Installed!Changing :
  issued + (IF j.op = "backup" THEN 2 ELSE 1) <= Jobs["installed"]

\* The call has the records that the table has, or has them instead of it.
Copies(j)  == (j.op = "backup" /\ j.done) \/ (j.op = "clear" /\ ~j.done)
Carries(j) == (j.op = "clear" /\ j.done) \/ (j.op = "restore" /\ ~j.done)

CopiesAgree == \A j \in Installed!Changing : Copies(j) => j.rows = disk
RestoredIsIn ==
    \A j \in Installed!Changing : (j.op = "restore" /\ j.done) =>
        \A r \in Records : j.rows[r] = 1 => disk[r] = 1

\* A record is in one place.
OnePlace ==
    /\ \A r \in Records, o \in offers : o.rows[r] = 1 =>
         disk[r] = 0 /\ \A p \in offers : p.rows[r] = 1 => p = o
    /\ \A r \in Records, j \in Installed!Changing : (Carries(j) /\ j.rows[r] = 1) =>
         disk[r] = 0 /\ \A o \in offers : o.rows[r] = 0

\* It is in some place from the time it is recorded to that of its release.
SomePlace ==
    \A r \in recorded \ released :
        \/ disk[r] = 1
        \/ \E o \in offers : o.rows[r] = 1
        \/ \E j \in Installed!Changing : Carries(j) /\ j.rows[r] = 1
NoneBefore ==
    \A r \in Records \ recorded :
        /\ disk[r] = 0
        /\ \A o \in offers : o.rows[r] = 0
        /\ \A j \in Installed!Changing : j.rows[r] = 0

\* On the first visit, if nothing changes, the last list that is under way
\* will show the table, and if none is the page shows it.
LastOne(m) == \A k \in jobs : k.id <= m.id
ShownFresh ==
    (open /\ visit = 1 /\ Installed!Changing = {}) =>
        /\ jobs = {} => \A r \in Records \ late : shown[r] = disk[r]
        /\ \A m \in jobs : (LastOne(m) /\ m.done) => \A r \in Records \ late : m.rows[r] = disk[r]

HistoryInv ==
    /\ RecordShape /\ RecordIds /\ OneRecordChange /\ RecordRoom
    /\ CopiesAgree /\ RestoredIsIn /\ OnePlace /\ SomePlace /\ NoneBefore
    /\ ShownFresh

-----------------------------------------------------------------------------
(* The installed page: a call, and the calls that change something *)

RecordCall(n, op, v, rows) == [id |-> n, op |-> op, visit |-> v, rows |-> rows, done |-> FALSE]

\* A call with good fields is one.
LEMMA CallTyped ==
    ASSUME NEW n \in 1..Jobs["installed"], NEW op \in {"list", "backup", "clear", "restore"},
           NEW v \in 1..Visits["installed"], NEW rows \in RowOnce
    PROVE  RecordCall(n, op, v, rows) \in CalmJob
  BY DEF RecordCall, CalmJob

LEMMA ZeroOnce == Installed!Zero \in RowOnce /\ \A r \in Records : Installed!Zero[r] = 0
  BY DEF Installed!Zero, RowOnce

\* The bound on calls, read with one change under way at most.
LEMMA RoomLeft ==
    ASSUME CalmUse, RecordShape, OneRecordChange, NEW n \in Nat, Installed!Room(n)
    PROVE  /\ issued + n <= Jobs["installed"]
           /\ \A j \in Installed!Changing : issued + n + 2 <= Jobs["installed"]
<1>1. CASE Installed!Changing = {}
  BY <1>1, FS_EmptySet, SameRows
     DEF Installed!Room, RecordShape, CalmUse, Installed!InstalledAssumption
<1>2. CASE \E j \in Installed!Changing : TRUE
  <2>1. PICK j \in Installed!Changing : TRUE
    BY <1>2
  <2>2. Installed!Changing = {j}
    BY <2>1 DEF OneRecordChange
  <2>3. Cardinality(Installed!Changing) = 1
    BY <2>2, FS_Singleton, SameRows
  <2> QED
    BY <2>3, SameRows DEF Installed!Room, RecordShape, CalmUse, Installed!InstalledAssumption
<1> QED
  BY <1>1, <1>2

\* A call for the list leaves the changes as they are.
LEMMA ListChanges ==
    ASSUME NEW n, NEW v, NEW rows, jobs' = jobs \cup {RecordCall(n, "list", v, rows)}
    PROVE  Installed!Changing' = Installed!Changing
  BY DEF Installed!Changing, RecordCall

-----------------------------------------------------------------------------
(* The installed page: its steps *)

\* load, and Open, which also puts the page in its first state
LEMMA OpenStep ==
    ASSUME CalmUse, HistoryInv, Installed!Open
    PROVE  HistoryInv'
<1> DEFINE n == RecordCall(issued + 1, "list", visit + 1, Installed!Zero)
<1>a. /\ RecordShape /\ RecordIds /\ OneRecordChange /\ RecordRoom /\ CopiesAgree /\ RestoredIsIn
         /\ OnePlace
      /\ SomePlace /\ NoneBefore /\ ShownFresh
  BY DEF HistoryInv
<1>b. /\ jobs' = jobs \cup {n} /\ issued' = issued + 1 /\ visit' = visit + 1 /\ open' = TRUE
      /\ UNCHANGED <<offers, disk, recorded, released>>
      /\ loading' = TRUE /\ shown' = Installed!Zero /\ confirm' = None /\ late' = {}
      /\ visit < Visits["installed"] /\ Installed!Room(1)
  BY DEF Installed!Open, Installed!Called, RecordCall
<1>c. issued + 1 <= Jobs["installed"]
        /\ \A j \in Installed!Changing : issued + 1 + 2 <= Jobs["installed"]
  BY <1>a, <1>b, RoomLeft
<1>d. Installed!Changing' = Installed!Changing
  BY <1>b, ListChanges
<1>e. /\ n.id = issued + 1 /\ n.op = "list" /\ n.visit = visit + 1 /\ n.rows = Installed!Zero
      /\ n.done = FALSE
  BY DEF RecordCall
<1>f. n \in CalmJob
  BY <1>a, <1>b, <1>c, ZeroOnce, CallTyped DEF RecordShape, CalmUse, Installed!InstalledAssumption
<1>g. \A j \in jobs : j.id \in 1..Jobs["installed"] /\ j.visit \in 1..Visits["installed"]
  BY <1>a DEF RecordShape, CalmJob
<1> HIDE DEF n
<1>1. RecordShape'
  BY <1>a, <1>b, <1>c, <1>f, ZeroOnce DEF RecordShape, CalmUse, Installed!InstalledAssumption
<1>2. RecordIds'
  BY <1>a, <1>b, <1>e, <1>g DEF RecordIds, RecordShape, CalmUse, Installed!InstalledAssumption
<1>3. OneRecordChange'
  BY <1>a, <1>d DEF OneRecordChange
<1>4. RecordRoom'
  BY <1>a, <1>b, <1>c, <1>d DEF RecordRoom, RecordShape, CalmUse, Installed!InstalledAssumption
<1>5. CopiesAgree' /\ RestoredIsIn' /\ OnePlace' /\ SomePlace' /\ NoneBefore'
  BY <1>a, <1>b, <1>d
     DEF CopiesAgree, RestoredIsIn, OnePlace, SomePlace, NoneBefore, Copies, Carries
<1>6. ShownFresh'
  <2>1. n \in jobs'
    BY <1>b
  <2>2. \A m \in jobs' : LastOne(m)' => m = n
    BY <1>a, <1>b, <1>e, <1>g, <2>1
       DEF LastOne, RecordIds, RecordShape, CalmUse, Installed!InstalledAssumption
  <2> QED
    BY <2>1, <2>2, <1>e DEF ShownFresh
<1> QED
  BY <1>1, <1>2, <1>3, <1>4, <1>5, <1>6 DEF HistoryInv

LEMMA LoadStep ==
    ASSUME CalmUse, HistoryInv, Installed!load
    PROVE  HistoryInv'
<1> DEFINE n == RecordCall(issued + 1, "list", visit, Installed!Zero)
<1>a. /\ RecordShape /\ RecordIds /\ OneRecordChange /\ RecordRoom /\ CopiesAgree /\ RestoredIsIn
         /\ OnePlace
      /\ SomePlace /\ NoneBefore /\ ShownFresh
  BY DEF HistoryInv
<1>b. /\ jobs' = jobs \cup {n} /\ issued' = issued + 1 /\ loading' = TRUE /\ open
      /\ UNCHANGED <<open, visit, shown, confirm, offers, disk, recorded, late, released>>
      /\ Installed!Room(1)
  BY DEF Installed!load, Installed!Called, RecordCall
<1>c. issued + 1 <= Jobs["installed"]
        /\ \A j \in Installed!Changing : issued + 1 + 2 <= Jobs["installed"]
  BY <1>a, <1>b, RoomLeft
<1>d. Installed!Changing' = Installed!Changing
  BY <1>b, ListChanges
<1>e. n.id = issued + 1 /\ n.op = "list" /\ n.visit = visit /\ n.done = FALSE
  BY DEF RecordCall
<1>f. n \in CalmJob
  BY <1>a, <1>b, <1>c, ZeroOnce, CallTyped DEF RecordShape, CalmUse, Installed!InstalledAssumption
<1>g. \A j \in jobs : j.id \in 1..Jobs["installed"] /\ j.visit \in 1..Visits["installed"]
  BY <1>a DEF RecordShape, CalmJob
<1> HIDE DEF n
<1>1. RecordShape'
  BY <1>a, <1>b, <1>c, <1>f DEF RecordShape, CalmUse, Installed!InstalledAssumption
<1>2. RecordIds'
  BY <1>a, <1>b, <1>e, <1>g DEF RecordIds, RecordShape, CalmUse, Installed!InstalledAssumption
<1>3. OneRecordChange'
  BY <1>a, <1>d DEF OneRecordChange
<1>4. RecordRoom'
  BY <1>a, <1>b, <1>c, <1>d DEF RecordRoom, RecordShape, CalmUse, Installed!InstalledAssumption
<1>5. CopiesAgree' /\ RestoredIsIn' /\ OnePlace' /\ SomePlace' /\ NoneBefore'
  BY <1>a, <1>b, <1>d
     DEF CopiesAgree, RestoredIsIn, OnePlace, SomePlace, NoneBefore, Copies, Carries
<1>6. ShownFresh'
  <2>1. n \in jobs'
    BY <1>b
  <2>2. \A m \in jobs' : LastOne(m)' => m = n
    BY <1>a, <1>b, <1>e, <1>g, <2>1
       DEF LastOne, RecordIds, RecordShape, CalmUse, Installed!InstalledAssumption
  <2> QED
    BY <2>1, <2>2, <1>e DEF ShownFresh
<1> QED
  BY <1>1, <1>2, <1>3, <1>4, <1>5, <1>6 DEF HistoryInv

\* Leaving the page and its dialogs
LEMMA DialogStep ==
    ASSUME CalmUse, HistoryInv,
           \/ Installed!Leave
           \/ \E what \in {"clear", "uninstall"} : Installed!Ask(what) \/ Installed!Close(what)
    PROVE  HistoryInv'
<1>a. /\ RecordShape /\ RecordIds /\ OneRecordChange /\ RecordRoom /\ CopiesAgree /\ RestoredIsIn
         /\ OnePlace
      /\ SomePlace /\ NoneBefore /\ ShownFresh
  BY DEF HistoryInv
<1>b. /\ UNCHANGED <<visit, loading, shown, offers, disk, recorded, late, released, issued, jobs>>
      /\ open' \in BOOLEAN /\ (open' => open) /\ confirm' \in {None, "clear", "uninstall"}
  BY <1>a DEF Installed!Leave, Installed!Ask, Installed!Close, RecordShape
<1>c. Installed!Changing' = Installed!Changing
  BY <1>b DEF Installed!Changing
<1>1. RecordShape' /\ RecordIds'
  BY <1>a, <1>b DEF RecordShape, RecordIds
<1>2. OneRecordChange' /\ RecordRoom'
  BY <1>a, <1>b, <1>c DEF OneRecordChange, RecordRoom
<1>3. CopiesAgree' /\ RestoredIsIn' /\ OnePlace' /\ SomePlace' /\ NoneBefore'
  BY <1>a, <1>b, <1>c
     DEF CopiesAgree, RestoredIsIn, OnePlace, SomePlace, NoneBefore, Copies, Carries
<1>4. ShownFresh'
  BY <1>a, <1>b, <1>c DEF ShownFresh, LastOne
<1> QED
  BY <1>1, <1>2, <1>3, <1>4 DEF HistoryInv

\* A clear begins with a fetch, which carries nothing yet.
LEMMA ClearStep ==
    ASSUME CalmUse, HistoryInv, Installed!handleClear
    PROVE  HistoryInv'
<1> DEFINE n == RecordCall(issued + 1, "backup", visit, Installed!Zero)
<1>a. /\ RecordShape /\ RecordIds /\ OneRecordChange /\ RecordRoom /\ CopiesAgree /\ RestoredIsIn
         /\ OnePlace
      /\ SomePlace /\ NoneBefore /\ ShownFresh
  BY DEF HistoryInv
<1>b. /\ jobs' = jobs \cup {n} /\ issued' = issued + 1 /\ confirm' = None /\ open
      /\ UNCHANGED <<open, visit, loading, shown, offers, disk, recorded, late, released>>
      /\ Installed!Room(3) /\ Installed!Changing = {}
  BY DEF Installed!handleClear, Installed!Called, RecordCall, CalmUse
<1>c. issued + 3 <= Jobs["installed"]
  BY <1>a, <1>b, RoomLeft
<1>e. /\ n.id = issued + 1 /\ n.op = "backup" /\ n.visit = visit /\ n.done = FALSE
      /\ n.rows = Installed!Zero
  BY DEF RecordCall
<1>f. n \in CalmJob
  BY <1>a, <1>b, <1>c, ZeroOnce, CallTyped DEF RecordShape, CalmUse, Installed!InstalledAssumption
<1>g. \A j \in jobs : j.id \in 1..Jobs["installed"] /\ j.visit \in 1..Visits["installed"]
  BY <1>a DEF RecordShape, CalmJob
<1> HIDE DEF n
<1>d. Installed!Changing' = {n}
  BY <1>b, <1>e DEF Installed!Changing
<1>1. RecordShape'
  BY <1>a, <1>b, <1>c, <1>f DEF RecordShape, CalmUse, Installed!InstalledAssumption
<1>2. RecordIds'
  BY <1>a, <1>b, <1>e, <1>g DEF RecordIds, RecordShape, CalmUse, Installed!InstalledAssumption
<1>3. OneRecordChange'
  BY <1>d DEF OneRecordChange
<1>4. RecordRoom'
  BY <1>a, <1>b, <1>c, <1>d, <1>e
     DEF RecordRoom, RecordShape, CalmUse, Installed!InstalledAssumption
<1>5. CopiesAgree' /\ RestoredIsIn' /\ OnePlace' /\ SomePlace'
  BY <1>a, <1>b, <1>d, <1>e DEF CopiesAgree, RestoredIsIn, OnePlace, SomePlace, Copies, Carries
<1>6. NoneBefore'
  BY <1>a, <1>b, <1>d, <1>e, ZeroOnce DEF NoneBefore
<1>7. ShownFresh'
  BY <1>d DEF ShownFresh
<1> QED
  BY <1>1, <1>2, <1>3, <1>4, <1>5, <1>6, <1>7 DEF HistoryInv

\* An undo takes the records from the offer into the call.
LEMMA RestoreStep ==
    ASSUME CalmUse, HistoryInv, NEW o \in offers, Installed!handleRestore(o)
    PROVE  HistoryInv'
<1> DEFINE n == RecordCall(issued + 1, "restore", o.visit, o.rows)
<1>a. /\ RecordShape /\ RecordIds /\ OneRecordChange /\ RecordRoom /\ CopiesAgree /\ RestoredIsIn
         /\ OnePlace
      /\ SomePlace /\ NoneBefore /\ ShownFresh
  BY DEF HistoryInv
<1>b. /\ jobs' = jobs \cup {n} /\ issued' = issued + 1 /\ offers' = offers \ {o}
      /\ UNCHANGED <<open, visit, loading, shown, confirm, disk, recorded, late, released>>
      /\ Installed!Room(2) /\ Installed!Changing = {}
  BY DEF Installed!handleRestore, Installed!Called, RecordCall, CalmUse
<1>c. issued + 2 <= Jobs["installed"]
  BY <1>a, <1>b, RoomLeft
<1>e. /\ n.id = issued + 1 /\ n.op = "restore" /\ n.visit = o.visit /\ n.done = FALSE
      /\ n.rows = o.rows
  BY DEF RecordCall
<1>h. o.rows \in RowOnce /\ o.visit \in 1..visit
  BY <1>a DEF RecordShape
<1>f. n \in CalmJob
  BY <1>a, <1>h, <1>c, CallTyped DEF RecordShape, CalmUse, Installed!InstalledAssumption
<1>g. \A j \in jobs : j.id \in 1..Jobs["installed"] /\ j.visit \in 1..Visits["installed"]
  BY <1>a DEF RecordShape, CalmJob
<1> HIDE DEF n
<1>d. Installed!Changing' = {n}
  BY <1>b, <1>e DEF Installed!Changing
<1>1. RecordShape'
  BY <1>a, <1>b, <1>c, <1>f DEF RecordShape, CalmUse, Installed!InstalledAssumption
<1>2. RecordIds'
  BY <1>a, <1>b, <1>e, <1>g, <1>h DEF RecordIds, RecordShape, CalmUse, Installed!InstalledAssumption
<1>3. OneRecordChange'
  BY <1>d DEF OneRecordChange
<1>4. RecordRoom'
  BY <1>a, <1>b, <1>c, <1>d, <1>e
     DEF RecordRoom, RecordShape, CalmUse, Installed!InstalledAssumption
<1>5. CopiesAgree' /\ RestoredIsIn'
  BY <1>d, <1>e DEF CopiesAgree, RestoredIsIn, Copies
<1>6. OnePlace'
  <2>1. \A p \in offers : p.rows \in RowOnce
    BY <1>a DEF RecordShape
  <2>2. \A r \in Records, p \in offers' : p.rows[r] = 1 =>
          disk[r] = 0 /\ \A w \in offers' : w.rows[r] = 1 => w = p
    BY <1>a, <1>b DEF OnePlace
  <2>3. \A r \in Records : n.rows[r] = 1 => disk[r] = 0 /\ \A p \in offers' : p.rows[r] = 0
    BY <1>a, <1>b, <1>e, <2>1 DEF OnePlace, RowOnce
  <2> QED
    BY <1>b, <1>d, <2>2, <2>3 DEF OnePlace, Carries
<1>7. SomePlace'
  BY <1>a, <1>b, <1>d, <1>e DEF SomePlace, Carries
<1>8. NoneBefore'
  BY <1>a, <1>b, <1>d, <1>e DEF NoneBefore
<1>9. ShownFresh'
  BY <1>d DEF ShownFresh
<1> QED
  BY <1>1, <1>2, <1>3, <1>4, <1>5, <1>6, <1>7, <1>8, <1>9 DEF HistoryInv

\* An offer that lapses releases its records.
LEMMA LapseStep ==
    ASSUME CalmUse, HistoryInv, NEW o \in offers, Installed!Lapse(o)
    PROVE  HistoryInv'
<1>a. /\ RecordShape /\ RecordIds /\ OneRecordChange /\ RecordRoom /\ CopiesAgree /\ RestoredIsIn
         /\ OnePlace
      /\ SomePlace /\ NoneBefore /\ ShownFresh
  BY DEF HistoryInv
<1>b. /\ UNCHANGED <<open, visit, loading, shown, confirm, disk, recorded, late, issued, jobs>>
      /\ offers' = offers \ {o}
      /\ released' = released \cup {r \in Records : o.rows[r] > 0}
  BY DEF Installed!Lapse
<1>c. Installed!Changing' = Installed!Changing
  BY <1>b DEF Installed!Changing
<1>d. \A r \in Records : o.rows[r] > 0 <=> o.rows[r] = 1
  BY <1>a DEF RecordShape, RowOnce
<1>e. {r \in Records : o.rows[r] > 0} \subseteq recorded
  BY <1>a, <1>d DEF NoneBefore
<1>1. RecordShape' /\ RecordIds'
  BY <1>a, <1>b, <1>e DEF RecordShape, RecordIds
<1>2. OneRecordChange' /\ RecordRoom'
  BY <1>a, <1>b, <1>c DEF OneRecordChange, RecordRoom
<1>3. CopiesAgree' /\ RestoredIsIn' /\ OnePlace' /\ NoneBefore'
  BY <1>a, <1>b, <1>c DEF CopiesAgree, RestoredIsIn, OnePlace, NoneBefore, Copies, Carries
<1>4. SomePlace'
  <2> SUFFICES ASSUME NEW r \in recorded, r \notin released'
               PROVE  \/ disk[r] = 1
                      \/ \E p \in offers' : p.rows[r] = 1
                      \/ \E j \in Installed!Changing : Carries(j) /\ j.rows[r] = 1
    BY <1>b, <1>c DEF SomePlace
  <2>1. r \in Records /\ r \notin released /\ ~(o.rows[r] = 1)
    BY <1>a, <1>b, <1>d DEF RecordShape
  <2> QED
    BY <1>a, <1>b, <2>1 DEF SomePlace
<1>5. ShownFresh'
  BY <1>a, <1>b, <1>c DEF ShownFresh, LastOne
<1> QED
  BY <1>1, <1>2, <1>3, <1>4, <1>5 DEF HistoryInv

-----------------------------------------------------------------------------
(* The installed page: the steps of the sidecar *)

\* A pipeline records its conversion while nothing changes.
LEMMA RecordStep ==
    ASSUME CalmUse, HistoryInv, NEW r \in Records, Installed!add_record(r)
    PROVE  HistoryInv'
<1>a. /\ RecordShape /\ RecordIds /\ OneRecordChange /\ RecordRoom /\ CopiesAgree /\ RestoredIsIn
         /\ OnePlace
      /\ SomePlace /\ NoneBefore /\ ShownFresh
  BY DEF HistoryInv
<1>b. /\ UNCHANGED <<open, visit, loading, shown, confirm, offers, released, issued, jobs>>
      /\ r \notin recorded /\ Installed!Changing = {}
      /\ recorded' = recorded \cup {r} /\ disk' = [disk EXCEPT ![r] = 1]
      /\ late' = IF open THEN late \cup {r} ELSE late
  BY DEF Installed!add_record, CalmUse
<1>c. Installed!Changing' = {}
  BY <1>b DEF Installed!Changing
<1>d. /\ disk' \in RowOnce /\ disk'[r] = 1 /\ \A x \in Records \ {r} : disk'[x] = disk[x]
  BY <1>a, <1>b DEF RecordShape, RowOnce
<1>e. \A o \in offers : o.rows[r] = 0
  BY <1>a, <1>b DEF NoneBefore
<1>1. RecordShape' /\ RecordIds'
  BY <1>a, <1>b, <1>d DEF RecordShape, RecordIds
<1>2. OneRecordChange' /\ RecordRoom' /\ CopiesAgree' /\ RestoredIsIn'
  BY <1>c DEF OneRecordChange, RecordRoom, CopiesAgree, RestoredIsIn
<1>3. OnePlace'
  BY <1>a, <1>b, <1>c, <1>d, <1>e DEF OnePlace
<1>4. SomePlace'
  <2> SUFFICES ASSUME NEW x \in recorded', x \notin released'
               PROVE  disk'[x] = 1 \/ \E o \in offers' : o.rows[x] = 1
    BY DEF SomePlace
  <2>1. CASE x = r
    BY <2>1, <1>d
  <2>2. CASE x # r
    BY <2>2, <1>a, <1>b, <1>d DEF SomePlace, RecordShape
  <2> QED
    BY <2>1, <2>2
<1>5. NoneBefore'
  BY <1>a, <1>b, <1>c, <1>d DEF NoneBefore
<1>6. ShownFresh'
  BY <1>a, <1>b, <1>c, <1>d DEF ShownFresh, LastOne
<1> QED
  BY <1>1, <1>2, <1>3, <1>4, <1>5, <1>6 DEF HistoryInv

\* The request's thread has done its part: the call is the same, but for what
\* it has fetched.
LEMMA WorkStep ==
    ASSUME CalmUse, HistoryInv, NEW j \in jobs, NEW fine \in BOOLEAN, Installed!Work(j, fine)
    PROVE  HistoryInv'
<1> DEFINE got == IF j.op \in {"list", "backup"} THEN disk ELSE j.rows
           k == [j EXCEPT !.done = TRUE, !.rows = got]
<1>a. /\ RecordShape /\ RecordIds /\ OneRecordChange /\ RecordRoom /\ CopiesAgree /\ RestoredIsIn
         /\ OnePlace
      /\ SomePlace /\ NoneBefore /\ ShownFresh
  BY DEF HistoryInv
<1>b. /\ UNCHANGED <<open, visit, loading, shown, confirm, offers,
                     recorded, late, released, issued>>
      /\ ~j.done /\ jobs' = (jobs \ {j}) \cup {k}
      /\ j.op = "clear" => disk' = Installed!Zero
      /\ j.op = "restore" => disk' = [r \in Records |-> disk[r] + j.rows[r]]
      /\ j.op \in {"list", "backup"} => disk' = disk
  <2>1. fine /\ ~j.done
    BY DEF Installed!Work, CalmUse
  <2>2. jobs' = (jobs \ {j}) \cup {k}
    BY <2>1 DEF Installed!Work
  <2> HIDE DEF k
  <2> QED
    BY <2>1, <2>2 DEF Installed!Work
<1>c. j \in CalmJob /\ disk \in RowOnce
  BY <1>a DEF RecordShape
<1>e. /\ k.id = j.id /\ k.op = j.op /\ k.visit = j.visit /\ k.done = TRUE
      /\ j.op \in {"list", "backup"} => k.rows = disk
      /\ j.op \in {"clear", "restore"} => k.rows = j.rows
      /\ k \in CalmJob
  BY <1>c DEF CalmJob
<1>g. \A i \in jobs : i.id \in 1..Jobs["installed"] /\ i.visit \in 1..Visits["installed"]
  BY <1>a DEF RecordShape, CalmJob
<1> HIDE DEF k
<1>h. j \in Installed!Changing => Installed!Changing' = {k}
  BY <1>a, <1>b, <1>e DEF Installed!Changing, OneRecordChange
<1>i. j \notin Installed!Changing => j.op = "list" /\ Installed!Changing' = Installed!Changing
  BY <1>b, <1>e DEF Installed!Changing
<1>j. j \in Installed!Changing
        => j.op \in {"backup", "clear", "restore"} /\ Installed!Changing = {j}
  BY <1>a, <1>c DEF Installed!Changing, OneRecordChange, CalmJob
<1>k. disk' \in RowOnce
  <2>1. CASE j.op = "clear"
    BY <2>1, <1>b, ZeroOnce
  <2>2. CASE j.op = "restore"
    <3>1. j \in Installed!Changing /\ Carries(j)
      BY <2>2, <1>b DEF Installed!Changing, Carries
    <3>2. \A r \in Records : disk[r] + j.rows[r] \in 0..1
      BY <3>1, <1>a, <1>c DEF OnePlace, CalmJob, RowOnce
    <3> QED
      BY <3>2, <2>2, <1>b DEF RowOnce
  <2>3. CASE j.op \in {"list", "backup"}
    BY <2>3, <1>b, <1>c
  <2> QED
    BY <2>1, <2>2, <2>3, <1>c DEF CalmJob
<1>1. RecordShape'
  BY <1>a, <1>b, <1>e, <1>k DEF RecordShape
<1>2. RecordIds'
  BY <1>a, <1>b, <1>e, <1>g DEF RecordIds
<1>3. OneRecordChange'
  BY <1>a, <1>h, <1>i DEF OneRecordChange
<1>4. RecordRoom'
  BY <1>a, <1>b, <1>e, <1>h, <1>i DEF RecordRoom
<1>5. CASE j \notin Installed!Changing
  <2>1. disk' = disk /\ Installed!Changing' = Installed!Changing
    BY <1>5, <1>i, <1>b
  <2>2. CopiesAgree' /\ RestoredIsIn' /\ OnePlace' /\ SomePlace' /\ NoneBefore'
    BY <1>a, <1>b, <2>1
       DEF CopiesAgree, RestoredIsIn, OnePlace, SomePlace, NoneBefore, Copies, Carries
  <2>3. ShownFresh'
    <3> SUFFICES ASSUME open, visit = 1, Installed!Changing = {}
                 PROVE  /\ jobs' # {}
                        /\ \A m \in jobs' : (LastOne(m)' /\ m.done) =>
                             \A r \in Records \ late : m.rows[r] = disk[r]
      BY <1>b, <2>1 DEF ShownFresh
    <3>1. \A m \in jobs : m # j /\ LastOne(m)' => LastOne(m)
      BY <1>b, <1>e DEF LastOne
    <3>2. k.rows = disk
      BY <1>5, <1>i, <1>e
    <3> QED
      BY <3>1, <3>2, <1>a, <1>b DEF ShownFresh
  <2> QED
    BY <1>1, <1>2, <1>3, <1>4, <2>2, <2>3 DEF HistoryInv
<1>6. CASE j \in Installed!Changing
  <2>a. Installed!Changing = {j} /\ Installed!Changing' = {k}
          /\ j.op \in {"backup", "clear", "restore"}
    BY <1>6, <1>h, <1>j
  <2>b. j.rows \in RowOnce /\ disk \in RowOnce
    BY <1>c DEF CalmJob
  <2>c. ShownFresh'
    BY <2>a DEF ShownFresh
  <2>1. CASE j.op = "backup"
    <3>1. disk' = disk /\ k.rows = disk /\ k.op = "backup" /\ k.done
      BY <2>1, <1>b, <1>e
    <3>2. CopiesAgree' /\ RestoredIsIn' /\ OnePlace' /\ SomePlace' /\ NoneBefore'
      BY <1>a, <1>b, <2>1, <2>a, <3>1
         DEF CopiesAgree, RestoredIsIn, OnePlace, SomePlace, NoneBefore, Copies, Carries
    <3> QED
      BY <1>1, <1>2, <1>3, <1>4, <2>c, <3>2 DEF HistoryInv
  <2>2. CASE j.op = "clear"
    <3>1. disk' = Installed!Zero /\ k.rows = disk /\ k.op = "clear" /\ k.done
      BY <2>2, <2>a, <1>a, <1>b, <1>e DEF CopiesAgree, Copies
    <3>2. \A r \in Records : disk'[r] = 0
      BY <3>1, ZeroOnce
    <3>3. CopiesAgree' /\ RestoredIsIn'
      BY <2>a, <3>1 DEF CopiesAgree, RestoredIsIn, Copies
    <3>4. \A o \in offers : o.rows \in RowOnce
      BY <1>a DEF RecordShape
    <3>5. \A r \in Records : disk[r] = 1 => \A o \in offers : o.rows[r] = 0
      BY <1>a, <3>4 DEF OnePlace, RowOnce
    <3>6. OnePlace'
      BY <1>a, <1>b, <2>a, <3>1, <3>2, <3>5 DEF OnePlace
    <3>7. SomePlace'
      BY <1>a, <1>b, <2>2, <2>a, <3>1 DEF SomePlace, Carries
    <3>8. NoneBefore'
      BY <1>a, <1>b, <2>a, <3>1, <3>2 DEF NoneBefore
    <3> QED
      BY <1>1, <1>2, <1>3, <1>4, <2>c, <3>3, <3>6, <3>7, <3>8 DEF HistoryInv
  <2>3. CASE j.op = "restore"
    <3>1. k.rows = j.rows /\ k.op = "restore" /\ k.done /\ Carries(j) /\ ~Carries(k)
      BY <2>3, <1>b, <1>e DEF Carries
    <3>2. \A r \in Records : /\ disk'[r] = disk[r] + j.rows[r]
                             /\ disk[r] \in 0..1 /\ j.rows[r] \in 0..1
                             /\ j.rows[r] = 1 => disk[r] = 0 /\ \A o \in offers : o.rows[r] = 0
      BY <2>3, <2>a, <2>b, <3>1, <1>a, <1>b DEF OnePlace, RowOnce
    <3>3. CopiesAgree' /\ RestoredIsIn'
      BY <2>a, <3>1, <3>2 DEF CopiesAgree, RestoredIsIn, Copies
    <3>4. \A o \in offers : o.rows \in RowOnce
      BY <1>a DEF RecordShape
    <3>5. OnePlace'
      <4>1. \A r \in Records, o \in offers : o.rows[r] = 1 => j.rows[r] = 0 /\ disk[r] = 0
        BY <1>a, <3>2 DEF OnePlace
      <4>2. \A r \in Records, o \in offers : o.rows[r] = 1 =>
              disk'[r] = 0 /\ \A p \in offers : p.rows[r] = 1 => p = o
        BY <4>1, <1>a, <3>2 DEF OnePlace
      <4> QED
        BY <4>2, <1>b, <2>a, <3>1 DEF OnePlace, Carries
    <3>6. SomePlace'
      <4> SUFFICES ASSUME NEW r \in recorded, r \notin released
                   PROVE  disk'[r] = 1 \/ \E o \in offers : o.rows[r] = 1
        BY <1>b DEF SomePlace
      <4>1. \/ disk[r] = 1 \/ j.rows[r] = 1 \/ \E o \in offers : o.rows[r] = 1
        BY <1>a, <2>a DEF SomePlace
      <4>2. r \in Records
        BY <1>a DEF RecordShape
      <4> QED
        BY <4>1, <4>2, <3>2
    <3>7. NoneBefore'
      BY <1>a, <1>b, <2>a, <3>1, <3>2 DEF NoneBefore
    <3> QED
      BY <1>1, <1>2, <1>3, <1>4, <2>c, <3>3, <3>5, <3>6, <3>7 DEF HistoryInv
  <2> QED
    BY <2>a, <2>1, <2>2, <2>3
<1> QED
  BY <1>5, <1>6

-----------------------------------------------------------------------------
(* The installed page: answers, which come in the order of the calls *)

Answered(j) ==
    /\ j.done /\ \A k \in jobs : j.id <= k.id
    /\ UNCHANGED <<open, visit, confirm, disk, recorded, late, released>>

\* A list is shown, if the page that asked for it is.
LEMMA ListedStep ==
    ASSUME CalmUse, HistoryInv, NEW j \in jobs, Answered(j), Installed!Listed(j, TRUE)
    PROVE  HistoryInv'
<1>a. /\ RecordShape /\ RecordIds /\ OneRecordChange /\ RecordRoom /\ CopiesAgree /\ RestoredIsIn
         /\ OnePlace
      /\ SomePlace /\ NoneBefore /\ ShownFresh
  BY DEF HistoryInv
<1>b. /\ j.done /\ \A k \in jobs : j.id <= k.id
      /\ UNCHANGED <<open, visit, confirm, disk, recorded, late, released, offers, issued>>
      /\ j.op = "list" /\ jobs' = jobs \ {j}
      /\ loading' = IF Installed!Here(j) THEN FALSE ELSE loading
      /\ shown' = IF Installed!Here(j) THEN j.rows ELSE shown
  BY DEF Answered, Installed!Listed
<1>c. Installed!Changing' = Installed!Changing
  BY <1>b DEF Installed!Changing
<1>d. j \in CalmJob
  BY <1>a DEF RecordShape
<1>g. \A i \in jobs : i.id \in 1..Jobs["installed"] /\ i.visit \in 1..Visits["installed"]
  BY <1>a DEF RecordShape, CalmJob
<1>1. RecordShape' /\ RecordIds'
  BY <1>a, <1>b, <1>d DEF RecordShape, RecordIds, CalmJob
<1>2. OneRecordChange' /\ RecordRoom'
  BY <1>a, <1>b, <1>c DEF OneRecordChange, RecordRoom
<1>3. CopiesAgree' /\ RestoredIsIn' /\ OnePlace' /\ SomePlace' /\ NoneBefore'
  BY <1>a, <1>b, <1>c
     DEF CopiesAgree, RestoredIsIn, OnePlace, SomePlace, NoneBefore, Copies, Carries
<1>4. ShownFresh'
  <2> SUFFICES ASSUME open, visit = 1, Installed!Changing = {}
               PROVE  /\ jobs' = {} => \A r \in Records \ late : shown'[r] = disk[r]
                      /\ \A m \in jobs' : (LastOne(m)' /\ m.done) =>
                           \A r \in Records \ late : m.rows[r] = disk[r]
    BY <1>b, <1>c DEF ShownFresh
  <2>1. ASSUME jobs' = {} PROVE \A r \in Records \ late : shown'[r] = disk[r]
    <3>1. jobs = {j}
      BY <2>1, <1>b
    <3>2. LastOne(j)
      BY <3>1, <1>g DEF LastOne
    <3>3. j.visit = visit
      BY <1>a, <1>g DEF RecordIds, RecordShape
    <3> QED
      BY <3>2, <3>3, <1>a, <1>b DEF ShownFresh, Installed!Here
  <2>2. \A m \in jobs' : LastOne(m)' => LastOne(m)
    BY <1>b DEF LastOne
  <2> QED
    BY <2>1, <2>2, <1>a, <1>b DEF ShownFresh
<1> QED
  BY <1>1, <1>2, <1>3, <1>4 DEF HistoryInv

\* What was fetched goes along with the call that clears.
LEMMA FetchedStep ==
    ASSUME CalmUse, HistoryInv, NEW j \in jobs, Answered(j), Installed!Fetched(j)
    PROVE  HistoryInv'
<1> DEFINE n == RecordCall(issued + 1, "clear", j.visit, j.rows)
<1>a. /\ RecordShape /\ RecordIds /\ OneRecordChange /\ RecordRoom /\ CopiesAgree /\ RestoredIsIn
         /\ OnePlace
      /\ SomePlace /\ NoneBefore /\ ShownFresh
  BY DEF HistoryInv
<1>b. /\ j.done /\ j.op = "backup" /\ issued' = issued + 1
      /\ UNCHANGED <<open, visit, confirm, disk, recorded, late, released, loading, shown, offers>>
      /\ jobs' = (jobs \cup {n}) \ {j}
  BY DEF Answered, Installed!Fetched, Installed!Called, RecordCall
<1>d. j \in CalmJob /\ j \in Installed!Changing
  BY <1>a, <1>b DEF RecordShape, Installed!Changing
<1>c. issued + 2 <= Jobs["installed"]
  BY <1>a, <1>b, <1>d DEF RecordRoom
<1>e. /\ n.id = issued + 1 /\ n.op = "clear" /\ n.visit = j.visit /\ n.rows = j.rows
      /\ n.done = FALSE
  BY DEF RecordCall
<1>f. n \in CalmJob
  BY <1>a, <1>c, <1>d, CallTyped DEF RecordShape, CalmJob, CalmUse, Installed!InstalledAssumption
<1>g. \A i \in jobs : i.id \in 1..Jobs["installed"] /\ i.visit \in 1..Visits["installed"]
  BY <1>a DEF RecordShape, CalmJob
<1>h. n # j
  BY <1>b, <1>e
<1> HIDE DEF n
<1>i. Installed!Changing = {j} /\ Installed!Changing' = {n}
  BY <1>a, <1>b, <1>d, <1>e, <1>h DEF Installed!Changing, OneRecordChange
<1>j. j.rows = disk
  BY <1>a, <1>b, <1>d DEF CopiesAgree, Copies
<1>1. RecordShape'
  BY <1>a, <1>b, <1>c, <1>f DEF RecordShape, CalmUse, Installed!InstalledAssumption
<1>2. RecordIds'
  BY <1>a, <1>b, <1>e, <1>g DEF RecordIds, RecordShape, CalmUse, Installed!InstalledAssumption
<1>3. OneRecordChange'
  BY <1>i DEF OneRecordChange
<1>4. RecordRoom'
  BY <1>a, <1>b, <1>c, <1>e, <1>i
     DEF RecordRoom, RecordShape, CalmUse, Installed!InstalledAssumption
<1>5. CopiesAgree' /\ RestoredIsIn'
  BY <1>b, <1>e, <1>i, <1>j DEF CopiesAgree, RestoredIsIn
<1>6. OnePlace' /\ SomePlace' /\ NoneBefore'
  BY <1>a, <1>b, <1>e, <1>i DEF OnePlace, SomePlace, NoneBefore, Carries
<1>7. ShownFresh'
  BY <1>i DEF ShownFresh
<1> QED
  BY <1>1, <1>2, <1>3, <1>4, <1>5, <1>6, <1>7 DEF HistoryInv

\* The end of a change, after which the page that asked for it lists again.
\* What the call carried is on offer, or in the table.
LEMMA ReloadStep ==
    ASSUME CalmUse, HistoryInv, NEW j \in jobs, Answered(j), Installed!Reload(j), UNCHANGED shown,
           \/ j.op = "clear" /\ offers' = offers \cup {[rows |-> j.rows, visit |-> j.visit]}
           \/ j.op = "restore" /\ offers' = offers
    PROVE  HistoryInv'
<1> DEFINE n == RecordCall(issued + 1, "list", visit, Installed!Zero)
<1>a. /\ RecordShape /\ RecordIds /\ OneRecordChange /\ RecordRoom /\ CopiesAgree /\ RestoredIsIn
         /\ OnePlace
      /\ SomePlace /\ NoneBefore /\ ShownFresh
  BY DEF HistoryInv
<1>b. /\ j.done /\ j.op \in {"clear", "restore"}
      /\ UNCHANGED <<open, visit, confirm, disk, recorded, late, released, shown>>
      /\ Installed!Here(j)
         => loading' = TRUE /\ issued' = issued + 1 /\ jobs' = (jobs \cup {n}) \ {j}
      /\ ~Installed!Here(j) => jobs' = jobs \ {j} /\ UNCHANGED <<loading, issued>>
  BY DEF Answered, Installed!Reload, Installed!Called, RecordCall
<1>d. j \in CalmJob /\ j \in Installed!Changing
  BY <1>a, <1>b DEF RecordShape, Installed!Changing
<1>c. issued + 1 <= Jobs["installed"]
  BY <1>a, <1>b, <1>d DEF RecordRoom
<1>e. n.id = issued + 1 /\ n.op = "list" /\ n.visit = visit /\ n.rows = Installed!Zero
        /\ n.done = FALSE
  BY DEF RecordCall
<1>f. Installed!Here(j) => n \in CalmJob
  BY <1>a, <1>c, ZeroOnce, CallTyped
     DEF RecordShape, CalmUse, Installed!InstalledAssumption, Installed!Here
<1>g. \A i \in jobs : i.id \in 1..Jobs["installed"] /\ i.visit \in 1..Visits["installed"]
  BY <1>a DEF RecordShape, CalmJob
<1> HIDE DEF n
<1>i. Installed!Changing = {j} /\ Installed!Changing' = {}
  BY <1>a, <1>b, <1>d, <1>e DEF Installed!Changing, OneRecordChange
<1>j. j.rows \in RowOnce /\ j.visit \in 1..visit
  BY <1>a, <1>d, <1>g DEF CalmJob, RecordIds, RecordShape
<1>k. PICK o : o = [rows |-> j.rows, visit |-> j.visit]
  OBVIOUS
<1>l. o.rows = j.rows /\ o.visit = j.visit
  BY <1>k
<1>m. \/ j.op = "clear" /\ offers' = offers \cup {o}
      \/ j.op = "restore" /\ offers' = offers
  BY <1>k
<1>1. RecordShape'
  <2>1. \A p \in offers' : p.rows \in RowOnce /\ p.visit \in 1..visit
    BY <1>a, <1>j, <1>l, <1>m DEF RecordShape
  <2>2. jobs' \subseteq CalmJob
    BY <1>a, <1>b, <1>f DEF RecordShape
  <2>3. issued' \in 0..Jobs["installed"]
    BY <1>a, <1>b, <1>c DEF RecordShape, CalmUse, Installed!InstalledAssumption
  <2>4. loading' \in BOOLEAN
    BY <1>a, <1>b DEF RecordShape
  <2> QED
    BY <1>a, <1>b, <2>1, <2>2, <2>3, <2>4 DEF RecordShape
<1>2. RecordIds'
  BY <1>a, <1>b, <1>e, <1>g DEF RecordIds, RecordShape, CalmUse, Installed!InstalledAssumption
<1>3. OneRecordChange' /\ RecordRoom' /\ CopiesAgree' /\ RestoredIsIn'
  BY <1>i DEF OneRecordChange, RecordRoom, CopiesAgree, RestoredIsIn
<1>4. ASSUME j.op = "clear" PROVE OnePlace' /\ SomePlace' /\ NoneBefore'
  <2>1. offers' = offers \cup {o} /\ Carries(j)
    BY <1>4, <1>b, <1>m DEF Carries
  <2>2. \A r \in Records : j.rows[r] = 1 => disk[r] = 0 /\ \A p \in offers : p.rows[r] = 0
    BY <1>a, <1>i, <2>1 DEF OnePlace
  <2>3. OnePlace'
    BY <1>a, <1>b, <1>i, <1>l, <2>1, <2>2 DEF OnePlace
  <2>4. SomePlace'
    BY <1>a, <1>b, <1>i, <1>l, <2>1 DEF SomePlace
  <2>5. NoneBefore'
    BY <1>a, <1>b, <1>i, <1>l, <2>1 DEF NoneBefore
  <2> QED
    BY <2>3, <2>4, <2>5
<1>5. ASSUME j.op = "restore" PROVE OnePlace' /\ SomePlace' /\ NoneBefore'
  <2>1. offers' = offers /\ ~Carries(j)
    BY <1>5, <1>b, <1>m DEF Carries
  <2>2. OnePlace' /\ SomePlace' /\ NoneBefore'
    BY <1>a, <1>b, <1>i, <2>1 DEF OnePlace, SomePlace, NoneBefore
  <2> QED
    BY <2>2
<1>6. ShownFresh'
  <2> SUFFICES ASSUME open, visit = 1
               PROVE  /\ jobs' # {}
                      /\ \A m \in jobs' : LastOne(m)' => ~m.done
    BY <1>b DEF ShownFresh
  <2>1. Installed!Here(j)
    BY <1>j, <1>a DEF Installed!Here
  <2>2. n \in jobs' /\ jobs' \subseteq jobs \cup {n}
    BY <2>1, <1>b, <1>d, <1>e
  <2>3. \A m \in jobs' : LastOne(m)' => m = n
    BY <1>a, <1>e, <1>g, <2>2
       DEF LastOne, RecordIds, RecordShape, CalmUse, Installed!InstalledAssumption
  <2> QED
    BY <2>2, <2>3, <1>e
<1> QED
  BY <1>1, <1>2, <1>3, <1>4, <1>5, <1>6, <1>b DEF HistoryInv

-----------------------------------------------------------------------------
(* The installed page: what is kept *)

LEMMA HistoryInit ==
    ASSUME CalmUse, Installed!Init
    PROVE  HistoryInv
<1>1. RecordShape
  <2>1. jobs \subseteq CalmJob /\ \A o \in offers : o.rows \in RowOnce /\ o.visit \in 1..visit
    BY DEF Installed!Init
  <2>2. visit \in 0..Visits["installed"] /\ issued \in 0..Jobs["installed"]
    BY DEF Installed!Init, CalmUse, Installed!InstalledAssumption
  <2> QED
    BY <2>1, <2>2, ZeroOnce DEF Installed!Init, RecordShape
<1>2. RecordIds /\ OneRecordChange /\ RecordRoom /\ CopiesAgree /\ RestoredIsIn
  BY DEF Installed!Init, RecordIds, OneRecordChange, RecordRoom, CopiesAgree, RestoredIsIn,
         Installed!Changing
<1>3. OnePlace /\ SomePlace /\ NoneBefore
  BY ZeroOnce DEF Installed!Init, OnePlace, SomePlace, NoneBefore, Installed!Changing
<1>4. ShownFresh
  BY DEF Installed!Init, ShownFresh
<1> QED
  BY <1>1, <1>2, <1>3, <1>4 DEF HistoryInv

LEMMA HistoryStep ==
    ASSUME CalmUse, HistoryInv, [Installed!Next]_Installed!vars
    PROVE  HistoryInv'
<1>1. CASE Installed!Open
  BY <1>1, OpenStep
<1>2. CASE Installed!load
  BY <1>2, LoadStep
<1>3. CASE Installed!Leave \/ Installed!AskClear \/ Installed!AskUninstall \/ Installed!Cancel
             \/ Installed!handleUninstall
  <2>1. confirm \in {None, "clear", "uninstall"}
    BY DEF HistoryInv, RecordShape
  <2>2. Installed!Leave \/ \E what \in {"clear", "uninstall"} : Installed!Ask(what)
          \/ Installed!Close(what)
    BY <1>3, <2>1
       DEF Installed!AskClear, Installed!AskUninstall, Installed!Cancel, Installed!handleUninstall
  <2> QED
    BY <2>2, DialogStep
<1>4. CASE Installed!handleClear
  BY <1>4, ClearStep
<1>5. CASE \E o \in offers : Installed!handleRestore(o) \/ Installed!Lapse(o)
  BY <1>5, RestoreStep, LapseStep
<1>6. CASE \E r \in Records : Installed!add_record(r)
  BY <1>6, RecordStep
<1>7. ASSUME NEW j \in jobs, NEW ok \in BOOLEAN, Installed!Work(j, ok)
      PROVE  HistoryInv'
  BY <1>7, WorkStep
<1>8. ASSUME NEW j \in jobs, NEW ok \in BOOLEAN, Installed!Respond(j, ok)
      PROVE  HistoryInv'
  <2>1. ok = TRUE /\ Answered(j)
    BY <1>8 DEF Installed!Respond, Answered, CalmUse
  <2>2. Installed!Listed(j, TRUE) \/ Installed!Fetched(j) \/ Installed!Cleared(j)
          \/ Installed!Restored(j)
    BY <1>8, <2>1 DEF Installed!Respond
  <2>3. CASE Installed!Cleared(j)
    BY <2>1, <2>3, ReloadStep DEF Installed!Cleared
  <2>4. CASE Installed!Restored(j)
    BY <2>1, <2>4, ReloadStep DEF Installed!Restored
  <2> QED
    BY <2>1, <2>2, <2>3, <2>4, ListedStep, FetchedStep
<1>9. CASE UNCHANGED Installed!vars
  BY <1>9
     DEF HistoryInv, RecordShape, RecordIds, OneRecordChange, RecordRoom, CopiesAgree,
         RestoredIsIn, OnePlace,
              SomePlace, NoneBefore, ShownFresh, Copies, Carries, Installed!Changing, LastOne,
              Installed!vars
<1> QED
  BY <1>1, <1>2, <1>3, <1>4, <1>5, <1>6, <1>7, <1>8, <1>9 DEF Installed!Next

\* With Calm: every record is in one place, and in some place from its
\* recording to its release (handleClear and handleRestore of Installed.tsx
\* with clear_history and add_record of history_db.py).
THEOREM HistoryInvariant == CalmUse => (Installed!Spec => []HistoryInv)
<1> SUFFICES ASSUME CalmUse PROVE Installed!Spec => []HistoryInv
  OBVIOUS
<1>1. Installed!Init => HistoryInv
  BY HistoryInit
<1>2. HistoryInv /\ [Installed!Next]_Installed!vars => HistoryInv'
  BY HistoryStep
<1> QED
  BY <1>1, <1>2, PTL DEF Installed!Spec

\* With Calm: every variable keeps its type, so that the calls stay within
\* their bound and a record is never restored more often than it was cleared.
THEOREM InstalledTypeCorrect == CalmUse => (Installed!Spec => []Installed!TypeOK)
<1> SUFFICES ASSUME CalmUse PROVE Installed!Spec => []Installed!TypeOK
  OBVIOUS
<1>1. RowOnce \subseteq Installed!Rows
  BY DEF RowOnce, Installed!Rows, CalmUse, Installed!InstalledAssumption
<1>2. HistoryInv => Installed!TypeOK
  <2> SUFFICES ASSUME HistoryInv PROVE Installed!TypeOK
    OBVIOUS
  <2>1. RecordShape
    BY DEF HistoryInv
  <2>2. jobs \subseteq Installed!Job
    BY <2>1, <1>1 DEF RecordShape, CalmJob, Installed!Job
  <2> QED
    BY <2>1, <2>2, <1>1 DEF RecordShape, Installed!TypeOK, CalmUse, Installed!InstalledAssumption
<1> QED
  BY <1>2, HistoryInvariant, PTL

\* With Calm: a record of the history is in the table, on its way back to it
\* or on offer, until the user lets it go, though a clear is three calls.
THEOREM NothingIsLost == CalmUse => (Installed!Spec => []Installed!NothingLost)
<1> SUFFICES ASSUME CalmUse PROVE Installed!Spec => []Installed!NothingLost
  OBVIOUS
<1>1. HistoryInv => Installed!NothingLost
  BY DEF HistoryInv, SomePlace, Installed!NothingLost, Installed!Changing
<1> QED
  BY <1>1, HistoryInvariant, PTL

\* With Calm: no clear, undo or new record puts a second row of one record
\* into the table.
THEOREM NothingComesTwice == CalmUse => (Installed!Spec => []Installed!NothingTwice)
<1> SUFFICES ASSUME CalmUse PROVE Installed!Spec => []Installed!NothingTwice
  OBVIOUS
<1>1. HistoryInv => Installed!NothingTwice
  BY DEF HistoryInv, RecordShape, RowOnce, Installed!NothingTwice
<1> QED
  BY <1>1, HistoryInvariant, PTL

\* With Calm: when all is answered, the page shows what the table has, but for
\* what pipelines added since it was opened.
THEOREM ListIsTruthful == CalmUse => (Installed!Spec => []Installed!ListTruthful)
<1> SUFFICES ASSUME CalmUse PROVE Installed!Spec => []Installed!ListTruthful
  OBVIOUS
<1>1. HistoryInv => Installed!ListTruthful
  BY DEF HistoryInv, ShownFresh, Installed!ListTruthful, Installed!Changing
<1> QED
  BY <1>1, HistoryInvariant, PTL

-----------------------------------------------------------------------------
(* The installed page: skeletons, with calls that fail, overtake and are left behind *)

Counts == [Records -> Nat]
AnyJob == [id : Nat, op : {"list", "backup", "clear", "restore"}, visit : Nat, rows : Counts,
           done : BOOLEAN]
Loose ==
    /\ visit \in Nat /\ issued \in Nat /\ disk \in Counts /\ jobs \subseteq AnyJob
    /\ \A o \in offers : o.rows \in Counts /\ o.visit \in Nat
SpinInv == Loose /\ Installed!SpinnersEnd

\* A new call is a call.
LEMMA AnyCall ==
    ASSUME NEW n \in Nat, NEW op \in {"list", "backup", "clear", "restore"}, NEW v \in Nat,
           NEW rows \in Counts
    PROVE  RecordCall(n, op, v, rows) \in AnyJob
  BY DEF RecordCall, AnyJob

LEMMA ZeroCounts == Installed!Zero \in Counts
  BY DEF Installed!Zero, Counts

\* What the page does keeps the types, and what it waits for is under way.
LEMMA SpinPage ==
    ASSUME SpinInv,
           \/ Installed!Open \/ Installed!Leave \/ Installed!load \/ Installed!handleClear
           \/ \E what : Installed!Ask(what) \/ Installed!Close(what)
           \/ \E o \in offers : Installed!handleRestore(o) \/ Installed!Lapse(o)
           \/ \E r \in Records : Installed!add_record(r)
    PROVE  SpinInv'
<1> USE DEF SpinInv
<1>1. CASE Installed!Open
  <2> DEFINE n == RecordCall(issued + 1, "list", visit + 1, Installed!Zero)
  <2>1. /\ jobs' = jobs \cup {n} /\ visit' = visit + 1 /\ issued' = issued + 1
        /\ UNCHANGED <<offers, disk>>
    BY <1>1 DEF Installed!Open, Installed!Called, RecordCall
  <2>2. n \in AnyJob
    BY AnyCall, ZeroCounts DEF Loose
  <2>3. n.op = "list" /\ n.visit = visit + 1
    BY DEF RecordCall
  <2> HIDE DEF n
  <2> QED
    BY <2>1, <2>2, <2>3 DEF Loose, Installed!SpinnersEnd
<1>2. CASE Installed!load
  <2> DEFINE n == RecordCall(issued + 1, "list", visit, Installed!Zero)
  <2>1. jobs' = jobs \cup {n} /\ issued' = issued + 1 /\ UNCHANGED <<visit, offers, disk>>
    BY <1>2 DEF Installed!load, Installed!Called, RecordCall
  <2>2. n \in AnyJob
    BY AnyCall, ZeroCounts DEF Loose
  <2>3. n.op = "list" /\ n.visit = visit
    BY DEF RecordCall
  <2> HIDE DEF n
  <2> QED
    BY <2>1, <2>2, <2>3 DEF Loose, Installed!SpinnersEnd
<1>3. CASE Installed!handleClear
  <2> DEFINE n == RecordCall(issued + 1, "backup", visit, Installed!Zero)
  <2>1. /\ jobs' = jobs \cup {n} /\ issued' = issued + 1
        /\ UNCHANGED <<open, loading, visit, offers, disk>>
    BY <1>3 DEF Installed!handleClear, Installed!Called, RecordCall
  <2>2. n \in AnyJob
    BY AnyCall, ZeroCounts DEF Loose
  <2> HIDE DEF n
  <2> QED
    BY <2>1, <2>2 DEF Loose, Installed!SpinnersEnd
<1>4. ASSUME NEW o \in offers, Installed!handleRestore(o)
      PROVE  SpinInv'
  <2> DEFINE n == RecordCall(issued + 1, "restore", o.visit, o.rows)
  <2>1. /\ jobs' = jobs \cup {n} /\ issued' = issued + 1 /\ offers' = offers \ {o}
        /\ UNCHANGED <<open, loading, visit, disk>>
    BY <1>4 DEF Installed!handleRestore, Installed!Called, RecordCall
  <2>2. n \in AnyJob
    BY AnyCall DEF Loose
  <2> HIDE DEF n
  <2> QED
    BY <2>1, <2>2 DEF Loose, Installed!SpinnersEnd
<1>5. CASE Installed!Leave \/ \E what : Installed!Ask(what) \/ Installed!Close(what)
  <2>1. UNCHANGED <<visit, loading, offers, disk, issued, jobs>> /\ (open' => open)
    BY <1>5 DEF Installed!Leave, Installed!Ask, Installed!Close
  <2> QED
    BY <2>1 DEF Loose, Installed!SpinnersEnd
<1>6. ASSUME NEW o \in offers, Installed!Lapse(o)
      PROVE  SpinInv'
  BY <1>6 DEF Installed!Lapse, Loose, Installed!SpinnersEnd
<1>7. ASSUME NEW r \in Records, Installed!add_record(r)
      PROVE  SpinInv'
  BY <1>7 DEF Installed!add_record, Loose, Installed!SpinnersEnd, Counts
<1> QED
  BY <1>1, <1>2, <1>3, <1>4, <1>5, <1>6, <1>7

\* So does the sidecar.
LEMMA SpinWork ==
    ASSUME SpinInv, NEW j \in jobs, NEW fine \in BOOLEAN, Installed!Work(j, fine)
    PROVE  SpinInv'
<1> DEFINE got == IF j.op \in {"list", "backup"} THEN IF fine THEN disk ELSE Installed!Zero
                    ELSE j.rows
           k == [j EXCEPT !.done = TRUE, !.rows = got]
<1>1. j \in AnyJob /\ disk \in Counts
  BY DEF SpinInv, Loose
<1>2. got \in Counts
  BY <1>1, ZeroCounts DEF AnyJob
<1>3. /\ jobs' = (jobs \ {j}) \cup {k} /\ UNCHANGED <<open, loading, visit, offers, issued>>
      /\ disk' \in {disk, Installed!Zero, [r \in Records |-> disk[r] + j.rows[r]]}
  <2>1. jobs' = (jobs \ {j}) \cup {k} /\ UNCHANGED <<open, loading, visit, offers, issued>>
    BY <1>1 DEF Installed!Work, AnyJob
  <2>2. disk' \in {disk, Installed!Zero, [r \in Records |-> disk[r] + j.rows[r]]}
    BY DEF Installed!Work
  <2> QED
    BY <2>1, <2>2
<1> HIDE DEF got
<1>4. k \in AnyJob /\ k.op = j.op /\ k.visit = j.visit
  BY <1>1, <1>2 DEF AnyJob
<1> HIDE DEF k
<1>5. [r \in Records |-> disk[r] + j.rows[r]] \in Counts
  BY <1>1 DEF AnyJob, Counts
<1>6. disk' \in Counts
  BY <1>1, <1>3, <1>5, ZeroCounts
<1>7. Loose'
  BY <1>3, <1>4, <1>6 DEF SpinInv, Loose
<1>8. Installed!SpinnersEnd'
  BY <1>3, <1>4 DEF SpinInv, Installed!SpinnersEnd
<1> QED
  BY <1>7, <1>8 DEF SpinInv

\* And the answers, whatever they say.
LEMMA SpinAnswer ==
    ASSUME SpinInv, NEW j \in jobs, NEW ok \in BOOLEAN, Installed!Respond(j, ok)
    PROVE  SpinInv'
<1>a. Loose /\ Installed!SpinnersEnd /\ j \in AnyJob /\ j.rows \in Counts /\ j.visit \in Nat
  BY DEF SpinInv, Loose, AnyJob
<1>b. UNCHANGED <<open, visit, disk>>
  BY DEF Installed!Respond
<1>1. CASE Installed!Listed(j, ok)
  <2>1. Loose'
    BY <1>a, <1>b, <1>1 DEF Installed!Listed, Loose
  <2>2. Installed!SpinnersEnd'
    BY <1>a, <1>b, <1>1 DEF Installed!Listed, Installed!SpinnersEnd, Installed!Here
  <2> QED
    BY <2>1, <2>2 DEF SpinInv
<1>2. CASE Installed!Failed(j)
  BY <1>a, <1>b, <1>2 DEF Installed!Failed, SpinInv, Loose, Installed!SpinnersEnd
<1>3. CASE Installed!Fetched(j)
  <2> DEFINE n == RecordCall(issued + 1, "clear", j.visit, j.rows)
  <2>1. /\ j.op = "backup" /\ issued' = issued + 1 /\ jobs' = (jobs \cup {n}) \ {j}
        /\ UNCHANGED <<loading, offers>>
    BY <1>3 DEF Installed!Fetched, Installed!Called, RecordCall
  <2>2. n \in AnyJob
    <3>1. issued + 1 \in Nat /\ j.visit \in Nat /\ j.rows \in Counts
      BY <1>a DEF Loose, AnyJob
    <3> QED BY <3>1 DEF AnyJob, RecordCall
  <2> HIDE DEF n
  <2> QED
    BY <1>a, <1>b, <2>1, <2>2 DEF SpinInv, Loose, Installed!SpinnersEnd
<1>4. ASSUME Installed!Reload(j), j.op # "list"
      PROVE  issued' \in Nat /\ jobs' \subseteq AnyJob /\ Installed!SpinnersEnd'
  <2> DEFINE n == RecordCall(issued + 1, "list", visit, Installed!Zero)
  <2>1. /\ Installed!Here(j) => issued' = issued + 1 /\ jobs' = (jobs \cup {n}) \ {j}
        /\ ~Installed!Here(j) => jobs' = jobs \ {j} /\ UNCHANGED <<loading, issued>>
    BY <1>4 DEF Installed!Reload, Installed!Called, RecordCall
  <2>2. n \in AnyJob
    BY <1>a, AnyCall, ZeroCounts DEF Loose
  <2>3. n.op = "list" /\ n.visit = visit /\ n # j
    BY <1>4 DEF RecordCall
  <2> HIDE DEF n
  <2>4. issued' \in Nat /\ jobs' \subseteq AnyJob
    BY <1>a, <2>1, <2>2 DEF Loose
  <2>5. Installed!SpinnersEnd'
    BY <1>a, <1>b, <1>4, <2>1, <2>3 DEF Installed!SpinnersEnd
  <2> QED
    BY <2>4, <2>5
<1>5. CASE Installed!Cleared(j)
  <2>1. PICK o : o = [rows |-> j.rows, visit |-> j.visit]
    OBVIOUS
  <2>2. o.rows \in Counts /\ o.visit \in Nat
    BY <1>a, <2>1
  <2>3. offers' = offers \cup {o} /\ Installed!Reload(j) /\ j.op # "list"
    BY <1>5, <2>1 DEF Installed!Cleared
  <2> QED
    BY <1>a, <1>b, <1>4, <2>2, <2>3 DEF SpinInv, Loose
<1>6. CASE Installed!Restored(j)
  <2>1. offers' = offers /\ Installed!Reload(j) /\ j.op # "list"
    BY <1>6 DEF Installed!Restored
  <2> QED
    BY <1>a, <1>b, <1>4, <2>1 DEF SpinInv, Loose
<1> QED
  BY <1>1, <1>2, <1>3, <1>5, <1>6 DEF Installed!Respond

\* Whatever fails, overtakes or was left behind by an earlier visit: the
\* skeletons of the page stand for a list that is under way (loading of
\* Installed.tsx).
THEOREM SkeletonsEnd == Installed!Spec => []Installed!SpinnersEnd
<1>1. Installed!Init => SpinInv
  BY ZeroCounts DEF Installed!Init, SpinInv, Loose, Installed!SpinnersEnd
<1>2. SpinInv /\ [Installed!Next]_Installed!vars => SpinInv'
  <2> SUFFICES ASSUME SpinInv, [Installed!Next]_Installed!vars PROVE SpinInv'
    OBVIOUS
  <2>1. CASE UNCHANGED Installed!vars
    BY <2>1 DEF SpinInv, Loose, Installed!SpinnersEnd, Installed!vars
  <2>2. CASE Installed!Next
    <3>1. CASE Installed!AskClear \/ Installed!AskUninstall \/ Installed!Cancel
                 \/ Installed!handleUninstall
      BY <3>1, SpinPage
         DEF Installed!AskClear, Installed!AskUninstall, Installed!Cancel,
             Installed!handleUninstall
    <3>2. CASE \E j \in jobs, ok \in BOOLEAN : Installed!Work(j, ok) \/ Installed!Respond(j, ok)
      BY <3>2, SpinWork, SpinAnswer
    <3> QED
      BY <2>2, <3>1, <3>2, SpinPage DEF Installed!Next
  <2> QED
    BY <2>1, <2>2
<1>3. SpinInv => Installed!SpinnersEnd
  BY DEF SpinInv
<1> QED
  BY <1>1, <1>2, <1>3, PTL DEF Installed!Spec
=============================================================================
