---------------------------- MODULE InstalledPage ----------------------------
(***************************************************************************)
(* The page of installed packages (pages/Installed.tsx) and the history it *)
(* shows (history_db.py), which pipelines add to.  Clearing is three calls *)
(* in a row: the records are fetched, the history is cleared, and a toast  *)
(* that outlives the page offers to put the fetched records back.  Each    *)
(* request runs in a thread of the sidecar.  Uninstalling and rolling back *)
(* only ask for advice.                                                    *)
(***************************************************************************)
EXTENDS Naturals, FiniteSets

CONSTANTS Records,   \* conversions, with the row each writes
          Calm,      \* calls succeed, one change at a time, nothing added during one
          MaxJobs,   \* bound: calls
          MaxVisits, \* bound: times the page is opened
          None

\* What the constants have to satisfy
InstalledAssumption == Calm \in BOOLEAN /\ MaxJobs \in Nat \ {0} /\ MaxVisits \in Nat

VARIABLES
    open, visit,  \* the page is mounted, and how often it was
    loading,      \* the skeletons
    shown,        \* records: how often the table has a row of each
    confirm,      \* the dialog: clear, uninstall
    offers,       \* the toasts with an undo
    disk,         \* the table conversions, as shown
    recorded,     \* records that pipelines wrote so far (history)
    late,         \* those written since the page was opened (history)
    released,     \* those the user let go (history)
    issued, jobs  \* calls so far, and those under way

vars == <<open, visit, loading, shown, confirm, offers, disk, recorded, late, released,
          issued, jobs>>

Rows == [Records -> 0..MaxJobs]
Zero == [r \in Records |-> 0]
Job  == [id : 1..MaxJobs, op : {"list", "backup", "clear", "restore"}, visit : 1..MaxVisits,
         rows : Rows, done : BOOLEAN]

TypeOK ==
    /\ open \in BOOLEAN /\ visit \in 0..MaxVisits /\ issued \in 0..MaxJobs
    /\ loading \in BOOLEAN /\ confirm \in {None, "clear", "uninstall"}
    /\ shown \in Rows /\ disk \in Rows /\ jobs \subseteq Job
    /\ \A o \in offers : o.rows \in Rows /\ o.visit \in 1..MaxVisits
    /\ recorded \subseteq Records /\ late \subseteq recorded /\ released \subseteq recorded

Init == /\ open = FALSE /\ visit = 0 /\ loading = TRUE /\ shown = Zero /\ confirm = None
        /\ offers = {} /\ disk = Zero /\ recorded = {} /\ late = {} /\ released = {}
        /\ issued = 0 /\ jobs = {}

-----------------------------------------------------------------------------
(* The page *)

Changing == {j \in jobs : j.op # "list"}

\* The bound keeps a call for the list after the change under way.
Room(n) == issued + n + 2 * Cardinality(Changing) <= MaxJobs

Called(op, v, rows) == jobs \cup {[id |-> issued + 1, op |-> op, visit |-> v,
                                   rows |-> rows, done |-> FALSE]}

\* load() of the page that is opened
Open ==
    /\ ~open /\ visit < MaxVisits /\ Room(1)
    /\ open' = TRUE /\ visit' = visit + 1
    /\ loading' = TRUE /\ shown' = Zero /\ confirm' = None /\ late' = {}
    /\ issued' = issued + 1 /\ jobs' = Called("list", visit', Zero)
    /\ UNCHANGED <<offers, disk, recorded, released>>
Leave == open /\ open' = FALSE
         /\ UNCHANGED <<visit, loading, shown, confirm, offers, disk, recorded, late, released,
                        issued, jobs>>

\* The refresh button
load ==
    /\ open /\ Room(1) /\ loading' = TRUE
    /\ issued' = issued + 1 /\ jobs' = Called("list", visit, Zero)
    /\ UNCHANGED <<open, visit, shown, confirm, offers, disk, recorded, late, released>>

\* Both need a row; the clear button also works while the list is loading.
Ask(what) ==
    /\ open /\ shown # Zero /\ confirm = None /\ confirm' = what
    /\ UNCHANGED <<open, visit, loading, shown, offers, disk, recorded, late, released,
                   issued, jobs>>
AskClear == Ask("clear")
AskUninstall == ~loading /\ Ask("uninstall")
Close(what) ==
    /\ open /\ confirm = what /\ confirm' = None
    /\ UNCHANGED <<open, visit, loading, shown, offers, disk, recorded, late, released,
                   issued, jobs>>
Cancel == confirm # None /\ Close(confirm)
\* Its answer is only told to the user.
handleUninstall == Close("uninstall")

\* Mutation of handleClear: the history is cleared before it is fetched.
handleClearFirst ==
    /\ open /\ confirm = "clear" /\ confirm' = None
    /\ Room(3) /\ (Calm => Changing = {})
    /\ issued' = issued + 1 /\ jobs' = Called("clear", visit, Zero)
    /\ UNCHANGED <<open, visit, loading, shown, offers, disk, recorded, late, released>>

\* The dialog is confirmed: the records are fetched first.
handleClear ==
    /\ open /\ confirm = "clear" /\ confirm' = None
    /\ Room(3) /\ (Calm => Changing = {})
    /\ issued' = issued + 1 /\ jobs' = Called("backup", visit, Zero)
    /\ UNCHANGED <<open, visit, loading, shown, offers, disk, recorded, late, released>>

\* The toast's button: handleRestore of the page that offered it.
handleRestore(o) ==
    /\ o \in offers /\ offers' = offers \ {o}
    /\ Room(2) /\ (Calm => Changing = {})
    /\ issued' = issued + 1 /\ jobs' = Called("restore", o.visit, o.rows)
    /\ UNCHANGED <<open, visit, loading, shown, confirm, disk, recorded, late, released>>
\* The toast goes, by itself or by the user's hand.
Lapse(o) ==
    /\ o \in offers /\ offers' = offers \ {o}
    /\ released' = released \cup {r \in Records : o.rows[r] > 0}
    /\ UNCHANGED <<open, visit, loading, shown, confirm, disk, recorded, late, issued, jobs>>

-----------------------------------------------------------------------------
(* The sidecar *)

\* add_record, at the end of a pipeline
add_record(r) ==
    /\ r \notin recorded /\ (Calm => Changing = {})
    /\ recorded' = recorded \cup {r} /\ disk' = [disk EXCEPT ![r] = 1]
    /\ late' = IF open THEN late \cup {r} ELSE late
    /\ UNCHANGED <<open, visit, loading, shown, confirm, offers, released, issued, jobs>>

\* The request's thread reads or changes the table.  An error of the database
\* is logged and not reported.
Work(j, fine) ==
    /\ ~j.done /\ (Calm => fine)
    /\ disk' = IF ~fine THEN disk
               ELSE CASE j.op = "clear"   -> Zero
                      [] j.op = "restore" -> [r \in Records |-> disk[r] + j.rows[r]]
                      [] OTHER            -> disk
    /\ jobs' = (jobs \ {j}) \cup
               {[j EXCEPT !.done = TRUE,
                          !.rows = IF j.op \in {"list", "backup"}
                                   THEN IF fine THEN disk ELSE Zero ELSE @]}
    /\ UNCHANGED <<open, visit, loading, shown, confirm, offers, recorded, late, released, issued>>

-----------------------------------------------------------------------------
(* The responses; a call may fail before and after its work is done *)

Here(j) == open /\ j.visit = visit

\* load() again, of the page whose call j was
Reload(j) ==
    IF Here(j) THEN /\ loading' = TRUE /\ issued' = issued + 1
                    /\ jobs' = Called("list", visit, Zero) \ {j}
    ELSE jobs' = jobs \ {j} /\ UNCHANGED <<loading, issued>>

\* The first call of handleClear is followed by the second.
Fetched(j) ==
    /\ j.op = "backup"
    /\ issued' = issued + 1 /\ jobs' = Called("clear", j.visit, j.rows) \ {j}
    /\ UNCHANGED <<loading, shown, offers>>
Cleared(j) ==
    /\ j.op = "clear" /\ Reload(j)
    /\ offers' = offers \cup {[rows |-> j.rows, visit |-> j.visit]}
    /\ UNCHANGED shown
Restored(j) == j.op = "restore" /\ Reload(j) /\ UNCHANGED <<shown, offers>>
Listed(j, ok) ==
    /\ j.op = "list" /\ jobs' = jobs \ {j}
    /\ loading' = IF Here(j) THEN FALSE ELSE loading
    /\ shown' = IF Here(j) /\ ok THEN j.rows ELSE shown
    /\ UNCHANGED <<offers, issued>>
\* Whatever was to follow is given up.
Failed(j) == j.op # "list" /\ jobs' = jobs \ {j} /\ UNCHANGED <<loading, shown, offers, issued>>

Respond(j, ok) ==
    /\ ok => j.done
    /\ Calm => ok /\ \A k \in jobs : j.id <= k.id
    /\ Listed(j, ok) \/ (ok /\ (Fetched(j) \/ Cleared(j) \/ Restored(j))) \/ (~ok /\ Failed(j))
    /\ UNCHANGED <<open, visit, confirm, disk, recorded, late, released>>

-----------------------------------------------------------------------------
Next ==
    \/ Open \/ Leave \/ load \/ AskClear \/ AskUninstall \/ Cancel \/ handleUninstall \/ handleClear
    \/ \E o \in offers : handleRestore(o) \/ Lapse(o)
    \/ \E r \in Records : add_record(r)
    \/ \E j \in jobs, ok \in BOOLEAN : Work(j, ok) \/ Respond(j, ok)

Spec == Init /\ [][Next]_vars
-----------------------------------------------------------------------------
(* Properties *)

\* A record of the history is kept until its user lets it go: it is in the
\* table, or in what a clear or an undo carries, or on offer to be put back; in
\* calm use.
NothingLost ==
    \A r \in recorded : \/ disk[r] > 0 \/ r \in released
                        \/ \E o \in offers : o.rows[r] > 0
                        \/ \E j \in jobs : j.rows[r] > 0

\* No record comes back twice, in calm use.
NothingTwice == \A r \in Records : disk[r] <= 1

\* When all is answered the page that was not left shows the history, but for
\* what pipelines added meanwhile.
ListTruthful == (open /\ jobs = {} /\ visit = 1) =>
                \A r \in Records \ late : shown[r] = disk[r]

\* The skeletons stand for a list that is under way.
SpinnersEnd == (open /\ loading) => \E j \in jobs : j.op = "list" /\ j.visit = visit
=============================================================================
