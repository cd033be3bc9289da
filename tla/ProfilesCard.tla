---------------------------- MODULE ProfilesCard ----------------------------
(***************************************************************************)
(* Two cards of the settings page (pages/Settings.tsx): the profiles, each *)
(* a directory of the sidecar (core/profiles.py), and the D-Bus service.   *)
(* Every change of a profile is a thread of the sidecar that looks first   *)
(* and acts then; the page lets its user make one at a time, and forgets   *)
(* that it did when it is left.                                            *)
(***************************************************************************)
EXTENDS Naturals, FiniteSets

CONSTANTS Names,     \* names of profiles, "default" apart
          Ordered,   \* lists and looks succeed, and are answered in their order
          MaxJobs,   \* bound: calls
          MaxVisits, \* bound: times the page is opened
          None

\* What the constants have to satisfy
ProfilesAssumption ==
    /\ Ordered \in BOOLEAN /\ MaxJobs \in Nat /\ MaxVisits \in Nat
    /\ None \notin Names \cup {"default"} /\ "default" \notin Names

Profiles == Names \cup {"default"}
Changes  == {"create", "switch", "delete"}

VARIABLES
    open, visit, tab,    \* the page is mounted, how often it was, its tab
    profiles,            \* the list on the card: the names, and which is active
    profileBusy,
    confirmDelete,       \* the profile the dialog asks about
    dbusStatus, dbusBusy,
    dirs, active,        \* the profiles that exist, and the marker of the active one
    running,             \* the service runs
    issued, jobs

page == <<open, visit, tab, profiles, profileBusy, confirmDelete, dbusStatus, dbusBusy>>
disk == <<dirs, active, running>>
vars == <<open, visit, tab, profiles, profileBusy, confirmDelete, dbusStatus, dbusBusy,
          dirs, active, running, issued, jobs>>

List   == [names : SUBSET Profiles, active : Profiles]
Status == BOOLEAN \cup {None}
Job == [id : 1..MaxJobs, op : Changes \cup {"list", "status", "start"},
        name : Profiles \cup {None}, visit : 1..MaxVisits,
        phase : {"sent", "looked", "done", "failed"},
        list : List \cup {None}, up : Status]

TypeOK ==
    /\ open \in BOOLEAN /\ visit \in 0..MaxVisits
    /\ tab \in {"general", "profiles", "cloud"}
    /\ profiles \in List \cup {None} /\ profileBusy \in BOOLEAN
    /\ confirmDelete \in Profiles \cup {None}
    /\ dbusStatus \in Status /\ dbusBusy \in BOOLEAN /\ running \in BOOLEAN
    /\ dirs \subseteq Profiles /\ active \in Profiles
    /\ issued \in 0..MaxJobs /\ jobs \subseteq Job

Init == /\ open = FALSE /\ visit = 0 /\ tab = "general" /\ profiles = None
        /\ profileBusy = FALSE /\ confirmDelete = None
        /\ dbusStatus = None /\ dbusBusy = FALSE /\ running = FALSE
        /\ \E ns \in SUBSET Names : dirs = ns \cup {"default"}
        /\ active \in dirs /\ issued = 0 /\ jobs = {}

Request(n, op, name, v) == [id |-> n, op |-> op, name |-> name, visit |-> v,
                            phase |-> "sent", list |-> None, up |-> None]
\* The bound keeps a call for the reload after every change under way.
Room(n) == issued + n + Cardinality({j \in jobs : j.op \in Changes \cup {"start"}}) <= MaxJobs
Call(op, name, v) == /\ issued' = issued + 1
                     /\ jobs' = jobs \cup {Request(issued', op, name, v)}

-----------------------------------------------------------------------------
(* The page *)

\* loadProfiles and loadDbusStatus
Open ==
    /\ ~open /\ visit < MaxVisits /\ Room(2)
    /\ open' = TRUE /\ visit' = visit + 1 /\ tab' = "general"
    /\ profiles' = None /\ profileBusy' = FALSE /\ confirmDelete' = None
    /\ dbusStatus' = None /\ dbusBusy' = FALSE
    /\ issued' = issued + 2
    /\ jobs' = jobs \cup {Request(issued + 1, "list", None, visit'),
                          Request(issued + 2, "status", None, visit')}
    /\ UNCHANGED disk
Leave == open /\ open' = FALSE
         /\ UNCHANGED <<visit, tab, profiles, profileBusy, confirmDelete, dbusStatus,
                        dbusBusy, disk, issued, jobs>>
SelectTab(to) == /\ open /\ tab # to /\ tab' = to
                 /\ UNCHANGED <<open, visit, profiles, profileBusy, confirmDelete,
                                dbusStatus, dbusBusy, disk, issued, jobs>>

\* The profiles tab: a row for each profile of the list
Card == open /\ tab = "profiles"
Row(n) == Card /\ profiles # None /\ n \in profiles.names

\* setProfileBusy(true), and the call
Change(op, n) ==
    /\ Room(2) /\ profileBusy' = TRUE /\ Call(op, n, visit)
    /\ UNCHANGED <<open, visit, tab, profiles, dbusStatus, dbusBusy, disk>>
handleCreateProfile(n) ==
    Card /\ ~profileBusy /\ Change("create", n) /\ UNCHANGED confirmDelete
handleSwitchProfile(n) ==
    /\ Row(n) /\ ~profileBusy /\ n # profiles.active
    /\ Change("switch", n) /\ UNCHANGED confirmDelete
handleDeleteProfile(n) ==
    /\ Row(n) /\ ~profileBusy /\ n # "default" /\ confirmDelete = None /\ confirmDelete' = n
    /\ UNCHANGED <<open, visit, tab, profiles, profileBusy, dbusStatus, dbusBusy, disk,
                   issued, jobs>>
\* Mutation of confirmDeleteProfile: its confirmation is always on.
confirmDeleteAnytime ==
    /\ open /\ confirmDelete # None
    /\ Change("delete", confirmDelete) /\ confirmDelete' = None
\* The dialog; its confirmation is off while a change is under way.
confirmDeleteProfile ==
    /\ open /\ confirmDelete # None /\ ~profileBusy
    /\ Change("delete", confirmDelete) /\ confirmDelete' = None
CancelDelete ==
    /\ open /\ confirmDelete # None /\ confirmDelete' = None
    /\ UNCHANGED <<open, visit, tab, profiles, profileBusy, dbusStatus, dbusBusy, disk,
                   issued, jobs>>

\* The service card offers its button while the service is seen not to run.
DbusOffers == open /\ tab = "cloud" /\ dbusStatus = FALSE /\ ~dbusBusy
handleDbusStart ==
    /\ DbusOffers /\ dbusBusy' = TRUE
    /\ Room(2) /\ Call("start", None, visit)
    /\ UNCHANGED <<open, visit, tab, profiles, profileBusy, confirmDelete, dbusStatus, disk>>

-----------------------------------------------------------------------------
(* The sidecar *)

To(j, phase) == jobs' = (jobs \ {j}) \cup {[j EXCEPT !.phase = phase]}

\* The check at the start of create_profile, switch_profile, delete_profile
Accepts(j) == CASE j.op = "create" -> j.name \notin dirs
                [] j.op = "switch" -> j.name \in dirs
                [] j.op = "delete" -> j.name \in dirs \ {"default", active}
Look(j) ==
    /\ j.op \in Changes /\ j.phase = "sent"
    /\ To(j, IF Accepts(j) THEN "looked" ELSE "failed")
    /\ UNCHANGED <<page, disk, issued>>
\* Mutation of Act: a deletion takes the marker along.
ActUnmarks(j) ==
    /\ j.phase = "looked" /\ To(j, "done")
    /\ dirs' = CASE j.op = "create" -> dirs \cup {j.name}
                 [] j.op = "delete" -> dirs \ {j.name}
                 [] OTHER -> dirs
    /\ active' = CASE j.op = "switch" -> j.name
                   [] j.op = "delete" -> None
                   [] OTHER -> active
    /\ UNCHANGED <<page, running, issued>>
\* What follows it: mkdir, the marker, rmtree
Act(j) ==
    /\ j.phase = "looked" /\ To(j, "done")
    /\ dirs' = CASE j.op = "create" -> dirs \cup {j.name}
                 [] j.op = "delete" -> dirs \ {j.name}
                 [] OTHER -> dirs
    /\ active' = IF j.op = "switch" THEN j.name ELSE active
    /\ UNCHANGED <<page, running, issued>>

\* list_profiles, dbus.status
Read(j) ==
    /\ j.op \in {"list", "status"} /\ j.phase = "sent"
    /\ Ordered => \A k \in jobs : (k.op = j.op /\ k.phase = "sent") => j.id <= k.id
    /\ jobs' = (jobs \ {j}) \cup
               {IF j.op = "status" THEN [j EXCEPT !.phase = "done", !.up = running]
                ELSE [j EXCEPT !.phase = "done",
                               !.list = [names |-> dirs \cup {"default"}, active |-> active]]}
    /\ UNCHANGED <<page, disk, issued>>

\* start_default, in a thread of its own; it fails, or the service is up.
Start(j, ok) ==
    /\ j.op = "start" /\ j.phase = "sent" /\ (ok => ~running)
    /\ running' = (running \/ ok) /\ To(j, IF ok THEN "done" ELSE "failed")
    /\ UNCHANGED <<page, dirs, active, issued>>

-----------------------------------------------------------------------------
(* Answers *)

Here(j) == open /\ j.visit = visit

\* A change that went through is followed by a list, the page still busy; the
\* list carries the visit of the change, one of the opening has no name.
Changed(j) ==
    /\ j.op \in Changes /\ j.phase \in {"done", "failed"}
    /\ IF j.phase = "done"
       THEN /\ issued' = issued + 1
            /\ jobs' = (jobs \ {j}) \cup {Request(issued', "list", j.name, j.visit)}
            /\ UNCHANGED profileBusy
       ELSE /\ jobs' = jobs \ {j} /\ profileBusy' = (profileBusy /\ ~Here(j))
            /\ UNCHANGED issued
    /\ UNCHANGED <<open, visit, tab, profiles, confirmDelete, dbusStatus, dbusBusy, disk>>

\* A list; one that fails leaves the card as it was.
Listed(j, ok) ==
    /\ j.op = "list" /\ (IF ok THEN j.phase = "done" ELSE ~Ordered)
    /\ Ordered => \A k \in jobs : k.op = "list" => j.id <= k.id
    /\ jobs' = jobs \ {j}
    /\ profiles' = IF Here(j) /\ ok THEN j.list ELSE profiles
    /\ profileBusy' = (profileBusy /\ ~(Here(j) /\ j.name # None))
    /\ UNCHANGED <<open, visit, tab, confirmDelete, dbusStatus, dbusBusy, disk, issued>>

\* loadDbusStatus; one that fails takes the card away.
Looked(j, ok) ==
    /\ j.op = "status" /\ (IF ok THEN j.phase = "done" ELSE ~Ordered)
    /\ Ordered => \A k \in jobs : k.op = "status" => j.id <= k.id
    /\ jobs' = jobs \ {j}
    /\ dbusStatus' = IF ~Here(j) THEN dbusStatus ELSE IF ok THEN j.up ELSE None
    /\ UNCHANGED <<open, visit, tab, profiles, profileBusy, confirmDelete, dbusBusy, disk, issued>>

\* event/dbus_done: whatever page is open looks again.
DbusDone(j) ==
    /\ j.op = "start" /\ j.phase \in {"done", "failed"}
    /\ IF open THEN /\ issued' = issued + 1
                    /\ jobs' = (jobs \ {j}) \cup {Request(issued', "status", None, visit)}
               ELSE jobs' = jobs \ {j} /\ UNCHANGED issued
    /\ UNCHANGED <<page, disk>>
\* The call itself fails.
DbusRefused(j) ==
    /\ j.op = "start" /\ j.phase = "sent" /\ jobs' = jobs \ {j}
    /\ dbusBusy' = (dbusBusy /\ ~Here(j))
    /\ UNCHANGED <<open, visit, tab, profiles, profileBusy, confirmDelete, dbusStatus, disk, issued>>

-----------------------------------------------------------------------------
Next ==
    \/ Open \/ Leave \/ \E to \in {"general", "profiles", "cloud"} : SelectTab(to)
    \/ confirmDeleteProfile \/ CancelDelete \/ handleDbusStart
    \/ \E n \in Profiles :
         handleCreateProfile(n) \/ handleSwitchProfile(n) \/ handleDeleteProfile(n)
    \/ \E j \in jobs :
         \/ Look(j) \/ Act(j) \/ Read(j) \/ Changed(j) \/ DbusDone(j) \/ DbusRefused(j)
         \/ \E ok \in BOOLEAN : Start(j, ok) \/ Listed(j, ok) \/ Looked(j, ok)

Spec == Init /\ [][Next]_vars
-----------------------------------------------------------------------------
(* Properties *)

\* The active profile exists: it is not deleted while it becomes the active one.
ActiveExists == active \in dirs \cup {"default"}

\* When all is answered, in order and on one visit, the cards show what is there.
CardsTruthful ==
    (open /\ jobs = {}) => /\ profiles = [names |-> dirs \cup {"default"}, active |-> active]
                           /\ dbusStatus = running

\* The card is busy only while a change, or the list after it, is under way.
BusyEnds == (open /\ profileBusy) =>
    \E j \in jobs : j.visit = visit /\ (j.op \in Changes \/ (j.op = "list" /\ j.name # None))
=============================================================================
