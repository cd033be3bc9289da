SPECIFICATION FairSpec
CONSTANTS
    c1 = c1
    c2 = c2
    s1 = s1
    s2 = s2
    d1 = d1
    d2 = d2
    deb = deb
    srcdir = srcdir
    None = None
    MaxItems = 2
    Prios = {0, 1}
    AddPrios = {0}
    Files = {deb}
    Dirs = {}
    Callers = {c1}
    Starters = {s1}
    Dispatchers = {d1}
    Parallels = {1}
    Installs = {FALSE}
    RemoveArgs = {1, 2}
    ClearArgs = {"any"}
    CancelArgs = {}
    MaxCrashes = 0
    MaxVanish = 0
    MaxWriteFaults = 1
    MaxStageFaults = 0
INVARIANTS
    MemoryIsSaved
    NoZombieRows
PROPERTIES
    BatchEnds
    PendingIsPicked
    RunningSettles
CHECK_DEADLOCK FALSE
