SPECIFICATION Spec
CONSTANTS
    c1 = c1
    c2 = c2
    s1 = s1
    s2 = s2
    d1 = d1
    d2 = d2
    deb = deb
    srcdir = srcdir
    None = None
    MaxItems = 2
    Prios = {0}
    AddPrios = {0}
    Files = {deb}
    Dirs = {}
    Callers = {c1}
    Starters = {s1, s2}
    Dispatchers = {d1, d2}
    Parallels = {2}
    Installs = {TRUE}
    RemoveArgs = {}
    ClearArgs = {}
    CancelArgs = {}
    MaxCrashes = 0
    MaxVanish = 0
    MaxWriteFaults = 0
    MaxStageFaults = 0
INVARIANT OneInstallAtATime
CHECK_DEADLOCK FALSE
