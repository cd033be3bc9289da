SPECIFICATION Spec
CONSTANTS
    c1 = c1
    c2 = c2
    s1 = s1
    s2 = s2
    d1 = d1
    d2 = d2
    deb = deb
    srcdir = srcdir
    None = None
    MaxItems = 2
    Prios = {0}
    AddPrios = {0}
    Files = {deb}
    Dirs = {}
    Callers = {c1}
    Starters = {s1}
    Dispatchers = {d1, d2}
    Parallels = {2}
    Installs = {TRUE, FALSE}
    RemoveArgs = {1, 2}
    ClearArgs = {"any", "done"}
    CancelArgs = {0}
    MaxCrashes = 1
    MaxVanish = 1
    MaxWriteFaults = 0
    MaxStageFaults = 1
SYMMETRY DispatcherSymmetry
INVARIANTS
    TypeOK
    InstallsSerial
    OneWorkerPerItem
    RunningIsOwned
    NoIdCollision
    RegistryExact
PROPERTY ImplementsJobQueue
CHECK_DEADLOCK FALSE
