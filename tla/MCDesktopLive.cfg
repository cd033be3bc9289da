SPECIFICATION FairSpec
CONSTANTS
    None = None
    p1 = p1
    p2 = p2
    Jobs <- MCJobs
    Visits <- MCLiveVisits
    Droppable <- MCFiles
    Refusable <- MCRefusable
    Packages <- MCPackages
    SomeProfiles <- MCProfiles
    Imports <- MCImports
    CloudPages <- MCCloud
    Intervals <- MCIntervals
    MaxTime <- MCTime
    MaxItems <- MCItems
    MaxShift <- MCShift
    Records <- MCRecords
    Tabs <- MCTabs
    RunOrder <- MCRunOrder
    Adds <- MCAdds
    Batch = {"b"}
    DirectChecks = {"verify", "keys"}
    Evented = {"sbom", "cve"}
    Pathless = {"keys"}
    Inventory = {"sbom"}
    FirstTab = "sign"
    ThreadedTools = {"rpm", "abi", "scan", "attest", "publish"}
    DirectTools = {"audit", "rehearse"}
    Asked = {"health", "benchmark", "verify_rollback", "doctor", "wrapped"}
    PluginNames = {"m", "n"}
    Names = {"p"}
    Found = {"a", "b"}
    Streams = {"s"}
    Ring = 2
    StreamRoom = 2
    Calls = {"c", "l"}
    LongCalls = {"l"}
    Subjects <- LiveSubjects
PROPERTIES QueueDrains DecisionArrives RunAllEnds CallsEnd
CHECK_DEADLOCK FALSE
