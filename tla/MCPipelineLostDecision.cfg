SPECIFICATION FairSpec
CONSTANTS
    p1 = p1
    p2 = p2
    None = None
    Pipelines = {p1}
    Kinds = {"deb"}
    Batches = {FALSE}
    Installs = {TRUE}
    Debtaps = {FALSE}
    DryRuns = {FALSE}
PROPERTY DecisionReleases
CHECK_DEADLOCK FALSE
