SPECIFICATION FairSpec
CONSTANTS
    p1 = p1
    p2 = p2
    None = None
    Pipelines = {p1}
    Kinds = {"deb"}
    Batches = {TRUE}
    Installs = {FALSE}
    Debtaps = {TRUE}
    DryRuns = {FALSE}
PROPERTY FallbackIsTried
CHECK_DEADLOCK FALSE
