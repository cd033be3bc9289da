SPECIFICATION Spec
CONSTANTS
    p1 = p1
    p2 = p2
    None = None
    Pipelines = {p1}
    Kinds = {"deb"}
    Batches = {TRUE}
    Installs = {FALSE}
    Debtaps = {FALSE}
    DryRuns = {FALSE}
INVARIANT ConvertOnlyNeverInstalls
CHECK_DEADLOCK FALSE
