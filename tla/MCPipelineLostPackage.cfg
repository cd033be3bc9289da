SPECIFICATION Spec
CONSTANTS
    p1 = p1
    p2 = p2
    None = None
    Pipelines = {p1}
    Kinds = {"intake"}
    Batches = {TRUE}
    Installs = {FALSE}
    Debtaps = {FALSE}
    DryRuns = {FALSE}
INVARIANT SuccessKeepsPackage
CHECK_DEADLOCK FALSE
