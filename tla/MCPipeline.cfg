SPECIFICATION FairSpec
CONSTANTS
    p1 = p1
    p2 = p2
    None = None
    Pipelines = {p1}
    Kinds = {"deb", "rpm", "intake", "unknown"}
    Batches = {TRUE, FALSE}
    Installs = {TRUE, FALSE}
    Debtaps = {TRUE, FALSE}
    DryRuns = {TRUE, FALSE}
INVARIANTS
    TypeOK
    ConvertedIsKept
    InstallNeedsConsent
    TruthfulResult
PROPERTIES
    BatchPipelineEnds
CHECK_DEADLOCK FALSE
