CONSTANTS
    NumRepos = 2
    Paths = {"a", "b"}
    Archives <- MCArchives
    Curated = {1, 2}
    Discovered = {2}
    Oversize = {2}
    Workers = 2
    BatchSize = 2
    BatchBytes = 2
    Publish = TRUE
    KeepLocal = FALSE
    Resume = TRUE
    Faults = {"stage", "lowdisk", "git", "merge", "publish", "manifest", "discovery", "crash"}
    MaxFaults = 2
    MaxRuns = 3
SPECIFICATION FairSpec
INVARIANTS
    TypeOK
    OkImpliesPublished
    CatalogNeverDangles
    StagingIsBatch
    NoDoublePublish
    ReturnIsComplete
PROPERTY
    RunEnds
