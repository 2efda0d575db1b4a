CONSTANTS
    NumRepos = 2
    Paths = {"a", "b"}
    Archives <- MCArchives
    Curated = {1}
    Discovered = {2}
    Oversize = {}
    Workers = 2
    BatchSize = 2
    BatchBytes = 2
    Publish = TRUE
    KeepLocal = FALSE
    Resume = TRUE
    Faults = {"discovery"}
    MaxFaults = 1
    MaxRuns = 1
SPECIFICATION Spec
INVARIANT
    NeverAborts
