CONSTANTS
    Repos = {1, 2, 3, 4, 5}
    Created <- MCCreated
    Stars <- MCSameStars
    Queries <- MCQueries
    Excluded = {2}
    LastDay = 4
    TopStars = 1
    Cap = 2
    PageSize = 1
    MaxRetries = 2
    MaxRepos = 3
    MaxUpdates = 1
SPECIFICATION FairSpec
INVARIANTS
    TypeOK
    StillReposFound
    CapRespected
PROPERTY
    DiscoveryEnds
