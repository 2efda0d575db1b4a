CONSTANTS
    Repos = {1, 2, 3, 4, 5}
    Created <- MCCreated
    Stars <- MCStars
    Queries <- MCQueries
    Excluded = {}
    LastDay = 4
    TopStars = 3
    Cap = 2
    PageSize = 1
    MaxRetries = 2
    MaxRepos = 5
    MaxUpdates = 0
SPECIFICATION Spec
INVARIANT
    OnlyPagesSkipped
