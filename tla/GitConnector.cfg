CONSTANTS
    Names = {"2023", "a", "b", "challenge", "finals", "public", "quals", "vendor", "web"}
    Rank <- MCRank
    Components = {"challenge", "public"}
    Markers = {"challenge"}
    Noise = {"vendor"}
    MarkerRules <- MCRules
    RedistributableSpdx = {"MIT", "Apache-2.0"}
    Texts <- MCTexts
    Slug <- MCSlug
    YearIn <- MCYearIn
    CategoryOf <- MCCategoryOf
    CategoryLabel <- MCCategoryLabel
    Editions = {"finals", "quals"}
    Wrappers = {"challenge"}
    RepoName <- MCRepoName
    OriginOf <- MCOriginOf
    Repos = {"r0", "r1", "r2", "r3"}
    Checkouts <- MCCheckouts
    Lists <- MCLists
    SizeCap = 5
SPECIFICATION Spec
INVARIANTS
    TypeOK
    NeverParentAndChild
    WalkFindsChallenges
    OnlyKnownLosses
    PartsAreNoChallenges
    ListedReposVisited
    OnlyProvenRedistributable
