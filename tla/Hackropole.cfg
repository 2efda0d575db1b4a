CONSTANTS
    Sitemaps <- MCSitemaps
    ChallengePages = {"p1", "p2"}
    Limit = 2
    Slug <- MCSlug
    Offers <- MCOffers
    Size <- MCSize
    Declared <- MCDeclared
    NoLength = NoLength
    CloseEnds = {}
    MaxFile = 2
    Nothing = Nothing
    MaxRuns = 3
SPECIFICATION Spec
INVARIANTS
    TypeOK
    FinalIsComplete
    RecordsListFinalFiles
    OnlyFailuresMissing
PROPERTY
    FinalStays
