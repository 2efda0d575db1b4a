CONSTANTS
    Events = {1, 2, 3, 4, 5, 6}
    Second <- MCSecond
    Tasks <- MCTasks
    Writeups <- MCWriteups
    NoEvent = NoEvent
    NoLink = NoLink
    Inline <- MCInline
    Marked <- MCMarked
    NotHttp = NotHttp
    Undated = {3}
    Unbuildable = {6}
    Malformed = {"http://"}
    Start = 1
    Finish = 6
    Limit = 3
    MaxEvents = 5
    MaxWriteups = 2
    MaxLosses = 2
SPECIFICATION FairSpec
INVARIANTS
    TypeOK
    EarlyEventsFound
    OnlyLostPagesMissing
PROPERTY
    CrawlEnds
