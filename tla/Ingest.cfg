CONSTANTS
    Texts <- MCTexts
    Slug <- MCSlug
    Finds <- MCFinds
    HardCopyStem <- MCStem
    LinkExts = {"html", "md"}
    FetchWriteups = TRUE
    MaxRuns = 3
    MaxFaults = 1
SPECIFICATION Spec
INVARIANTS
    TypeOK
    BytesAreHeld
    NoStaleWriteups
    NothingDropped
    SourcesStayThere
