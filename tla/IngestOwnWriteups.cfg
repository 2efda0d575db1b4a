CONSTANTS
    Texts <- MCTexts
    Slug <- MCSlug
    Finds <- MCOwnWriteups
    HardCopyStem <- MCStem
    LinkExts = {"html", "md"}
    FetchWriteups = TRUE
    MaxRuns = 1
    MaxFaults = 0
SPECIFICATION Spec
INVARIANT
    BytesAreHeld
