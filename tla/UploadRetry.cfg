CONSTANT MaxAttempts = 4
SPECIFICATION FairSpec
INVARIANTS
    TypeOK
    AnswerIsFresh
PROPERTIES
    ImplementsOutcome
    CallEnds
