SPECIFICATION OneSpec
CONSTANTS
    Iter = {i1}
    Key = {k1, k2}
    Null = Null
    MaxRows = 3
INVARIANTS
    TypeOK
    IteratorOnItsRow
    OnlyEarlyExitKeepsCursor
    ExactFromReady
    ReadyUnlessUnread
PROPERTIES
    IterationComplete
    LoopTerminates
