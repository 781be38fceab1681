CONSTANTS
    user = user
    custom = custom
    c1 = c1
    c2 = c2
    Path <- MCPath
    DefaultPath = user
    Content <- MCContent
    DefaultContent = c1
    Stored <- MCStored
    MaxRevision = 1
    Detailed <- MCDetailed
SPECIFICATION FairControlCenterSpec
INVARIANTS FileValidated EditsReported
PROPERTIES RestartFollows TaskEnds
CHECK_DEADLOCK FALSE
