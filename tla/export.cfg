SPECIFICATION FairSpec
CONSTANTS
    NumPages = 3
    MaxThreads = 3
    NoPage = NoPage
INVARIANTS Inv
PROPERTIES ExportEnds
CHECK_DEADLOCK FALSE
