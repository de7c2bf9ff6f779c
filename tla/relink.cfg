SPECIFICATION FairRelinkingSpec
CONSTANTS
    NumRows = 2
    Paths = {a, b}
    NoPath = NoPath
    Replacements = 2
INVARIANTS Inv
PROPERTIES Liveness
CHECK_DEADLOCK FALSE
