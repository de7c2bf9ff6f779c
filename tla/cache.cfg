SPECIFICATION FairSpec
CONSTANTS
    Files = {a, b}
    Images = {a, b}
    FileOf <- SinglePages
    MaxCachedPixmaps = 1
    ExpirationThreshold = 0
    Changing = {a}
    MaxVersion = 2
    End = End
INVARIANTS Inv FreshUnlessRaced
PROPERTIES Liveness
CHECK_DEADLOCK FALSE
