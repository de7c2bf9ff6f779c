SPECIFICATION HqFairSpec
CONSTANTS
    Tasks = {t1, t2, t3}
    NoTask = NoTask
    Xforms = {x1, x2}
    None = None
INVARIANTS HqInv
PROPERTIES EventuallySharp
CHECK_DEADLOCK FALSE
