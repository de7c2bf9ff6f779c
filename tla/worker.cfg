SPECIFICATION FairSpec
CONSTANTS
    Interactive = {i1, i2}
    Batch = {b1}
    BatchLevels = {0, 6}
    NoTask = NoTask
INVARIANTS TypeOK RunsOnce InteractiveAtNormalPriority InOrder
PROPERTIES Liveness
CHECK_DEADLOCK FALSE
