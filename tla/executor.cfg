SPECIFICATION FairSpec
CONSTANTS
    Tasks = {t1, t2, t3}
    NoTask = NoTask
INVARIANTS TypeOK
PROPERTIES ImplementsSerial Liveness
CHECK_DEADLOCK FALSE
