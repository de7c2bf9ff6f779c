SPECIFICATION DespeckleFairSpec
CONSTANTS
    Tasks = {t1, t2, t3}
    NoTask = NoTask
    Levels = {off, normal}
    Indicator = Indicator
INVARIANTS DespeckleInv
PROPERTIES IndicatorGoes
CHECK_DEADLOCK FALSE
