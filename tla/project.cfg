SPECIFICATION Spec
CONSTANTS
    Names = {p, u}
    Unnamed = u
    Absent = Absent
    Broken = Broken
    None = None
    Sizes = {1, 2}
    MaxVersion = 2
    MaxFaults = 1
    MaxCrashes = 1
INVARIANTS SavedIsKept PauseEnds
PROPERTIES Autosaved
CHECK_DEADLOCK FALSE
