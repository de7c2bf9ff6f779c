SPECIFICATION Spec
CONSTANTS
    Images = {1, 2, 3}
    Wide = {1, 2}
    Loaded = {1, 3}
    Direction = "LeftToRight"
    MaxSteps = 3
INVARIANTS TypeOK SelectionSound ListShowsProject LeaderIsLoaded NoConflict
PROPERTIES Settles ThumbnailsInOrder
CHECK_DEADLOCK FALSE
