SPECIFICATION FairSpec
CONSTANTS
    NoPage = NoPage
    NumPages = 2
    NumFilters = 2
    Orders = {"SEQUENTIAL_ORDER", "RANDOM_ORDER"}
    UserSteps = 3
INVARIANTS QueuesInStep DisplayedIsSelected
PROPERTIES BatchComplete Liveness
CHECK_DEADLOCK FALSE
