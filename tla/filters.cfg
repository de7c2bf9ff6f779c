SPECIFICATION Spec
CONSTANTS
    NumPages = 2
    Geometry <- MCGeometry
    Sizes = {1, 2}
    Modes = {bw, color}
    DefaultMode = bw
    None = None
    Budgets <- MCBudgets
INVARIANTS SizesFinal OutputIsCurrent
PROPERTIES TasksKeepChoices PagesMatch
CHECK_DEADLOCK FALSE
