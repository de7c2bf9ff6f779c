SPECIFICATION NamesSpec
CONSTANTS
    Files <- MCFiles
    Projects <- MCProjects
    UserStems = {9}
    LowestStem = 1
    Step = 4
    MaxOrder = 15
    NoText = NoText
    None = None
    Budgets <- MCBudgets
INVARIANTS OwnOutput
PROPERTIES NamesKept EmptyPagesInOrder
CHECK_DEADLOCK FALSE
