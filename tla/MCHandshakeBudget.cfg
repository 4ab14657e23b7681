CONSTANTS
    BURST = 2
    RATE = 3
    SLACK = 1
    MaxTime = 12
SPECIFICATION BudgetSpec
INVARIANT BudgetInv
INVARIANT RateBound
INVARIANT AccruesWhilePolled
