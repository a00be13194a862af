SPECIFICATION Spec
CONSTANTS
    i1 = i1
    i2 = i2
    c1 = c1
    c2 = c2
    Id <- MCOneId
    Limit <- MCShortLimit
    Window <- MCShortWindow
    Second = 1
    Capacity = 1
    EvictionSample = 1
    Caller <- MCCallers
    Cost <- MCCosts
    MaxTime = 4
    MaxCount = 2
SYMMETRY Symmetry
INVARIANTS BudgetHolds
\* The clock is bounded and callers may hold their units forever.
CHECK_DEADLOCK FALSE
