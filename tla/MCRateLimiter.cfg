SPECIFICATION Spec
CONSTANTS
    i1 = i1
    i2 = i2
    c1 = c1
    c2 = c2
    Id <- MCIds
    Limit <- MCLimits
    Window <- MCWindows
    Second = 2
    Capacity = 1
    EvictionSample = 1
    Caller <- MCOneCaller
    Cost <- MCOneCost
    MaxTime = 6
    MaxCount = 2
INVARIANTS LimiterTypeOK TableBounded BudgetHolds RetryIsEnough RetryIsTight
\* The clock is bounded and callers may hold their units forever.
CHECK_DEADLOCK FALSE
