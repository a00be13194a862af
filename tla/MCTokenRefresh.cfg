SPECIFICATION Spec
CONSTANTS
    b1 = b1
    b2 = b2
    Tab <- MCTabs
    Caller <- MCCallers
    Lifetime = 3
    RequestBuffer = 1
    FocusBuffer = 2
    MaxTime = 3
    MaxId = 3
INVARIANTS  GuestOnlyAfterFailure
PROPERTIES RequestsSettle
