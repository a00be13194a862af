SPECIFICATION Spec
CONSTANTS
    t1 = t1
    t2 = t2
    Tab <- MCTab
    NoTab = NoTab
    First = t1
    MaxChanges = 1
    MaxFaults = 1
    MaxInputs = 3
INVARIANTS ControllerMatches
PROPERTIES  TabsReconnect
\* Without inputs and changes every tab comes to rest.
CHECK_DEADLOCK FALSE
