SPECIFICATION Spec
CONSTANTS
    t1 = t1
    k1 = k1
    k2 = k2
    p1 = p1
    Tab <- MCTab
    Conn <- MCConn
    Publisher <- MCPublisher
    BufferSize = 1
    WireSize = 1
    MaxVersion = 2
    MaxFaults = 1
INVARIANTS LiveTypeOK NoPanic
PROPERTIES PublishedIsSeen ShutdownDrains
