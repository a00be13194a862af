SPECIFICATION MemosSpec
CONSTANTS
    u1 = u1
    u2 = u2
    s1 = s1
    m1 = m1
    x1 = x1
    r1 = r1
    r2 = r2
    p1 = p1
    User <- MCUser
    Space <- MCSpace
    Memo <- MCMemo
    Share <- MCShare
    Request <- MCRequest
    Profile <- MCProfile
    Audience <- MCAudience
SYMMETRY Symmetry
INVARIANTS MemosTypeOK LastActiveAdmin NoDanglingMemo SpaceAudienceIsClosed
PROPERTIES RemovedAuthorOnlyWithdraws
\* The ids are bounded: when all are used and deleted the store is idle.
CHECK_DEADLOCK FALSE
