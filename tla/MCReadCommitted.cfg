SPECIFICATION RCSpec
CONSTANTS
    u1 = u1
    u2 = u2
    s1 = s1
    t1 = t1
    t2 = t2
    p1 = p1
    User <- MCTwoUsers
    Space <- MCSpace
    Tx <- MCTx
    Profile <- MCProfile
    Requested <- MCEveryOp
SYMMETRY Symmetry
INVARIANTS RCTypeOK NoOrphanRows 
PROPERTIES MembershipNeedsConsent
