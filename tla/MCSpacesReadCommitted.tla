----------------------- MODULE MCSpacesReadCommitted -----------------------
(* The instances of SpacesReadCommitted that TLC checks.                   *)
EXTENDS SpacesReadCommitted, TLC

CONSTANTS u1, u2, s1, t1, t2, p1

MCTwoUsers == {u1, u2}
MCSpace == {s1}
MCTx == {t1, t2}
MCProfile == {p1}

MCEveryOp == {o.name : o \in Op}
MCLifecycleOps == {"CreateSpace", "Invite", "Accept", "DeleteSpace", "DeleteUser"}
MCAdminOps == {"CreateSpace", "Invite", "Accept", "UpdateMember", "DeleteMember", "Archive"}

Symmetry == Permutations(MCTwoUsers) \cup Permutations(MCTx)
=============================================================================
