---------------------------- MODULE MCSpaceMemos ----------------------------
(* The instance of SpaceMemos that TLC checks: two updates of one memo in   *)
(* flight, in and out of one space.                                        *)
EXTENDS SpaceMemos, TLC

CONSTANTS u1, u2, s1, m1, x1, r1, r2, p1

MCUser == {u1, u2}
MCSpace == {s1}
MCMemo == {m1}
MCShare == {x1}
MCRequest == {r1, r2}
MCProfile == {p1}
MCAudience == {"PRIVATE"}

Symmetry == Permutations(MCUser) \cup Permutations(MCRequest)
=============================================================================
