--------------------------- MODULE MCRateLimiter ---------------------------
(* The instances of RateLimiter that TLC checks.                           *)
EXTENDS RateLimiter, TLC

CONSTANTS i1, i2, c1, c2

MCIds == {i1, i2}
MCOneId == {i1}
MCCallers == {c1, c2}
MCOneCaller == {c1}
MCCosts == {1, 2}
MCOneCost == {1}

MCLimits == [i \in MCIds |-> 2]
MCWindows == [i \in MCIds |-> 3]

MCShortLimit == [i \in MCOneId |-> 2]
MCShortWindow == [i \in MCOneId |-> 2]

Symmetry == Permutations(MCCallers)
=============================================================================
