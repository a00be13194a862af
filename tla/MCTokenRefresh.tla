--------------------------- MODULE MCTokenRefresh ---------------------------
(* The instance of TokenRefresh that TLC checks.                           *)
EXTENDS TokenRefresh

CONSTANTS b1, b2

MCTabs == {b1, b2}

MCCallers == {b1}
=============================================================================
