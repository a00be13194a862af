----------------------------- MODULE MCLiveTabs -----------------------------
(* The instance of LiveTabs that TLC checks.                               *)
EXTENDS LiveTabs

CONSTANTS t1, t2

MCTab == {t1, t2}
=============================================================================
