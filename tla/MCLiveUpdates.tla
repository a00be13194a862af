--------------------------- MODULE MCLiveUpdates ---------------------------
(* The instance of LiveUpdates that TLC checks.                            *)
EXTENDS LiveUpdates

CONSTANTS t1, k1, k2, p1

MCTab == {t1}
MCConn == {k1, k2}
MCPublisher == {p1}
=============================================================================
