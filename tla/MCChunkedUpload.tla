--------------------------- MODULE MCChunkedUpload ---------------------------
(* The instance of ChunkedUpload that TLC checks: a file of two chunks and  *)
(* an empty file.                                                          *)
EXTENDS ChunkedUpload

CONSTANTS u1, u2, a, b

MCUpload == {u1, u2}
MCByte == {a, b}
MCAttempts == [u \in MCUpload |-> IF u = u1 THEN 2 ELSE 1]
MCFile == [u \in MCUpload |-> IF u = u1 THEN <<a, b>> ELSE <<>>]
=============================================================================
