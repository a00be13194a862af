----------------------------- MODULE MCComposer -----------------------------
(* The instance of Composer that TLC checks.                               *)
EXTENDS Composer, TLC

CONSTANTS w1, w2, i1, i2, v1

MCWord == {w1, w2}
MCImage == {i1, i2}
MCVoice == {v1}
=============================================================================
