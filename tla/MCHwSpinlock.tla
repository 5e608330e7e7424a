----------------------------- MODULE MCHwSpinlock -----------------------------
\* Two tasks of one core and one of another.
EXTENDS HwSpinlock, TLC

CONSTANTS t1, t2, t3

TwoAndOne == (t1 :> 0) @@ (t2 :> 0) @@ (t3 :> 1)
=============================================================================
