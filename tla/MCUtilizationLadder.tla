------------------------- MODULE MCUtilizationLadder -------------------------
(* Instances of UtilizationLadder for TLC.                                 *)
EXTENDS UtilizationLadder

CONSTANTS d1, d2

TwoDesigns == {d1, d2}

\* Three of the rungs of the sky130hd ladder: its top, one in between, its floor.
ThreeRungs == {2, 40, 70}

\* LADDER_START_UTIL is never set.
NeverSet == {0}
==============================================================================
