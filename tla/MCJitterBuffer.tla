--------------------------- MODULE MCJitterBuffer ---------------------------
(* The offsets at which packets arrive: around the one that is due, a gap, *)
(* and the two ends of the half of the number space.                       *)
EXTENDS JitterBuffer

MCOffsets == {1 - Half, -2, -1, 0, 1, 2, 3, 5, Half}
=============================================================================
