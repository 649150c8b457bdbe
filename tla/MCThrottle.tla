---------------------------- MODULE MCThrottle ----------------------------
(* Instances of Throttle for TLC: no limit, limits below, at and above the *)
(* size of the buffer, of which two do not divide a second.                *)
EXTENDS Throttle, TLC

MCLimits == {0, 1, 3, 5}
Symmetry == Permutations(Workers)
===========================================================================
