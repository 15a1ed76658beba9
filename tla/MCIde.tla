-------------------------------- MODULE MCIde --------------------------------
(* Instances of Ide for TLC.                                                *)
EXTENDS Ide, TLC

CONSTANTS t1, t2, v1, v2, s1, s2, junk

MCSymmetry == Permutations(Thread) \cup Permutations(Value)
===============================================================================
