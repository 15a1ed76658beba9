------------------------------- MODULE MCTimer -------------------------------
(* Instances of Timer for TLC.                                              *)
EXTENDS Timer, TLC

CONSTANTS t1, t2, t3, idle

MCSymmetry == Permutations(Thread)
===============================================================================
