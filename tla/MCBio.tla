------------------------------- MODULE MCBio -------------------------------
(* Instances of Bio for TLC.                                               *)
EXTENDS Bio, TLC

CONSTANTS t1, t2, t3, p1

MCSymmetry == Permutations(Thread) \cup Permutations(Part)
=============================================================================
