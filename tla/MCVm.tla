--------------------------------- MODULE MCVm ---------------------------------
(* Instances of Vm for TLC: one page of each kind that a run needs.         *)
EXTENDS Vm

CONSTANTS p1, p2

(* Processes are alike in the runs where the kernel starts them all.        *)
MCSymmetry == Permutations(Thread)
===============================================================================
