------------------------------ MODULE MCFileSys ------------------------------
(* Instances of FileSys for TLC.                                           *)
EXTENDS FileSys, TLC

CONSTANTS t1, t2, n1, n2

(* creat, and open with O_TRUNC and with O_APPEND.                         *)
MCFlags == {<<TRUE, "none">>, <<FALSE, "trunc">>, <<FALSE, "append">>}

MCSymmetry == Permutations(Thread) \cup Permutations(Name)
=============================================================================
