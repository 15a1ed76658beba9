------------------------------- MODULE MCSync -------------------------------
(* Instances of Sync for TLC.                                              *)
EXTENDS Sync

CONSTANTS t1, t2, t3

(* Every thread at PRI_DEFAULT, as the kernel creates them.                *)
UniformPri == [t \in Everyone |-> IF t = Idle THEN 0 ELSE 31]

(* Three levels, as the tests of priority donation set up.                 *)
LadderPri == [t \in Everyone |-> CASE t = Idle -> 0 [] t = t1 -> 31
                                   [] t = t2 -> 32 [] OTHER -> 33]

=============================================================================
