----------------------------- MODULE MCProcess -----------------------------
(* Instances of Process for TLC: main and the pages of the processes.      *)
EXTENDS Process, TLC

CONSTANTS main, th1, th2, th3

FourThreads == {main, th1, th2, th3}

(* Every process exits with a status that tells it apart.                  *)
OwnStatus == [k \in FirstTid..MaxTid |-> {k}]

(* Pages are interchangeable.                                              *)
FourSymmetry == Permutations({th1, th2, th3})
=============================================================================
