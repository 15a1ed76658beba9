------------------------------- MODULE Mutex -------------------------------
(***************************************************************************)
(* What a set of locks promises the threads of one processor: only the     *)
(* running thread changes a lock; it can take a lock that is free and give *)
(* back a lock that is its own, one at a time.                             *)
(***************************************************************************)
CONSTANTS Thread, Lock, Null

VARIABLES owner,      \* the owner of each lock, or Null
          running     \* the thread whose step this is

Init == owner = [l \in Lock |-> Null]

Take(l) == /\ owner[l] = Null
           /\ running \in Thread
           /\ owner' = [owner EXCEPT ![l] = running]

Give(l) == /\ owner[l] = running
           /\ owner' = [owner EXCEPT ![l] = Null]

Next == \E l \in Lock : Take(l) \/ Give(l)

Spec == Init /\ [][Next]_owner

=============================================================================
