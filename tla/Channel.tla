------------------------------ MODULE Channel ------------------------------
(***************************************************************************)
(* What a pipe promises its processes: a bounded queue of bytes.  Each     *)
(* write enters the queue in order, possibly in several pieces; each read  *)
(* takes a prefix; no byte is lost, repeated or reordered.                 *)
(***************************************************************************)
EXTENDS Naturals, Sequences

CONSTANTS Proc, Byte, Capacity

VARIABLES queue,      \* the bytes in the pipe, oldest first
          todo,       \* the bytes each process has still to write
          out         \* the bytes the last read returned

Init == /\ queue = <<>>
        /\ todo = [t \in Proc |-> <<>>]
        /\ out = <<>>

Begin(t) == /\ todo[t] = <<>>
            /\ todo'[t] \in Seq(Byte)
            /\ todo' = [todo EXCEPT ![t] = todo'[t]]
            /\ UNCHANGED <<queue, out>>

Send(t) == \E n \in 1..Len(todo[t]) :
              /\ Len(queue) + n <= Capacity
              /\ queue' = queue \o SubSeq(todo[t], 1, n)
              /\ todo' = [todo EXCEPT ![t] = SubSeq(@, n + 1, Len(@))]
              /\ UNCHANGED out

(* Only when the reading end is closed are the bytes left over dropped.    *)
SendLast(t) == \E n \in 0..Len(todo[t]) :
              /\ Len(queue) + n = Capacity
              /\ queue' = queue \o SubSeq(todo[t], 1, n)
              /\ todo' = [todo EXCEPT ![t] = <<>>]
              /\ UNCHANGED out

Receive == \E n \in 0..Len(queue) :
              /\ out' = SubSeq(queue, 1, n)
              /\ queue' = SubSeq(queue, n + 1, Len(queue))
              /\ UNCHANGED todo

Next == \/ \E t \in Proc : Begin(t) \/ Send(t) \/ SendLast(t)
        \/ Receive

Spec == Init /\ [][Next]_<<queue, todo, out>>

=============================================================================
