----------------------------- MODULE LineQueue -----------------------------
(***************************************************************************)
(* What the console promises its readers: what is typed is edited at the   *)
(* end of a line; a line once given over is read once, in order and        *)
(* unchanged.                                                              *)
(***************************************************************************)
EXTENDS Naturals, Sequences

CONSTANTS Byte, Size

VARIABLES ready,    \* what readers may take
          line      \* what may still be edited

Init == ready = <<>> /\ line = <<>>

(* Bytes arrive at the end of the line, which may be given over with them. *)
Type ==
    \E n \in 1..(Size - Len(ready) - Len(line)) :
        \E s \in [1..n -> Byte] :
            \/ line' = line \o s /\ UNCHANGED ready
            \/ ready' = ready \o line \o s /\ line' = <<>>

(* The end of the line is erased.                                          *)
Erase == \E n \in 0..Len(line) : line' = SubSeq(line, 1, n) /\ UNCHANGED ready

Take == ready # <<>> /\ ready' = Tail(ready) /\ UNCHANGED line

Spec == Init /\ [][Type \/ Erase \/ Take]_<<ready, line>>
=============================================================================
