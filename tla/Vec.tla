-------------------------------- MODULE Vec ----------------------------------
(***************************************************************************)
(* The two operations of Rust's Vec and VecDeque that Sequences does not   *)
(* have.  Positions count from 1.  SequencesExt has the same operators,    *)
(* but the modules it brings along triple the time of every proof about    *)
(* the queues.                                                             *)
(***************************************************************************)
EXTENDS Integers, Sequences, Functions

(* remove(i)                                                               *)
RemoveAt(s, i) == SubSeq(s, 1, i - 1) \o SubSeq(s, i + 1, Len(s))

(* insert(i, e)                                                            *)
InsertAt(s, i, e) == SubSeq(s, 1, i - 1) \o <<e>> \o SubSeq(s, i, Len(s))

=============================================================================
