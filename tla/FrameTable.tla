------------------------------ MODULE FrameTable ------------------------------
(* The frame table (vm/frame.rs): FRAME_TABLE, a vector of frames in the    *)
(* order the clock hand visits them, and KPAGE_INDEX, the position of each  *)
(* kernel page in it.  A table is a record of the two; positions count      *)
(* from 1.                                                                  *)
EXTENDS Integers, SequencesExt

EmptyTable == [entry |-> <<>>, index |-> <<>>]

Kpages(f) == {f.entry[i].kpage : i \in 1..Len(f.entry)}

Put(g, x, i) == [y \in DOMAIN g \cup {x} |-> IF y = x THEN i ELSE g[y]]

Forget(g, x) == [y \in DOMAIN g \ {x} |-> g[y]]

(* register_frame: a new frame goes last.                                   *)
Register(f, k, u, t) ==
    [entry |-> Append(f.entry, [kpage |-> k, upage |-> u, owner |-> t, pinned |-> FALSE]),
     index |-> Put(f.index, k, Len(f.entry) + 1)]

(* A mutated free_frame: the moved frame keeps its old index.               *)
ReleaseStale(f, k) ==
    IF k \notin DOMAIN f.index
    THEN f
    ELSE LET i == f.index[k]
             n == Len(f.entry)
         IN [entry |-> [j \in 1..(n - 1) |-> IF j = i THEN f.entry[n] ELSE f.entry[j]],
             index |-> Forget(f.index, k)]

(* free_frame: the last frame takes the place of the one that goes          *)
(* (Vec::swap_remove), and its index is corrected.                          *)
Release(f, k) ==
    IF k \notin DOMAIN f.index
    THEN f
    ELSE LET i == f.index[k]
             n == Len(f.entry)
             e == [j \in 1..(n - 1) |-> IF j = i THEN f.entry[n] ELSE f.entry[j]]
             g == Forget(f.index, k)
         IN [entry |-> e, index |-> IF i < n THEN Put(g, e[i].kpage, i) ELSE g]

(* The end of evict_frame: the frame at position i is taken out, the later  *)
(* ones move up (Vec::remove), and their indices are written again.         *)
TakeOut(f, i) ==
    LET e == RemoveAt(f.entry, i)
        g == Forget(f.index, f.entry[i].kpage)
        moved == i..Len(e)
    IN [entry |-> e,
        index |-> [x \in DOMAIN g \cup {e[j].kpage : j \in moved} |->
                      IF \E j \in moved : e[j].kpage = x
                      THEN CHOOSE j \in moved : e[j].kpage = x
                                /\ \A l \in moved : e[l].kpage = x => l <= j
                      ELSE g[x]]]

(* pin_upage and unpin_upage: the first frame of the owner at that address. *)
SetPinned(f, t, u, b) ==
    LET i == SelectInSeq(f.entry, LAMBDA e : e.owner = t /\ e.upage = u)
    IN IF i = 0 THEN f ELSE [f EXCEPT !.entry[i].pinned = b]

(* A mutated fork that leaves the placeholder.                              *)
FixOwnerNot(f, p, t) == f

(* fix_owner_tid: every frame of the placeholder goes to the child.         *)
FixOwner(f, p, t) ==
    [f EXCEPT !.entry = [i \in 1..Len(f.entry) |->
        IF f.entry[i].owner = p THEN [f.entry[i] EXCEPT !.owner = t] ELSE f.entry[i]]]

(* "Kept in sync with FRAME_TABLE": the index holds every frame, at its     *)
(* position, and nothing else; so no kernel page is in the table twice.     *)
Agrees(f) ==
    /\ DOMAIN f.index = Kpages(f)
    /\ \A i \in 1..Len(f.entry) : f.index[f.entry[i].kpage] = i
===============================================================================
