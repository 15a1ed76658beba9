------------------------------ MODULE Signals ------------------------------
(***************************************************************************)
(* Signals and process groups (thread/mod.rs) over a table p of processes: *)
(* what the scans of ALL_LIST find and change.  All run with interrupts    *)
(* off.  Threads enter ALL_LIST in the order of their ids.                 *)
(***************************************************************************)
EXTENDS Integers, FiniteSetsExt

CONSTANTS Tid,         \* thread ids of user processes
          Signal       \* signal numbers

(* "new" is on ALL_LIST without a page directory; "start" has one and is   *)
(* still in fork_child_entry; "late" came from there with killed set.      *)
Proc == [state : {"none", "new", "start", "up", "late", "gone"},
         pgid : Nat, parent : Tid \cup {0}, ignore : SUBSET Signal]

NoProc == [state |-> "none", pgid |-> 0, parent |-> 0, ignore |-> {}]

(* Threads with a page directory.                                          *)
HasPagedir(p) == {t \in Tid : p[t].state \in {"start", "up", "late"}}
Listed(p) == HasPagedir(p) \cup {t \in Tid : p[t].state = "new"}

(* init_thread copies pgid from a tid that create fills in later: from 0.  *)
InitThread(p, c) == [p EXCEPT ![c] = [NoProc EXCEPT !.state = "new"]]

(* The threads of S that a signal kills.                                   *)
DeliverSignal(p, S, sig) ==
    {t \in S : sig = "KILL" \/ (sig # "CHLD" /\ sig \notin p[t].ignore)}

SendSignal(p, t, sig) == DeliverSignal(p, HasPagedir(p) \cap {t}, sig)

SendSignalPgid(p, g, sig) ==
    DeliverSignal(p, {t \in HasPagedir(p) : p[t].pgid = g}, sig)

(* The group of the newest process that has a parent.                      *)
ForegroundPgid(p) ==
    LET C == {t \in HasPagedir(p) : p[t].parent # 0}
    IN  IF C = {} THEN 0 ELSE p[Max(C)].pgid

(* The processes that a key of the terminal kills with sig.                *)
Foreground(p, sig) ==
    IF ForegroundPgid(p) > 0 THEN SendSignalPgid(p, ForegroundPgid(p), sig) ELSE {}

SetPgid(p, t, g) ==
    IF t \in Listed(p) THEN [p EXCEPT ![t].pgid = IF g = 0 THEN t ELSE g] ELSE p

(* What a child gets from its parent at the end of fork.                   *)
SetThreadParentInfo(p, c, t) ==
    IF c \in Listed(p)
    THEN [p EXCEPT ![c].parent = t, ![c].pgid = p[t].pgid, ![c].ignore = p[t].ignore]
    ELSE p
=============================================================================
