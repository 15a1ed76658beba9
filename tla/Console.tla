------------------------------ MODULE Console ------------------------------
(***************************************************************************)
(* Console input (devices/input.rs): the keyboard and serial interrupts    *)
(* put bytes into a ring that the console read of sys_read takes from.     *)
(* Interrupt handlers run with interrupts off, and getc works under an     *)
(* InterruptGuard, so each is one step.                                    *)
(***************************************************************************)
EXTENDS Integers, Sequences

CONSTANTS Char,        \* bytes without a meaning of their own
          Escape,      \* what emit_escape sends for an arrow key
          Reader,      \* processes that read the console
          BUF_SIZE,
          Word         \* 2^32: usize arithmetic that reaches it panics

(* Line feed, return, control-D, control-C, control-Z, control-U, erase.   *)
Control == {"nl", "cr", "eof", "intr", "susp", "kill", "erase"}
Byte == Char \cup Control

ASSUME ConsoleAssumption ==
    /\ BUF_SIZE \in Nat \ {0} /\ Word \in Nat
    /\ Escape \in Seq(Char) /\ Escape # <<>>

VARIABLES buf, r, w, e, raw,
          reading,     \* for each reader: "no", or the mode its read began in
          killed,      \* readers with the flag killed set
          halted       \* the kernel panicked on overflow

ring == <<buf, r, w, e>>
readers == <<reading, killed>>
vars == <<ring, raw, readers, halted>>

Init ==
    /\ buf = [i \in 0..(BUF_SIZE - 1) |-> CHOOSE c \in Char : TRUE]
    /\ r = 0 /\ w = 0 /\ e = 0 /\ raw = FALSE
    /\ reading = [t \in Reader |-> "no"]
    /\ killed = {} /\ halted = FALSE

HasRoom == e - r < BUF_SIZE

(* Faulty Put: behind what is committed, over the line.                    *)
PutAtW(s, n) ==
    [i \in DOMAIN buf |-> LET k == (i - w) % BUF_SIZE
                          IN  IF k < n THEN s[k + 1] ELSE buf[i]]

(* The ring after the first n bytes of s are put at e.                     *)
Put(s, n) ==
    [i \in DOMAIN buf |-> LET k == (i - e) % BUF_SIZE
                          IN  IF k < n THEN s[k + 1] ELSE buf[i]]

-----------------------------------------------------------------------------
(* Interrupts                                                              *)

(* putc of any byte in raw mode.                                           *)
PutcRawMode(c) ==
    /\ raw /\ HasRoom /\ e + 1 < Word
    /\ buf' = Put(<<c>>, 1)
    /\ e' = e + 1 /\ w' = e + 1
    /\ UNCHANGED <<r, raw, readers, halted>>

(* putc_raw for each byte of an escape sequence, as far as there is room.  *)
EmitEscape ==
    LET room == BUF_SIZE - (e - r)
        n == IF Len(Escape) < room THEN Len(Escape) ELSE room
    IN  /\ HasRoom /\ e + n < Word
        /\ buf' = Put(Escape, n)
        /\ e' = e + n
        /\ w' = IF raw THEN e + n ELSE w
        /\ UNCHANGED <<r, raw, readers, halted>>

(* Control-C and control-\: the line is dropped, and the processes K that  *)
(* are in the foreground group and do not ignore the signal are killed.    *)
Interrupt(K) ==
    /\ ~raw
    /\ e' = w
    /\ killed' = killed \cup K
    /\ UNCHANGED <<buf, r, w, raw, reading, halted>>

(* Control-U erases to the start of what was not committed, or to a line   *)
(* feed within it.                                                         *)
KillLine ==
    /\ ~raw
    /\ e' \in w..e
    /\ \A i \in (e' + 1)..e : buf[(i - 1) % BUF_SIZE] # "nl"
    /\ e' = w \/ buf[(e' - 1) % BUF_SIZE] = "nl"
    /\ UNCHANGED <<buf, r, w, raw, readers, halted>>

Erase ==
    /\ ~raw /\ e # w
    /\ e' = e - 1
    /\ UNCHANGED <<buf, r, w, raw, readers, halted>>

Cooked(c) == IF c = "cr" THEN "nl" ELSE c

(* The line is committed on a line feed, on control-D, or when full.       *)
Commits(c) == Cooked(c) \in {"nl", "eof"} \/ e + 1 = r + BUF_SIZE

(* The sums that are evaluated overflow.                                   *)
Overflows(c) == e + 1 >= Word \/ (Cooked(c) \notin {"nl", "eof"} /\ r + BUF_SIZE >= Word)

(* putc of any other byte in cooked mode.                                  *)
PutcCooked(c) ==
    /\ ~raw /\ c \in Char \cup {"nl", "cr", "eof"} /\ HasRoom /\ ~Overflows(c)
    /\ buf' = Put(<<Cooked(c)>>, 1)
    /\ e' = e + 1
    /\ w' = IF Commits(c) THEN e + 1 ELSE w
    /\ UNCHANGED <<r, raw, readers, halted>>

(* A sum reaches 2^32 in putc or in putc_raw.                              *)
PutcPanic ==
    /\ HasRoom
    /\ \/ e + 1 >= Word
       \/ e + Len(Escape) >= Word /\ BUF_SIZE - (e - r) >= Word - e
       \/ ~raw /\ r + BUF_SIZE >= Word
    /\ halted' = TRUE
    /\ UNCHANGED <<ring, raw, readers>>

-----------------------------------------------------------------------------
(* System calls                                                            *)

(* ioctl(TIOCRAW).                                                         *)
SetRaw(b) ==
    /\ raw' = b
    /\ UNCHANGED <<ring, readers, halted>>

(* A system call kills the processes K with a signal.                      *)
Killed(K) ==
    /\ killed' = killed \cup K
    /\ UNCHANGED <<ring, raw, reading, halted>>

BeginRead(t) ==
    /\ reading[t] = "no"
    /\ reading' = [reading EXCEPT ![t] = IF raw THEN "raw" ELSE "cooked"]
    /\ UNCHANGED <<ring, raw, killed, halted>>

(* getc takes a byte.  A raw read returns with it; a cooked one on a line  *)
(* feed, on control-D, or when its buffer is full.                         *)
Getc(t) ==
    /\ reading[t] # "no" /\ r # w
    /\ r' = r + 1
    /\ LET c == buf[r % BUF_SIZE]
       IN  reading' \in IF reading[t] = "raw" \/ c \in {"nl", "eof"}
                        THEN {[reading EXCEPT ![t] = "no"]}
                        ELSE {reading, [reading EXCEPT ![t] = "no"]}
    /\ UNCHANGED <<buf, w, e, raw, killed, halted>>

(* Faulty GetcKilled: the loop goes on.                                    *)
GetcBlind(t) ==
    /\ reading[t] # "no" /\ r = w /\ t \in killed
    /\ UNCHANGED <<ring, raw, readers, halted>>

(* getc finds nothing and its process killed: it and the read return.      *)
GetcKilled(t) ==
    /\ reading[t] # "no" /\ r = w /\ t \in killed
    /\ reading' = [reading EXCEPT ![t] = "no"]
    /\ UNCHANGED <<ring, raw, killed, halted>>

-----------------------------------------------------------------------------

Irq ==
    \/ \E c \in Byte : PutcRawMode(c)
    \/ EmitEscape
    \/ \E K \in SUBSET Reader : Interrupt(K)
    \/ KillLine \/ Erase
    \/ \E c \in Byte : PutcCooked(c)
    \/ PutcPanic

Syscall ==
    \/ \E b \in BOOLEAN : SetRaw(b)
    \/ \E K \in SUBSET Reader : Killed(K)
    \/ \E t \in Reader : BeginRead(t) \/ Getc(t) \/ GetcKilled(t)

Next == ~halted /\ (Irq \/ Syscall)

Spec == Init /\ [][Next]_vars

-----------------------------------------------------------------------------
(* Properties                                                              *)

TypeOK ==
    /\ buf \in [0..(BUF_SIZE - 1) -> Byte]
    /\ r \in Nat /\ w \in Nat /\ e \in Nat
    /\ raw \in BOOLEAN
    /\ reading \in [Reader -> {"no", "raw", "cooked"}]
    /\ killed \subseteq Reader
    /\ halted \in BOOLEAN

(* The indices stay in order and the bytes between them in the ring: what  *)
(* is read was committed, what is committed was put, nothing is put over   *)
(* bytes that nobody has read.                                             *)
IndicesInOrder == r <= w /\ w <= e /\ e <= r + BUF_SIZE

(* A byte that was committed stays committed and as it was until it is     *)
(* read: no editing key, interrupt or full buffer reaches back over it.    *)
CommittedStays ==
    [][/\ r <= r' /\ r' <= w /\ w <= w'
       /\ \A i \in r'..(w - 1) : buf'[i % BUF_SIZE] = buf[i % BUF_SIZE]]_vars

Between(i, j) == [k \in 1..(j - i) |-> buf[(i + k - 1) % BUF_SIZE]]

LQ == INSTANCE LineQueue WITH Byte <- Byte, Size <- BUF_SIZE,
                              ready <- Between(r, w), line <- Between(w, e)

(* The ring of the console implements a line queue: every byte is read     *)
(* once, in the order typed, unless it was erased before its line was      *)
(* committed.                                                              *)
ImplementsLineQueue == LQ!Spec

(* A full buffer is committed, as putc's comment says, so that a reader    *)
(* can always make room.                                                   *)
FullIsCommitted == e = r + BUF_SIZE => w = e

(* In raw mode every byte is available at once.                            *)
RawIsImmediate == raw => w = e
=============================================================================
