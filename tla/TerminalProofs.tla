--------------------------- MODULE TerminalProofs ---------------------------
(***************************************************************************)
(* The terminal, for every keyboard, every number of processes and every   *)
(* size of the ring.                                                       *)
(*                                                                         *)
(* Of the console alone: the indices of its ring stay in order, committed  *)
(* bytes stay as they are, and the ring implements a line queue.  The      *)
(* inductive invariant is TypeOK together with IndicesInOrder; the rest is *)
(* arithmetic modulo BUF_SIZE.                                             *)
(*                                                                         *)
(* Of the whole: the flags of the keyboard driver follow the keys, and     *)
(* interrupts and processes use the ring only as Console lets them, so     *)
(* that what is proved of Console holds for the terminal.                  *)
(***************************************************************************)
EXTENDS Terminal, QueueLemmas

IInv == TypeOK /\ IndicesInOrder

-----------------------------------------------------------------------------
(* What Put does to the ring                                               *)

LEMMA BufSize == BUF_SIZE \in Positive
BY ConsoleAssumption DEF Positive

(* buf is a ring of bytes, and Put puts bytes at e.                        *)
LEMMA BufIsRing ==
    ASSUME TypeOK
    PROVE  /\ BUF_SIZE \in Positive /\ buf \in Ring(BUF_SIZE, Byte) /\ e \in Nat
           /\ \A s, n : Put(s, n) = PutAt(buf, BUF_SIZE, e, s, n)
  BY ConsoleAssumption DEF TypeOK, Positive, Ring, Put, PutAt

(* Bytes before e that are less than a ring from the new end stay.         *)
LEMMA PutKeeps ==
    ASSUME TypeOK, NEW s, NEW n \in Nat, NEW i \in Int, i < e, e + n <= i + BUF_SIZE
    PROVE  Put(s, n)[i % BUF_SIZE] = buf[i % BUF_SIZE]
  BY BufIsRing, PutAtKeeps

(* The ring stays a ring of bytes.                                         *)
LEMMA PutType ==
    ASSUME TypeOK, NEW n \in Nat, NEW s, \A k \in 1..n : s[k] \in Byte
    PROVE  Put(s, n) \in [0..(BUF_SIZE - 1) -> Byte]
<1>1. PutAt(buf, BUF_SIZE, e, s, n) \in Ring(BUF_SIZE, Byte)
  BY BufIsRing, PutAtType
<1> QED
  BY <1>1, BufIsRing DEF Ring

-----------------------------------------------------------------------------
(* The invariant                                                           *)

(* Interrupts drop at most what is not committed, and put at most what     *)
(* there is room for; the other steps do not move w and e.                 *)
LEMMA StepInv ==
    ASSUME IInv, [Next]_vars
    PROVE  IInv'
<1> USE ConsoleAssumption DEF IInv, IndicesInOrder
<1>1. ASSUME NEW c \in Byte, PutcRawMode(c) PROVE IInv'
  <2>1. buf' \in [0..(BUF_SIZE - 1) -> Byte]
    BY <1>1, PutType DEF PutcRawMode
  <2> QED
    BY <1>1, <2>1 DEF PutcRawMode, TypeOK, HasRoom, readers
<1>2. ASSUME EmitEscape PROVE IInv'
  <2> DEFINE room == BUF_SIZE - (e - r)
             n == IF Len(Escape) < room THEN Len(Escape) ELSE room
  <2>1. n \in 0..room /\ n <= Len(Escape) /\ room \in Nat
    BY <1>2 DEF EmitEscape, HasRoom, TypeOK
  <2>2. \A k \in 1..n : Escape[k] \in Byte
    BY <2>1 DEF Byte
  <2>3. buf' = Put(Escape, n) /\ e' = e + n /\ w' = (IF raw THEN e + n ELSE w)
        /\ UNCHANGED <<r, raw, reading, killed, halted>>
    BY <1>2 DEF EmitEscape, readers
  <2>4. n \in Nat
    BY <2>1
  <2> HIDE DEF n
  <2>5. buf' \in [0..(BUF_SIZE - 1) -> Byte]
    BY <2>2, <2>3, <2>4, PutType
  <2> QED
    BY <2>1, <2>3, <2>5 DEF TypeOK
<1>3. ASSUME NEW K \in SUBSET Reader, Interrupt(K) PROVE IInv'
  BY <1>3 DEF Interrupt, TypeOK
<1>4. CASE KillLine
  BY <1>4 DEF KillLine, TypeOK, readers
<1>5. CASE Erase
  BY <1>5 DEF Erase, TypeOK, readers
<1>6. ASSUME NEW c \in Byte, PutcCooked(c) PROVE IInv'
  <2>1. Cooked(c) \in Byte
    BY DEF Cooked, Byte, Control
  <2>2. buf' \in [0..(BUF_SIZE - 1) -> Byte]
    BY <1>6, <2>1, PutType DEF PutcCooked
  <2> QED
    BY <1>6, <2>2 DEF PutcCooked, TypeOK, HasRoom, readers
<1>7. CASE PutcPanic
  BY <1>7 DEF PutcPanic, TypeOK, ring, readers
<1>8. ASSUME NEW b \in BOOLEAN, SetRaw(b) PROVE IInv'
  BY <1>8 DEF SetRaw, TypeOK, ring, readers
<1>9. ASSUME NEW t \in Reader, BeginRead(t) PROVE IInv'
  BY <1>9 DEF BeginRead, TypeOK, ring
<1>10. ASSUME NEW t \in Reader, Getc(t) PROVE IInv'
  BY <1>10 DEF Getc, TypeOK
<1>11. ASSUME NEW t \in Reader, GetcKilled(t) PROVE IInv'
  BY <1>11 DEF GetcKilled, TypeOK, ring
<1>12. CASE UNCHANGED vars
  BY <1>12 DEF vars, ring, readers, TypeOK
<1>13. ASSUME NEW K \in SUBSET Reader, Killed(K) PROVE IInv'
  BY <1>13 DEF Killed, TypeOK, ring
<1> QED
  BY <1>1, <1>2, <1>3, <1>4, <1>5, <1>6, <1>7, <1>8, <1>9, <1>10, <1>11, <1>12, <1>13
     DEF Next, Irq, Syscall

LEMMA InitInv == Init => IInv
<1> SUFFICES ASSUME Init PROVE IInv
  OBVIOUS
<1>1. (CHOOSE c \in Char : TRUE) \in Byte
  BY ConsoleAssumption DEF Byte
<1>2. buf \in [0..(BUF_SIZE - 1) -> Byte]
  BY <1>1 DEF Init
<1>3. reading \in [Reader -> {"no", "raw", "cooked"}]
  BY DEF Init
<1>4. r = 0 /\ w = 0 /\ e = 0 /\ raw = FALSE /\ killed = {} /\ halted = FALSE
  BY DEF Init
<1>5. BUF_SIZE \in Nat
  BY ConsoleAssumption
<1>6. IndicesInOrder /\ r \in Nat /\ w \in Nat /\ e \in Nat
  BY <1>4, <1>5 DEF IndicesInOrder
<1>7. raw \in BOOLEAN /\ killed \subseteq Reader /\ halted \in BOOLEAN
  BY <1>4, Zenon
<1> QED
  BY <1>2, <1>3, <1>6, <1>7 DEF IInv, TypeOK

(* The state of the console is well typed and its indices are in order     *)
(* after any sequence of interrupts, mode changes and reads, for every     *)
(* BUF_SIZE: what is read was committed and no unread byte is overwritten. *)
THEOREM RingStaysInOrder == Spec => [](TypeOK /\ IndicesInOrder)
<1>1. IInv /\ [Next]_vars => IInv'
  BY StepInv
<1> QED
  BY InitInv, <1>1, PTL DEF Spec, IInv

-----------------------------------------------------------------------------
(* Committed bytes                                                         *)

(* One step leaves what is committed and unread as it is.                  *)
LEMMA StepKeepsCommitted ==
    ASSUME IInv, [Next]_vars
    PROVE  /\ r <= r' /\ r' <= w /\ w <= w'
           /\ \A i \in r'..(w - 1) : buf'[i % BUF_SIZE] = buf[i % BUF_SIZE]
<1> DEFINE Kept == /\ r <= r' /\ r' <= w /\ w <= w'
                   /\ \A i \in r'..(w - 1) : buf'[i % BUF_SIZE] = buf[i % BUF_SIZE]
<1> SUFFICES Kept
  OBVIOUS
<1>1. r \in Nat /\ w \in Nat /\ e \in Nat /\ BUF_SIZE \in Nat \ {0}
      /\ r <= w /\ w <= e /\ e <= r + BUF_SIZE
  BY ConsoleAssumption DEF IInv, TypeOK, IndicesInOrder
<1>2. ASSUME NEW s, NEW n \in Nat, e + n <= r + BUF_SIZE,
             buf' = Put(s, n), r' = r, w' \in {w, e + n}
      PROVE  Kept
  <2>1. ASSUME NEW i \in r..(w - 1) PROVE buf'[i % BUF_SIZE] = buf[i % BUF_SIZE]
    <3>1. i \in Int /\ i < e /\ e + n <= i + BUF_SIZE
      BY <1>1, <1>2
    <3> QED
      BY <1>2, <3>1, PutKeeps DEF IInv
  <2> QED
    BY <1>1, <1>2, <2>1
<1>3. ASSUME buf' = buf, w' = w, r <= r', r' <= w PROVE Kept
  BY <1>1, <1>3
<1>4. ASSUME NEW c, PutcRawMode(c) PROVE Kept
  BY <1>1, <1>2, <1>4, 1 \in Nat, e + 1 <= r + BUF_SIZE DEF PutcRawMode, HasRoom
<1>5. CASE EmitEscape
  <2> DEFINE room == BUF_SIZE - (e - r)
             n == IF Len(Escape) < room THEN Len(Escape) ELSE room
  <2>1. n \in Nat /\ e + n <= r + BUF_SIZE
    BY <1>1, <1>5, ConsoleAssumption DEF EmitEscape, HasRoom
  <2>2. buf' = Put(Escape, n) /\ r' = r /\ w' \in {w, e + n}
    BY <1>5 DEF EmitEscape
  <2> HIDE DEF n
  <2> QED
    BY <1>2, <2>1, <2>2
<1>6. ASSUME NEW c, PutcCooked(c) PROVE Kept
  BY <1>1, <1>2, <1>6, 1 \in Nat, e + 1 <= r + BUF_SIZE, Zenon DEF PutcCooked, HasRoom
<1>7. ASSUME NEW t, Getc(t) PROVE Kept
  <2>1. buf' = buf /\ w' = w /\ r' = r + 1 /\ r # w
    BY <1>7 DEF Getc
  <2> QED
    BY <1>1, <1>3, <2>1
<1>8. ASSUME UNCHANGED <<buf, r, w>> PROVE Kept
  BY <1>1, <1>3, <1>8
<1>9. ASSUME NEW K, Interrupt(K) PROVE Kept
  BY <1>8, <1>9 DEF Interrupt
<1>10. CASE KillLine \/ Erase \/ PutcPanic \/ UNCHANGED vars
  BY <1>8, <1>10 DEF KillLine, Erase, PutcPanic, vars, ring
<1>11. ASSUME NEW b, SetRaw(b) PROVE Kept
  BY <1>8, <1>11 DEF SetRaw, ring
<1>12. ASSUME NEW t, BeginRead(t) \/ GetcKilled(t) PROVE Kept
  BY <1>8, <1>12 DEF BeginRead, GetcKilled, ring
<1>13. ASSUME NEW K, Killed(K) PROVE Kept
  BY <1>8, <1>13 DEF Killed, ring
<1> QED
  BY <1>4, <1>5, <1>6, <1>7, <1>9, <1>10, <1>11, <1>12, <1>13 DEF Next, Irq, Syscall

(* No key, escape sequence, mode change or full buffer changes or takes    *)
(* back a byte that was committed and has not been read.                   *)
THEOREM CommittedBytesStay == Spec => CommittedStays
<1>1. IInv /\ [Next]_vars =>
        [/\ r <= r' /\ r' <= w /\ w <= w'
         /\ \A i \in r'..(w - 1) : buf'[i % BUF_SIZE] = buf[i % BUF_SIZE]]_vars
  BY StepKeepsCommitted
<1>2. IInv /\ [Next]_vars => IInv'
  BY StepInv
<1> QED
  BY InitInv, <1>1, <1>2, PTL DEF Spec, CommittedStays

-----------------------------------------------------------------------------
(* The ring implements a line queue                                        *)

(* Put looks at the bytes it puts and at no others.                        *)
LEMMA PutSame ==
    ASSUME TypeOK, NEW n \in Nat, NEW s, NEW u, \A k \in 1..n : s[k] = u[k]
    PROVE  Put(s, n) = Put(u, n)
<1>1. PutAt(buf, BUF_SIZE, e, s, n) = PutAt(buf, BUF_SIZE, e, u, n)
  BY BufIsRing, PutAtSame DEF SameUpTo
<1> QED
  BY <1>1, BufIsRing

(* The facts on segments, for the rings of this size.                      *)
LEMMA BufSegments ==
    ASSUME NEW f \in Ring(BUF_SIZE, Byte), NEW i \in Nat, NEW j \in Nat, i <= j
    PROVE  /\ Segment(f, BUF_SIZE, i, j) \in Seq(Byte)
           /\ Len(Segment(f, BUF_SIZE, i, j)) = j - i
  BY BufSize, SegmentType

LEMMA BufPrefix ==
    ASSUME NEW f \in Ring(BUF_SIZE, Byte)
    PROVE  \A i, j \in Nat : \A l \in i..j :
              Segment(f, BUF_SIZE, i, l) = SubSeq(Segment(f, BUF_SIZE, i, j), 1, l - i)
  BY BufSize, SegmentPrefix

LEMMA BufTail ==
    ASSUME NEW f \in Ring(BUF_SIZE, Byte)
    PROVE  \A i, j \in Nat : i < j =>
              /\ Segment(f, BUF_SIZE, i, j) # <<>>
              /\ Segment(f, BUF_SIZE, i + 1, j) = Tail(Segment(f, BUF_SIZE, i, j))
  BY BufSize, SegmentTail

(* What is in the ring from i to the end after n bytes were put.           *)
LEMMA BufPut ==
    ASSUME IInv, NEW n \in Nat, NEW s \in [1..n -> Byte], e + n <= r + BUF_SIZE
    PROVE  /\ \A i \in r..e : Segment(Put(s, n), BUF_SIZE, i, e + n)
                               = Segment(buf, BUF_SIZE, i, e) \o s
           /\ Segment(Put(s, n), BUF_SIZE, r, w) = Segment(buf, BUF_SIZE, r, w)
<1> DEFINE g == PutAt(buf, BUF_SIZE, e, s, n)
<1>1. /\ BUF_SIZE \in Positive /\ buf \in Ring(BUF_SIZE, Byte)
      /\ r \in Nat /\ e \in Nat /\ r <= e
  BY BufIsRing DEF IInv, TypeOK, IndicesInOrder
<1>2. r \in r..e /\ w \in r..e /\ Put(s, n) = g
  BY BufIsRing DEF IInv, TypeOK, IndicesInOrder
<1>3. \A i \in r..e : Segment(g, BUF_SIZE, i, e + n) = Segment(buf, BUF_SIZE, i, e) \o s
  <2>1. PutFollows(buf, BUF_SIZE, r, e, s, n)
    BY <1>1, SegmentPut
  <2> QED
    BY <2>1, Zenon DEF PutFollows
<1>4. Segment(g, BUF_SIZE, r, w) = Segment(buf, BUF_SIZE, r, w)
  BY <1>1, <1>2, SegmentKept
<1> HIDE DEF g
<1> QED
  BY <1>2, <1>3, <1>4, Zenon

(* Every step of the console is a step of the line queue.                  *)
LEMMA StepRefines ==
    ASSUME IInv, IInv', [Next]_vars
    PROVE  [LQ!Type \/ LQ!Erase \/ LQ!Take]_<<Between(r, w), Between(w, e)>>
<1> DEFINE ready == Segment(buf, BUF_SIZE, r, w)
           line == Segment(buf, BUF_SIZE, w, e)
           readyN == Segment(buf', BUF_SIZE, r', w')
           lineN == Segment(buf', BUF_SIZE, w', e')
           Goal == [LQ!Type \/ LQ!Erase \/ LQ!Take]_<<Between(r, w), Between(w, e)>>
<1>1. /\ Between(r, w) = ready /\ Between(w, e) = line
      /\ Between(r, w)' = readyN /\ Between(w, e)' = lineN
  BY DEF Between, Segment
<1>2. /\ r \in Nat /\ w \in Nat /\ e \in Nat /\ BUF_SIZE \in Nat \ {0}
      /\ r <= w /\ w <= e /\ e <= r + BUF_SIZE
      /\ BUF_SIZE \in Positive /\ buf \in Ring(BUF_SIZE, Byte)
  BY ConsoleAssumption, BufIsRing DEF IInv, TypeOK, IndicesInOrder
<1>3. ready \in Seq(Byte) /\ line \in Seq(Byte) /\ Len(ready) = w - r /\ Len(line) = e - w
  BY <1>2, BufSegments, Zenon
<1>4. ASSUME NEW n \in Nat \ {0}, NEW s \in [1..n -> Byte], e + n <= r + BUF_SIZE,
             buf' = Put(s, n), e' = e + n, r' = r, w' \in {w, e + n}
      PROVE  Goal
  <2>1. n \in 1..(BUF_SIZE - Len(ready) - Len(line))
    BY <1>2, <1>3, <1>4
  <2>2. w \in r..e /\ r \in r..e /\ n \in Nat /\ e + n \in Nat
    BY <1>2
  <2>c. e + n <= r + BUF_SIZE
    BY <1>4
  <2>a. /\ Segment(Put(s, n), BUF_SIZE, w, e + n) = Segment(buf, BUF_SIZE, w, e) \o s
        /\ Segment(Put(s, n), BUF_SIZE, r, w) = Segment(buf, BUF_SIZE, r, w)
    BY <2>2, <2>c, BufPut
  <2>b. Segment(Put(s, n), BUF_SIZE, r, e + n) = Segment(buf, BUF_SIZE, r, e) \o s
    BY <2>2, <2>c, BufPut, Zenon
  <2>3. CASE w' = w
    <3>1. readyN = ready /\ lineN = line \o s
      BY <1>4, <2>3, <2>a
    <3> QED
      BY <1>1, <2>1, <3>1, ZenonT(40) DEF LQ!Type
  <2>4. CASE w' = e + n
    <3>1. readyN = Segment(buf, BUF_SIZE, r, e) \o s
      BY <1>4, <2>4, <2>b
    <3>2. Segment(buf, BUF_SIZE, r, e) = ready \o line
      <4>1. r \in Nat /\ w \in Nat /\ e \in Nat /\ r <= w /\ w <= e
        BY <1>2
      <4>2. BUF_SIZE \in Positive /\ buf \in Ring(BUF_SIZE, Byte)
        BY <1>2
      <4> QED
        BY <4>1, <4>2, SegmentJoin
    <3>3. lineN = <<>>
      BY <1>4, <2>2, <2>4, SegmentEmpty
    <3> QED
      BY <1>1, <2>1, <3>1, <3>2, <3>3, Zenon DEF LQ!Type
  <2> QED
    BY <1>4, <2>3, <2>4
<1>5. ASSUME NEW n \in w..e, UNCHANGED <<buf, r, w>>, e' = n PROVE Goal
  <2>1. lineN = SubSeq(line, 1, n - w) /\ readyN = ready
    BY <1>2, <1>5, BufPrefix, Zenon
  <2>2. n - w \in 0..Len(line)
    BY <1>2, <1>3
  <2> QED
    BY <1>1, <2>1, <2>2 DEF LQ!Erase
<1>6. ASSUME UNCHANGED ring PROVE Goal
  BY <1>1, <1>6 DEF ring
<1>7. ASSUME NEW c \in Byte, PutcRawMode(c) PROVE Goal
  <2> DEFINE s == [k \in 1..1 |-> c]
  <2>1. 1 \in Nat \ {0} /\ s \in [1..1 -> Byte] /\ e + 1 <= r + BUF_SIZE
    BY <1>2, <1>7 DEF PutcRawMode, HasRoom
  <2>a. <<c>> = s
    OBVIOUS
  <2> HIDE DEF s
  <2>2. buf' = Put(s, 1) /\ e' = e + 1 /\ r' = r /\ w' \in {w, e + 1}
    BY <1>7, <2>a DEF PutcRawMode
  <2> QED
    BY <1>4, <2>1, <2>2, Zenon
<1>8. CASE EmitEscape
  <2> DEFINE room == BUF_SIZE - (e - r)
             n == IF Len(Escape) < room THEN Len(Escape) ELSE room
             s == [k \in 1..n |-> Escape[k]]
  <2>1. n \in Nat \ {0} /\ n <= Len(Escape) /\ e + n <= r + BUF_SIZE
    BY <1>2, <1>8, ConsoleAssumption DEF EmitEscape, HasRoom
  <2>2. \A k \in 1..n : Escape[k] \in Byte
    BY <2>1, ConsoleAssumption DEF Byte
  <2>3. buf' = Put(Escape, n) /\ e' = e + n /\ r' = r /\ w' \in {w, e + n}
    BY <1>8 DEF EmitEscape
  <2> HIDE DEF n
  <2>4. s \in [1..n -> Byte] /\ \A k \in 1..n : Escape[k] = s[k]
    BY <2>2
  <2> HIDE DEF s
  <2>5. Put(Escape, n) = Put(s, n)
    BY <2>1, <2>4, PutSame DEF IInv
  <2> QED
    BY <1>4, <2>1, <2>3, <2>4, <2>5
<1>9. ASSUME NEW K, Interrupt(K) PROVE Goal
  BY <1>2, <1>5, <1>9, w \in w..e DEF Interrupt
<1>10. CASE KillLine
  BY <1>5, <1>10 DEF KillLine
<1>11. CASE Erase
  BY <1>2, <1>5, <1>11, e # w => e - 1 \in w..e DEF Erase
<1>12. ASSUME NEW c \in Byte, PutcCooked(c) PROVE Goal
  <2> DEFINE d == Cooked(c)
             s == [k \in 1..1 |-> d]
  <2>1. d \in Byte
    BY DEF Cooked, Byte, Control
  <2>2. buf' = Put(<<d>>, 1) /\ e' = e + 1 /\ r' = r /\ w' \in {w, e + 1} /\ e + 1 <= r + BUF_SIZE
    BY <1>2, <1>12 DEF PutcCooked, HasRoom
  <2> HIDE DEF d
  <2>3. 1 \in Nat \ {0} /\ s \in [1..1 -> Byte] /\ <<d>> = s
    BY <2>1
  <2> HIDE DEF s
  <2> QED
    BY <1>4, <2>2, <2>3, Zenon
<1>13. CASE PutcPanic
  BY <1>6, <1>13 DEF PutcPanic
<1>14. ASSUME NEW b, SetRaw(b) PROVE Goal
  BY <1>6, <1>14 DEF SetRaw
<1>15. ASSUME NEW t, BeginRead(t) \/ GetcKilled(t) PROVE Goal
  BY <1>6, <1>15 DEF BeginRead, GetcKilled
<1>16. ASSUME NEW t, Getc(t) PROVE Goal
  <2>1. buf' = buf /\ w' = w /\ e' = e /\ r' = r + 1 /\ r # w
    BY <1>16 DEF Getc
  <2>2. r < w
    BY <1>2, <2>1
  <2>3. ready # <<>> /\ readyN = Tail(ready)
    BY <1>2, <2>1, <2>2, BufTail, Zenon
  <2> QED
    BY <1>1, <2>1, <2>3 DEF LQ!Take
<1>17. CASE UNCHANGED vars
  BY <1>6, <1>17 DEF vars
<1>18. ASSUME NEW K, Killed(K) PROVE Goal
  BY <1>6, <1>18 DEF Killed
<1> QED
  BY <1>7, <1>8, <1>9, <1>10, <1>11, <1>12, <1>13, <1>14, <1>15, <1>16, <1>17, <1>18
     DEF Next, Irq, Syscall

(* The ring of input.rs, for every size of it, implements a line queue:    *)
(* every byte is read once and in the order it was typed, unless it was    *)
(* erased before its line was committed.                                   *)
THEOREM RingImplementsLineQueue == Spec => ImplementsLineQueue
<1>1. Init => LQ!Init
  BY DEF Init, LQ!Init, Between
<1>2. IInv /\ IInv' /\ [Next]_vars
        => [LQ!Type \/ LQ!Erase \/ LQ!Take]_<<Between(r, w), Between(w, e)>>
  BY StepRefines
<1>3. IInv /\ [Next]_vars => IInv'
  BY StepInv
<1> QED
  BY InitInv, <1>1, <1>2, <1>3, PTL DEF Spec, ImplementsLineQueue, LQ!Spec

-----------------------------------------------------------------------------
(* The terminal                                                            *)

(* A code that is to follow a prefix is that of an extended key.           *)
WireOK ==
    \/ wire = <<>>
    \/ \E k \in Key, move \in {"press", "release"} : wire = <<k, move>> /\ k[1] = "e0"

KInv == ModifiersFollowKeys /\ WireOK /\ prefix \in {"none", "e0"}

-----------------------------------------------------------------------------
(* The keyboard                                                            *)

(* A code sets or clears the flag of its key and no other.                 *)
LEMMA CodeKeepsModifiers ==
    ASSUME KInv, NEW k \in Key, NEW move \in {"press", "release"}, KeyboardCode(k, move)
    PROVE  KInv'
<1>1. /\ wire' = <<>> /\ prefix' = "none" /\ held' = Down(k, move)
      /\ flags' = Flags(flags, prefix, k[2], move)
  BY DEF KeyboardCode
<1>2. prefix = k[1]
  <2>1. CASE wire = <<>>
    BY <2>1 DEF KeyboardCode, KInv, ModifiersFollowKeys
  <2>2. CASE wire # <<>>
    <3>1. wire = <<k, move>> /\ prefix = "e0"
      BY <2>2 DEF KeyboardCode, KInv, ModifiersFollowKeys
    <3>2. PICK k1 \in Key, m1 \in {"press", "release"} : wire = <<k1, m1>> /\ k1[1] = "e0"
      BY <2>2 DEF KInv, WireOK
    <3> QED
      BY <3>1, <3>2
  <2> QED
    BY <2>1, <2>2
<1>3. k = <<prefix, k[2]>> /\ prefix \in {"none", "e0"}
  BY <1>2, TerminalAssumption DEF KInv
<1> DEFINE f == FlagOf(prefix, k[2])
<1>4. /\ k = <<"none", "ctrl">> <=> f = "lctrl"
      /\ k = <<"e0", "ctrl">> <=> f = "rctrl"
      /\ k = <<"none", "lshift">> <=> f = "lshift"
      /\ k = <<"none", "rshift">> <=> f = "rshift"
      /\ f \in {"lctrl", "rctrl", "lshift", "rshift", "nothing"}
  BY <1>3 DEF FlagOf
<1>5. \A x \in Modifier : x \in Down(k, move) <=> IF x = k THEN move = "press" ELSE x \in held
  BY DEF Down
<1>6. \A g \in {"lctrl", "rctrl", "lshift", "rshift"} :
          g \in flags' <=> IF g = f THEN move = "press" ELSE g \in flags
  BY <1>1, <1>4 DEF Flags
<1> HIDE DEF f
<1>7. ModifiersFollowKeys'
  BY <1>1, <1>4, <1>5, <1>6 DEF ModifiersFollowKeys, KInv, Modifier
<1> QED
  BY <1>1, <1>7 DEF KInv, WireOK

(* No step but those of the keyboard concerns it.                          *)
LEMMA StepKeyboard ==
    ASSUME KInv, [TNext]_tvars
    PROVE  KInv'
<1>1. ASSUME NEW k \in Key, NEW move \in {"press", "release"}, KeyboardPrefix(k, move)
      PROVE  KInv'
  BY <1>1 DEF KeyboardPrefix, KInv, ModifiersFollowKeys, WireOK
<1>2. ASSUME UNCHANGED keyboard PROVE KInv'
  BY <1>2 DEF keyboard, KInv, ModifiersFollowKeys, WireOK
<1>3. CASE SerialInterrupt \/ UNCHANGED tvars
  BY <1>2, <1>3 DEF SerialInterrupt, tvars
<1>4. ASSUME NEW t \in Reader, Goes(t) PROVE KInv'
  BY <1>2, <1>4 DEF Goes, ForkReturn, ForkChildEntry, ReadStep, CheckSignals
<1>5. ASSUME NEW t \in Reader, Calls(t) PROVE KInv'
  BY <1>2, <1>5, Zenon DEF Calls, Kill, SysSetPgid, SysSignal, Call, Fork, SysRead, SysIoctl, SysExit
<1> QED
  BY <1>1, CodeKeepsModifiers, <1>3, <1>4, <1>5 DEF TNext

(* LEFT_SHIFT, RIGHT_SHIFT, LEFT_CTRL and RIGHT_CTRL tell which keys are   *)
(* down and E0_PENDING whether a prefix is open, after any sequence of     *)
(* presses, repeats and releases of any keys.                              *)
THEOREM FlagsFollowKeys == TSpec => []ModifiersFollowKeys
<1>1. TInit => KInv
  BY DEF TInit, KInv, ModifiersFollowKeys, WireOK
<1>2. KInv /\ [TNext]_tvars => KInv'
  BY StepKeyboard
<1>3. KInv => ModifiersFollowKeys
  BY DEF KInv
<1> QED
  BY <1>1, <1>2, <1>3, PTL DEF TSpec

-----------------------------------------------------------------------------
(* The ring                                                                *)

(* putc, whatever the byte, is one of Console's interrupts.                *)
LEMMA PutcIsIrq ==
    ASSUME NEW c \in Byte, Putc(c)
    PROVE  Irq \/ UNCHANGED vars
<1>1. Ordinary(c) \in Byte
  BY ConsoleAssumption DEF Ordinary, Byte
<1>2. \A sig : Foreground(proc, sig) \in SUBSET Reader
  BY DEF Foreground, SendSignalPgid, DeliverSignal, HasPagedir
<1> QED
  BY <1>1, <1>2 DEF Putc, Irq

(* A key has a byte.                                                       *)
LEMMA ByteOfKey ==
    ASSUME NEW k \in Letter \cup Sign
    PROVE  ByteOf(flags, k) \in Byte
  BY TerminalAssumption DEF ByteOf

(* Every step of the terminal is a step of Console or leaves it alone.     *)
LEMMA StepIsConsole ==
    ASSUME [TNext]_tvars
    PROVE  [Next]_vars
<1>1. CASE UNCHANGED tvars
  BY <1>1 DEF tvars
<1>2. ASSUME NEW k \in Key, NEW move \in {"press", "release"}, KeyboardPrefix(k, move)
      PROVE  UNCHANGED vars
  BY <1>2 DEF KeyboardPrefix
<1>3. ASSUME NEW k \in Key, NEW move \in {"press", "release"}, KeyboardCode(k, move)
      PROVE  Irq \/ UNCHANGED vars
  <2>1. CASE IsArrow(prefix, k[2], move) /\ PutEscape
    BY <2>1 DEF PutEscape, Irq
  <2>2. CASE IsByte(prefix, k[2], move) /\ Putc(ByteOf(flags, k[2]))
    <3>1. k[2] \in Letter \cup Sign
      BY <2>2 DEF IsByte
    <3> QED
      BY <2>2, <3>1, ByteOfKey, PutcIsIrq
  <2> QED
    BY <1>3, <2>1, <2>2 DEF KeyboardCode
<1>4. ASSUME SerialInterrupt PROVE Irq \/ UNCHANGED vars
  <2>1. Foreground(proc, "QUIT") \in SUBSET Reader
    BY DEF Foreground, SendSignalPgid, DeliverSignal, HasPagedir
  <2>2. CASE Interrupt(Foreground(proc, "QUIT"))
    BY <2>1, <2>2 DEF Irq
  <2>3. ASSUME NEW c \in Serial, Putc(c) PROVE Irq \/ UNCHANGED vars
    BY <2>3, PutcIsIrq, TerminalAssumption
  <2> QED
    BY <1>4, <2>2, <2>3 DEF SerialInterrupt
<1>5. ASSUME NEW t \in Reader, Goes(t) PROVE Syscall \/ UNCHANGED vars
  BY <1>5 DEF Goes, ForkReturn, ForkChildEntry, ReadStep, CheckSignals, Syscall
<1>6. ASSUME NEW t \in Reader, NEW p, NEW K \in SUBSET Reader, Call(t, p, K)
      PROVE  Syscall
  BY <1>6 DEF Call, Syscall
<1>7. ASSUME NEW t \in Reader, Calls(t) PROVE Syscall \/ UNCHANGED vars
  <2>1. CASE Kill(t)
    <3>1. \A u, sig : /\ SendSignal(proc, u, sig) \in SUBSET Reader
                      /\ SendSignalPgid(proc, u, sig) \in SUBSET Reader
      BY DEF SendSignal, SendSignalPgid, DeliverSignal, HasPagedir
    <3> QED
      BY <1>6, <2>1, <3>1 DEF Kill
  <2>2. CASE SysSetPgid(t) \/ SysSignal(t)
    BY <1>6, <2>2, {} \in SUBSET Reader, Zenon DEF SysSetPgid, SysSignal
  <2>3. CASE Fork(t) \/ SysRead(t) \/ SysIoctl(t) \/ SysExit(t)
    BY <2>3 DEF Fork, SysRead, SysIoctl, SysExit, Syscall
  <2> QED
    BY <1>7, <2>1, <2>2, <2>3 DEF Calls
<1> QED
  BY <1>1, <1>2, <1>3, <1>4, <1>5, <1>7 DEF TNext, Next

(* The terminal implements Console: keyboard, serial line, signals and     *)
(* reads together do to the ring and its readers what Console allows.      *)
THEOREM TerminalImplementsConsole == TSpec => Spec
<1>1. TInit => Init
  BY DEF TInit
<1>2. [TNext]_tvars => [Next]_vars
  BY StepIsConsole
<1> QED
  BY <1>1, <1>2, PTL DEF TSpec, Spec

(* So what is typed at the terminal is read once and in order, for every   *)
(* size of the ring.                                                       *)
THEOREM TerminalIsLineQueue == TSpec => ImplementsLineQueue
  BY TerminalImplementsConsole, RingImplementsLineQueue
=============================================================================
