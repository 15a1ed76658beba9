----------------------------- MODULE QueueLemmas -----------------------------
(***************************************************************************)
(* The kernel's two kinds of queues.  For a list of threads without        *)
(* duplicates (READY_LIST, Semaphore.waiters): what push_back of a thread  *)
(* and remove of a position do to it.  For a ring of bytes (the console's  *)
(* buffer, a pipe): what lies between two indices, taken modulo the size   *)
(* of the ring, and what putting bytes at the end does to it.  Last, what  *)
(* the dispatcher's primitives do to the statuses and the ready list.      *)
(***************************************************************************)
EXTENDS Vec, SequenceTheorems, FiniteSetTheorems, TLAPS

(* The positions of a queue after VecDeque::remove(i).                     *)
LEMMA RemoveAtPositions ==
    ASSUME NEW S, NEW q \in Seq(S), NEW i \in DOMAIN q
    PROVE  /\ RemoveAt(q, i) \in Seq(S)
           /\ Len(RemoveAt(q, i)) = Len(q) - 1
           /\ \A j \in 1..(Len(q) - 1) :
                 RemoveAt(q, i)[j] = IF j < i THEN q[j] ELSE q[j + 1]
<1> DEFINE a == SubSeq(q, 1, i - 1)
           b == SubSeq(q, i + 1, Len(q))
<1>1. i \in 1..Len(q) /\ Len(q) \in Nat /\ \A j \in 1..Len(q) : q[j] \in S
  BY LenProperties, ElementOfSeq
<1>2. /\ a \in Seq(S)
      /\ Len(a) = i - 1
      /\ \A j \in 1..(i - 1) : a[j] = q[j]
  <2>1. \A j \in 1..(i - 1) : q[j] \in S
    BY <1>1
  <2> HIDE DEF a
  <2>2. /\ a \in Seq(S)
        /\ Len(a) = IF 1 <= i - 1 THEN (i - 1) - 1 + 1 ELSE 0
        /\ \A j \in 1..((i - 1) - 1 + 1) : a[j] = q[1 + j - 1]
    BY <1>1, <2>1, SubSeqProperties DEF a
  <2> QED
    BY <1>1, <2>2
<1>3. /\ b \in Seq(S)
      /\ Len(b) = Len(q) - i
      /\ \A j \in 1..(Len(q) - i) : b[j] = q[i + j]
  <2>1. \A j \in (i + 1)..Len(q) : q[j] \in S
    BY <1>1
  <2>2. i + 1 \in Int /\ Len(q) \in Int
    BY <1>1
  <2> HIDE DEF b
  <2>3. /\ b \in Seq(S)
        /\ Len(b) = IF i + 1 <= Len(q) THEN Len(q) - (i + 1) + 1 ELSE 0
        /\ \A j \in 1..(Len(q) - (i + 1) + 1) : b[j] = q[(i + 1) + j - 1]
    BY <1>1, <2>1, <2>2, SubSeqProperties DEF b
  <2> QED
    BY <1>1, <2>3
<1>4. RemoveAt(q, i) = a \o b
  BY DEF RemoveAt
<1> HIDE DEF a, b
<1>5. /\ a \o b \in Seq(S)
      /\ Len(a \o b) = Len(a) + Len(b)
      /\ \A j \in 1..(Len(a) + Len(b)) :
            (a \o b)[j] = IF j <= Len(a) THEN a[j] ELSE b[j - Len(a)]
  BY <1>2, <1>3, ConcatProperties, Zenon
<1> DEFINE r == RemoveAt(q, i)
<1> HIDE DEF r
<1>6. /\ r \in Seq(S)
      /\ Len(r) = Len(a) + Len(b)
      /\ \A j \in 1..(Len(a) + Len(b)) : r[j] = IF j <= Len(a) THEN a[j] ELSE b[j - Len(a)]
  BY <1>4, <1>5 DEF r
<1>7. Len(r) = Len(q) - 1
  BY <1>1, <1>2, <1>3, <1>6
<1>8. ASSUME NEW j \in 1..(Len(q) - 1)
      PROVE  r[j] = IF j < i THEN q[j] ELSE q[j + 1]
  <2>1. j \in 1..(Len(a) + Len(b))
    BY <1>1, <1>2, <1>3
  <2>2. CASE j < i
    BY <1>1, <1>2, <1>6, <2>1, <2>2
  <2>3. CASE ~(j < i)
    <3>1. r[j] = b[j - (i - 1)]
      BY <1>1, <1>2, <1>6, <2>1, <2>3
    <3>2. j - (i - 1) \in 1..(Len(q) - i) /\ i + (j - (i - 1)) = j + 1
      BY <1>1, <2>3
    <3> QED
      BY <1>3, <2>3, <3>1, <3>2
  <2> QED
    BY <2>2, <2>3
<1> QED
  BY <1>6, <1>7, <1>8 DEF r

(* Removing position i of a queue without duplicates removes exactly the   *)
(* thread that was there.                                                  *)
LEMMA RemoveAtQueue ==
    ASSUME NEW S, NEW q \in Seq(S), NEW i \in DOMAIN q, IsInjective(q)
    PROVE  /\ RemoveAt(q, i) \in Seq(S)
           /\ IsInjective(RemoveAt(q, i))
           /\ Range(RemoveAt(q, i)) = Range(q) \ {q[i]}
<1> DEFINE r == RemoveAt(q, i)
<1> HIDE DEF r
<1>1. /\ r \in Seq(S)
      /\ Len(r) = Len(q) - 1
      /\ \A j \in 1..(Len(q) - 1) : r[j] = IF j < i THEN q[j] ELSE q[j + 1]
  BY RemoveAtPositions, Zenon DEF r
<1>2. /\ Len(q) \in Nat /\ DOMAIN q = 1..Len(q) /\ i \in 1..Len(q)
      /\ DOMAIN r = 1..(Len(q) - 1)
  BY <1>1, LenProperties
<1>3. IsInjective(r)
  <2> SUFFICES ASSUME NEW j \in 1..(Len(q) - 1), NEW k \in 1..(Len(q) - 1), r[j] = r[k]
               PROVE  j = k
    BY <1>2 DEF IsInjective
  <2> DEFINE pos(n) == IF n < i THEN n ELSE n + 1
  <2>1. r[j] = q[pos(j)] /\ r[k] = q[pos(k)]
    BY <1>1
  <2>2. pos(j) \in 1..Len(q) /\ pos(k) \in 1..Len(q) /\ (pos(j) = pos(k) => j = k)
    BY <1>2
  <2> QED
    BY <1>2, <2>1, <2>2, Zenon DEF IsInjective
<1>4. Range(r) \subseteq Range(q) \ {q[i]}
  <2> SUFFICES ASSUME NEW j \in 1..(Len(q) - 1)
               PROVE  r[j] \in Range(q) \ {q[i]}
    BY <1>2 DEF Range
  <2>1. CASE j < i
    <3>1. r[j] = q[j] /\ j \in 1..Len(q) /\ j # i
      BY <1>1, <1>2, <2>1
    <3> QED
      BY <1>2, <3>1 DEF Range, IsInjective
  <2>2. CASE ~(j < i)
    <3>1. r[j] = q[j + 1] /\ j + 1 \in 1..Len(q) /\ j + 1 # i
      BY <1>1, <1>2, <2>2
    <3> QED
      BY <1>2, <3>1 DEF Range, IsInjective
  <2> QED
    BY <2>1, <2>2
<1>5. Range(q) \ {q[i]} \subseteq Range(r)
  <2> SUFFICES ASSUME NEW k \in 1..Len(q), k # i
               PROVE  q[k] \in Range(r)
    BY <1>2 DEF Range
  <2>1. CASE k < i
    BY <1>1, <1>2, <2>1 DEF Range
  <2>2. CASE ~(k < i)
    <3>1. k - 1 \in 1..(Len(q) - 1) /\ r[k - 1] = q[k]
      BY <1>1, <1>2, <2>2
    <3> QED
      BY <1>2, <3>1 DEF Range
  <2> QED
    BY <2>1, <2>2
<1> QED
  BY <1>1, <1>3, <1>4, <1>5 DEF r

(* Pushing a thread on a queue without duplicates that does not hold it.   *)
LEMMA AppendQueue ==
    ASSUME NEW S, NEW q \in Seq(S), NEW x \in S, IsInjective(q), x \notin Range(q)
    PROVE  /\ Append(q, x) \in Seq(S)
           /\ IsInjective(Append(q, x))
           /\ Range(Append(q, x)) = Range(q) \cup {x}
<1> DEFINE r == Append(q, x)
<1> HIDE DEF r
<1>1. /\ r \in Seq(S)
      /\ Len(r) = Len(q) + 1
      /\ \A j \in 1..Len(q) : r[j] = q[j]
      /\ r[Len(q) + 1] = x
  BY AppendProperties DEF r
<1>2. /\ Len(q) \in Nat /\ DOMAIN q = 1..Len(q)
      /\ DOMAIN r = 1..(Len(q) + 1)
  BY <1>1, LenProperties
<1>3. \A j \in 1..(Len(q) + 1) : j \in 1..Len(q) \/ j = Len(q) + 1
  BY <1>2
<1>4. IsInjective(r)
  BY <1>1, <1>2, <1>3 DEF IsInjective, Range
<1>5. Range(r) = Range(q) \cup {x}
  <2>1. \A j \in 1..Len(q) : j \in 1..(Len(q) + 1)
    BY <1>2
  <2>2. Len(q) + 1 \in 1..(Len(q) + 1)
    BY <1>2
  <2> QED
    BY <1>1, <1>2, <1>3, <2>1, <2>2 DEF Range
<1> QED
  BY <1>1, <1>4, <1>5 DEF r

LEMMA AppendRange ==
    ASSUME NEW S, NEW q \in Seq(S), NEW x \in S
    PROVE  Range(Append(q, x)) = Range(q) \cup {x}
<1> DEFINE r == Append(q, x)
<1> HIDE DEF r
<1>1. /\ r \in Seq(S)
      /\ Len(r) = Len(q) + 1
      /\ \A j \in 1..Len(q) : r[j] = q[j]
      /\ r[Len(q) + 1] = x
  BY AppendProperties DEF r
<1>2. /\ Len(q) \in Nat /\ DOMAIN q = 1..Len(q)
      /\ DOMAIN r = 1..(Len(q) + 1)
  BY <1>1, LenProperties
<1>3. /\ \A j \in 1..(Len(q) + 1) : j \in 1..Len(q) \/ j = Len(q) + 1
      /\ \A j \in 1..Len(q) : j \in 1..(Len(q) + 1)
      /\ Len(q) + 1 \in 1..(Len(q) + 1)
  BY <1>2
<1> QED
  BY <1>1, <1>2, <1>3 DEF Range, r

-----------------------------------------------------------------------------
(* Arithmetic modulo the size of the ring                                  *)

(* Division with remainder is unique.                                      *)
LEMMA ModUnique ==
    ASSUME NEW b \in Nat \ {0}, NEW q \in Int, NEW s \in 0..(b - 1)
    PROVE  (b * q + s) % b = s
  BY SMT

(* Every index has its slot.                                               *)
LEMMA ModRange ==
    ASSUME NEW b \in Nat \ {0}, NEW i \in Int
    PROVE  i % b \in 0..(b - 1)
  BY SMT

(* The distance from e to the slot of i is that from e to i.               *)
LEMMA ModDistance ==
    ASSUME NEW b \in Nat \ {0}, NEW i \in Int, NEW x \in Int
    PROVE  ((i % b) - x) % b = (i - x) % b
<1> DEFINE q == i \div b
           s == i % b
           p == (s - x) \div b
           u == (s - x) % b
<1>1. q \in Int /\ s \in 0..(b - 1) /\ i = b * q + s
  BY SMT
<1>2. p \in Int /\ u \in 0..(b - 1) /\ s - x = b * p + u
  BY <1>1, SMT
<1>3. i - x = b * (q + p) + u
  <2>1. b * (q + p) = b * q + b * p
    BY <1>1, <1>2, SMT
  <2> QED
    BY <1>1, <1>2, <2>1, SMT
<1> HIDE DEF q, p
<1>4. (b * (q + p) + u) % b = u
  BY <1>1, <1>2, ModUnique, q + p \in Int, Zenon
<1> QED
  BY <1>3, <1>4

(* A slot less than a ring before x is that far from its end.              *)
LEMMA ModBefore ==
    ASSUME NEW b \in Nat \ {0}, NEW i \in Int, NEW x \in Int, x - b <= i, i < x
    PROVE  ((i % b) - x) % b = i - x + b
<1>1. (i - x) % b = i - x + b
  BY SMT
<1> QED
  BY <1>1, ModDistance, Zenon

(* A slot less than a ring after x is that far from it.                    *)
LEMMA ModAfter ==
    ASSUME NEW b \in Nat \ {0}, NEW i \in Int, NEW x \in Int, x <= i, i < x + b
    PROVE  ((i % b) - x) % b = i - x
<1>1. (i - x) % b = i - x
  BY SMT
<1> QED
  BY <1>1, ModDistance, Zenon

-----------------------------------------------------------------------------
(* Rings                                                                   *)

(* The sizes of rings, and the rings of size z with elements in S.         *)
Positive == Nat \ {0}
Ring(z, S) == [0..(z - 1) -> S]

(* The ring f of size z after the first n elements of s are put at x.      *)
PutAt(f, z, x, s, n) ==
    [i \in DOMAIN f |-> LET k == (i - x) % z IN IF k < n THEN s[k + 1] ELSE f[i]]

(* The elements of the ring f of size z from index i to before index j.    *)
Segment(f, z, i, j) == [k \in 1..(j - i) |-> f[(i + k - 1) % z]]

(* Elements before x that are less than a ring from the new end stay.      *)
LEMMA PutAtKeeps ==
    ASSUME NEW S, NEW z \in Positive, NEW f \in Ring(z, S), NEW x \in Nat,
           NEW s, NEW n \in Nat, NEW i \in Int, i < x, x + n <= i + z
    PROVE  PutAt(f, z, x, s, n)[i % z] = f[i % z]
<1>1. i % z \in DOMAIN f
  BY ModRange DEF Ring, Positive
<1>2. x - z <= i /\ x \in Int
  BY DEF Positive
<1>3. ((i % z) - x) % z = i - x + z
  BY <1>2, ModBefore DEF Positive
<1>4. ~(i - x + z < n)
  BY DEF Positive
<1> QED
  BY <1>1, <1>3, <1>4 DEF PutAt

(* Elements from x on are the ones put.                                    *)
LEMMA PutAtSets ==
    ASSUME NEW S, NEW z \in Positive, NEW f \in Ring(z, S), NEW x \in Nat,
           NEW s, NEW n \in 0..z, NEW i \in Int, x <= i, i < x + n
    PROVE  PutAt(f, z, x, s, n)[i % z] = s[i - x + 1]
<1>1. i % z \in DOMAIN f
  BY ModRange DEF Ring, Positive
<1>2. x \in Int /\ i < x + z
  BY DEF Positive
<1>3. ((i % z) - x) % z = i - x
  BY <1>2, ModAfter, Zenon DEF Positive
<1>4. i - x < n
  OBVIOUS
<1> QED
  BY <1>1, <1>3, <1>4 DEF PutAt

(* The ring stays a ring of elements.                                      *)
LEMMA PutAtType ==
    ASSUME NEW S, NEW z \in Positive, NEW f \in Ring(z, S), NEW x \in Nat,
           NEW s, NEW n \in Nat, \A k \in 1..n : s[k] \in S
    PROVE  PutAt(f, z, x, s, n) \in Ring(z, S)
<1> SUFFICES ASSUME NEW i \in 0..(z - 1)
             PROVE  (LET k == (i - x) % z IN IF k < n THEN s[k + 1] ELSE f[i]) \in S
  BY DEF PutAt, Ring
<1> DEFINE k == (i - x) % z
<1>1. k \in 0..(z - 1)
  BY ModRange, i - x \in Int, Zenon DEF Positive
<1>2. k < n => k + 1 \in 1..n
  BY <1>1
<1> HIDE DEF k
<1>3. (IF k < n THEN s[k + 1] ELSE f[i]) \in S
  BY <1>2 DEF Ring
<1> QED
  BY <1>3 DEF k

(* Only the elements that are put matter.                                  *)
SameUpTo(s, u, n) == \A k \in 1..n : s[k] = u[k]

LEMMA PutAtSame ==
    ASSUME NEW S, NEW z \in Positive, NEW f \in Ring(z, S), NEW x \in Nat,
           NEW s, NEW u, NEW n \in Nat, SameUpTo(s, u, n)
    PROVE  PutAt(f, z, x, s, n) = PutAt(f, z, x, u, n)
<1>1. ASSUME NEW i \in 0..(z - 1)
      PROVE  LET k == (i - x) % z IN k < n => s[k + 1] = u[k + 1]
  <2> DEFINE k == (i - x) % z
  <2>1. k \in 0..(z - 1)
    BY ModRange, i - x \in Int, Zenon DEF Positive
  <2>2. k < n => k + 1 \in 1..n
    BY <2>1
  <2> HIDE DEF k
  <2>3. k < n => s[k + 1] = u[k + 1]
    BY <2>2 DEF SameUpTo
  <2> QED
    BY <2>3 DEF k
<1>2. DOMAIN f = 0..(z - 1)
  BY DEF Ring
<1> QED
  BY <1>1, <1>2 DEF PutAt

(* A segment of a ring is a sequence of its elements.                      *)
LEMMA SegmentType ==
    ASSUME NEW S, NEW z \in Positive, NEW f \in Ring(z, S),
           NEW i \in Nat, NEW j \in Nat, i <= j
    PROVE  Segment(f, z, i, j) \in Seq(S) /\ Len(Segment(f, z, i, j)) = j - i
<1>1. ASSUME NEW k \in 1..(j - i) PROVE f[(i + k - 1) % z] \in S
  <2>1. (i + k - 1) % z \in 0..(z - 1)
    BY ModRange, i + k - 1 \in Int DEF Positive
  <2> QED
    BY <2>1 DEF Ring
<1>2. j - i \in Nat
  OBVIOUS
<1>3. Segment(f, z, i, j) \in [1..(j - i) -> S]
  BY <1>1, Zenon DEF Segment
<1> QED
  BY <1>2, <1>3

(* A segment followed by the next one.                                     *)
LEMMA SegmentJoin ==
    ASSUME NEW S, NEW z \in Positive, NEW f \in Ring(z, S)
    PROVE  \A i, j, l \in Nat : i <= j /\ j <= l =>
              Segment(f, z, i, l) = Segment(f, z, i, j) \o Segment(f, z, j, l)
<1> SUFFICES ASSUME NEW i \in Nat, NEW j \in Nat, NEW l \in Nat, i <= j, j <= l
             PROVE  Segment(f, z, i, l) = Segment(f, z, i, j) \o Segment(f, z, j, l)
  BY Zenon
<1> DEFINE a == Segment(f, z, i, j)
           b == Segment(f, z, j, l)
           ab == Segment(f, z, i, l)
<1>1. a \in Seq(S) /\ b \in Seq(S) /\ ab \in Seq(S)
      /\ Len(a) = j - i /\ Len(b) = l - j /\ Len(ab) = l - i
  <2>1. i <= l
    OBVIOUS
  <2> HIDE DEF a, b, ab
  <2>2. a \in Seq(S) /\ Len(a) = j - i
    BY SegmentType DEF a
  <2>3. b \in Seq(S) /\ Len(b) = l - j
    BY SegmentType DEF b
  <2>4. ab \in Seq(S) /\ Len(ab) = l - i
    BY <2>1, SegmentType DEF ab
  <2> QED
    BY <2>2, <2>3, <2>4
<1>2. ASSUME NEW k \in 1..(j - i) PROVE ab[k] = a[k]
  BY k \in 1..(l - i) DEF Segment
<1>3. ASSUME NEW k \in (j - i + 1)..(l - i) PROVE ab[k] = b[k - (j - i)]
  <2>1. k \in 1..(l - i) /\ k - (j - i) \in 1..(l - j)
        /\ j + (k - (j - i)) - 1 = i + k - 1
    OBVIOUS
  <2> QED
    BY <2>1 DEF Segment
<1> HIDE DEF a, b, ab
<1>4. a \o b \in Seq(S) /\ Len(a \o b) = Len(ab)
  <2>1. a \in Seq(S) /\ b \in Seq(S)
    BY <1>1
  <2>2. a \o b \in Seq(S) /\ Len(a \o b) = Len(a) + Len(b)
    BY <2>1, ConcatProperties, Zenon
  <2>3. Len(a) + Len(b) = Len(ab)
    BY <1>1
  <2> QED
    BY <2>2, <2>3
<1>5. ASSUME NEW k \in 1..Len(ab) PROVE ab[k] = (a \o b)[k]
  <2>1. CASE k <= j - i
    BY <1>1, <1>2, <2>1
  <2>2. CASE ~(k <= j - i)
    <3>1. k \in (j - i + 1)..(l - i)
      BY <1>1, <2>2
    <3>2. (a \o b)[k] = b[k - (j - i)]
      BY <1>1, <2>2
    <3> QED
      BY <3>1, <3>2, <1>3
  <2> QED
    BY <2>1, <2>2, Zenon
<1>6. ab = a \o b
  BY <1>1, <1>4, <1>5, SeqEqual, Zenon
<1> QED
  BY <1>6 DEF a, b, ab

(* The end of a segment erased.                                            *)
LEMMA SegmentPrefix ==
    ASSUME NEW S, NEW z \in Positive, NEW f \in Ring(z, S)
    PROVE  \A i, j \in Nat : \A l \in i..j :
              Segment(f, z, i, l) = SubSeq(Segment(f, z, i, j), 1, l - i)
<1> SUFFICES ASSUME NEW i \in Nat, NEW j \in Nat, NEW l \in i..j
             PROVE  Segment(f, z, i, l) = SubSeq(Segment(f, z, i, j), 1, l - i)
  BY Zenon
<1> DEFINE a == Segment(f, z, i, j)
           b == Segment(f, z, i, l)
           c == SubSeq(a, 1, l - i)
<1>1. i <= j /\ l \in Nat /\ i <= l
  OBVIOUS
<1>2. a \in Seq(S) /\ Len(a) = j - i
  BY <1>1, SegmentType
<1>3. b \in Seq(S) /\ Len(b) = l - i
  BY <1>1, SegmentType
<1>4. \A k \in 1..(l - i) : b[k] = a[k]
  BY DEF Segment
<1> HIDE DEF a, b
<1>5. c \in Seq(S) /\ Len(c) = l - i /\ \A k \in 1..(l - i) : c[k] = a[k]
  BY <1>2
<1> HIDE DEF c
<1>6. b = c
  BY <1>3, <1>4, <1>5, SeqEqual
<1> QED
  BY <1>6 DEF a, b, c

(* The first elements of a segment taken.                                  *)
LEMMA SegmentSuffix ==
    ASSUME NEW S, NEW z \in Positive, NEW f \in Ring(z, S)
    PROVE  \A i, j \in Nat : \A l \in i..j :
              Segment(f, z, l, j) = SubSeq(Segment(f, z, i, j), l - i + 1, j - i)
<1> SUFFICES ASSUME NEW i \in Nat, NEW j \in Nat, NEW l \in i..j
             PROVE  Segment(f, z, l, j) = SubSeq(Segment(f, z, i, j), l - i + 1, j - i)
  BY Zenon
<1> DEFINE a == Segment(f, z, i, j)
           b == Segment(f, z, l, j)
           c == SubSeq(a, l - i + 1, j - i)
<1>1. i <= j /\ l \in Nat /\ l <= j
  OBVIOUS
<1>2. a \in Seq(S) /\ Len(a) = j - i
  BY <1>1, SegmentType
<1>3. b \in Seq(S) /\ Len(b) = j - l
  BY <1>1, SegmentType
<1>4. \A k \in 1..(j - l) : b[k] = a[l - i + k]
  <2> TAKE k \in 1..(j - l)
  <2>1. l - i + k \in 1..(j - i) /\ l + k - 1 = i + (l - i + k) - 1
    OBVIOUS
  <2> QED
    BY <2>1 DEF Segment
<1> HIDE DEF a, b
<1>5. c \in Seq(S) /\ Len(c) = j - l /\ \A k \in 1..(j - l) : c[k] = a[l - i + k]
  BY <1>2
<1> HIDE DEF c
<1>6. b = c
  BY <1>3, <1>4, <1>5, SeqEqual, Zenon
<1> QED
  BY <1>6 DEF a, b, c

(* The first element of a segment taken.                                   *)
LEMMA SegmentTail ==
    ASSUME NEW S, NEW z \in Positive, NEW f \in Ring(z, S)
    PROVE  \A i, j \in Nat : i < j => /\ Segment(f, z, i, j) # <<>>
                                     /\ Segment(f, z, i + 1, j) = Tail(Segment(f, z, i, j))
<1> SUFFICES ASSUME NEW i \in Nat, NEW j \in Nat, i < j
             PROVE  /\ Segment(f, z, i, j) # <<>>
                    /\ Segment(f, z, i + 1, j) = Tail(Segment(f, z, i, j))
  BY Zenon
<1> DEFINE a == Segment(f, z, i, j)
           b == Segment(f, z, i + 1, j)
<1>1. i <= j /\ i + 1 \in Nat /\ i + 1 <= j
  OBVIOUS
<1>2. a \in Seq(S) /\ Len(a) = j - i
  BY <1>1, SegmentType
<1>3. b \in Seq(S) /\ Len(b) = j - (i + 1)
  BY <1>1, SegmentType
<1>4. \A k \in 1..(j - (i + 1)) : b[k] = a[k + 1]
  <2> TAKE k \in 1..(j - (i + 1))
  <2>1. k + 1 \in 1..(j - i) /\ (i + 1) + k - 1 = i + (k + 1) - 1
    OBVIOUS
  <2> QED
    BY <2>1 DEF Segment
<1> HIDE DEF a, b
<1>5. a # <<>>
  BY <1>2
<1>6. Tail(a) \in Seq(S) /\ Len(Tail(a)) = j - (i + 1)
      /\ \A k \in 1..(j - (i + 1)) : Tail(a)[k] = a[k + 1]
  BY <1>2, <1>5, HeadTailProperties
<1>7. b = Tail(a)
  BY <1>3, <1>4, <1>6, SeqEqual
<1> QED
  BY <1>5, <1>7 DEF a, b

(* The empty segment.                                                      *)
LEMMA SegmentEmpty ==
    ASSUME NEW z, NEW f, NEW i \in Nat
    PROVE  Segment(f, z, i, i) = <<>>
  BY DEF Segment

(* What is in the ring before x stays when n elements are put at x.        *)
LEMMA SegmentKept ==
    ASSUME NEW S, NEW z \in Positive, NEW f \in Ring(z, S),
           NEW r \in Nat, NEW x \in Nat, r <= x,
           NEW n \in Nat, NEW s, x + n <= r + z
    PROVE  \A m, l \in r..x : Segment(PutAt(f, z, x, s, n), z, m, l) = Segment(f, z, m, l)
<1> DEFINE g == PutAt(f, z, x, s, n)
<1>1. ASSUME NEW y \in r..(x - 1) PROVE g[y % z] = f[y % z]
  <2>1. y \in Int /\ y < x /\ x + n <= y + z
    BY DEF Positive
  <2> QED
    BY <2>1, PutAtKeeps
<1> HIDE DEF g
<1>2. ASSUME NEW m \in r..x, NEW l \in r..x PROVE Segment(g, z, m, l) = Segment(f, z, m, l)
  <2>1. ASSUME NEW k \in 1..(l - m) PROVE g[(m + k - 1) % z] = f[(m + k - 1) % z]
    BY <1>1, m + k - 1 \in r..(x - 1)
  <2> QED
    BY <2>1 DEF Segment
<1> QED
  BY <1>2 DEF g

(* What is in the ring from i to the end x + n after n elements were put.  *)
PutFollows(f, z, r, x, s, n) ==
    \A i \in r..x : Segment(PutAt(f, z, x, s, n), z, i, x + n) = Segment(f, z, i, x) \o s

LEMMA SegmentPut ==
    ASSUME NEW S, NEW z \in Positive, NEW f \in Ring(z, S),
           NEW r \in Nat, NEW x \in Nat, r <= x,
           NEW n \in Nat, NEW s \in [1..n -> S], x + n <= r + z
    PROVE  PutFollows(f, z, r, x, s, n)
<1> DEFINE g == PutAt(f, z, x, s, n)
<1>1. g \in Ring(z, S)
  BY PutAtType
<1>2. ASSUME NEW y \in x..(x + n - 1) PROVE g[y % z] = s[y - x + 1]
  <2>1. n \in 0..z /\ y \in Int /\ x <= y /\ y < x + n
    BY DEF Positive
  <2> QED
    BY <2>1, PutAtSets
<1>3. ASSUME NEW i \in r..x PROVE Segment(g, z, i, x) = Segment(f, z, i, x)
  BY SegmentKept, x \in r..x
<1> HIDE DEF g
<1>4. Segment(g, z, x, x + n) = s
  <2>1. ASSUME NEW k \in 1..n PROVE g[(x + k - 1) % z] = s[k]
    <3>1. x + k - 1 \in x..(x + n - 1) /\ (x + k - 1) - x + 1 = k
      OBVIOUS
    <3> QED
      BY <3>1, <1>2
  <2>2. (x + n) - x = n
    OBVIOUS
  <2> QED
    BY <2>1, <2>2 DEF Segment
<1>5. \A p, q, t \in Nat :
         p <= q /\ q <= t => Segment(g, z, p, t) = Segment(g, z, p, q) \o Segment(g, z, q, t)
  BY <1>1, SegmentJoin
<1>6. ASSUME NEW i \in r..x
      PROVE  Segment(g, z, i, x + n) = Segment(f, z, i, x) \o s
  <2>1. i \in Nat /\ x + n \in Nat /\ i <= x /\ x <= x + n
    OBVIOUS
  <2>2. Segment(g, z, i, x + n) = Segment(g, z, i, x) \o Segment(g, z, x, x + n)
    BY <1>5, <2>1, ZenonT(40)
  <2> QED
    BY <1>3, <1>4, <2>2, Zenon
<1> QED
  BY <1>6, Zenon DEF PutFollows, g

-----------------------------------------------------------------------------
(* Initial segments, least elements and induction                          *)

(* A set of positions that holds all positions before its own is 1..n.     *)
LEMMA InitialSegment ==
    ASSUME NEW m \in Nat, NEW D \in SUBSET (1..m),
           \A i \in D : \A j \in 1..i : j \in D
    PROVE  Cardinality(D) \in 0..m /\ D = 1..Cardinality(D)
<1> DEFINE c == Cardinality(D)
<1>1. IsFiniteSet(1..m) /\ Cardinality(1..m) = m
  <2>1. Cardinality(1..m) = IF 1 > m THEN 0 ELSE m - 1 + 1
    BY FS_Interval
  <2> QED
    BY <2>1, FS_Interval
<1>2. IsFiniteSet(D) /\ c \in Nat /\ c <= m
  BY <1>1, FS_Subset, FS_CardinalityType, ZenonT(40)
<1> HIDE DEF c
<1>3. ASSUME NEW k \in Nat PROVE IsFiniteSet(1..k) /\ Cardinality(1..k) = k
  <2>1. IsFiniteSet(1..k) /\ Cardinality(1..k) = IF 1 > k THEN 0 ELSE k - 1 + 1
    BY FS_Interval
  <2> QED
    BY <2>1
<1>4. c > 0 => c \in D
  <2> SUFFICES ASSUME c > 0, c \notin D PROVE FALSE
    OBVIOUS
  <2>1. ASSUME NEW i \in D PROVE i \in 1..(c - 1)
    <3>1. ~(c <= i)
      BY <1>2
    <3> QED
      BY <1>2, <3>1
  <2>2. D \in SUBSET (1..(c - 1)) /\ c - 1 \in Nat
    BY <1>2, <2>1
  <2>3. Cardinality(D) <= Cardinality(1..(c - 1))
    BY <1>3, <2>2, FS_Subset, Zenon
  <2> QED
    BY <1>2, <1>3, <2>2, <2>3 DEF c
<1>5. 1..c \in SUBSET D
  BY <1>2, <1>4
<1>6. D = 1..c
  <2>1. Cardinality(1..c) = Cardinality(D)
    BY <1>2, <1>3 DEF c
  <2> QED
    BY <1>2, <1>5, <2>1, FS_Subset
<1> QED
  BY <1>2, <1>6 DEF c

(* A set of positions has a least element.                                 *)
LEMMA LeastPosition ==
    ASSUME NEW T \in SUBSET Nat, T # {}
    PROVE  \E x \in T : \A y \in T : x <= y
<1>1. PICK m \in T : TRUE
  BY Zenon
<1> DEFINE D == {i \in 1..m : \A y \in T : i <= y}
           c == Cardinality(D)
<1>2. c \in 0..m /\ D = 1..c
  <2>1. D \in SUBSET (1..m) /\ \A i \in D : \A j \in 1..i : j \in D
    BY <1>1
  <2>2. m \in Nat
    BY <1>1
  <2> HIDE DEF D
  <2> QED
    BY <2>1, <2>2, InitialSegment
<1> HIDE DEF c
<1>3. c + 1 \notin D /\ c \in Nat
  <2> HIDE DEF D
  <2>1. c \in Nat
    BY <1>1, <1>2
  <2> QED
    BY <1>2, <2>1
<1>4. \A y \in T : c <= y
  <2>1. c = 0 \/ c \in D
    <3> HIDE DEF D
    <3> QED
      BY <1>2, <1>3
  <2> QED
    BY <1>3, <2>1
<1>5. PICK y \in T : y < c + 1
  BY <1>1, <1>2, <1>3
<1> QED
  BY <1>3, <1>4, <1>5

LEMMA NatInductionSet ==
    ASSUME NEW T, 0 \in T, \A n \in Nat : n \in T => n + 1 \in T
    PROVE  \A n \in Nat : n \in T
<1> SUFFICES ASSUME NEW n \in Nat, n \notin T PROVE FALSE
  OBVIOUS
<1> DEFINE B == {k \in Nat : k \notin T}
<1>1. B \in SUBSET Nat /\ B # {}
  OBVIOUS
<1>2. PICK x \in B : \A y \in B : x <= y
  <2> HIDE DEF B
  <2> QED
    BY <1>1, LeastPosition
<1>3. x \in Nat /\ x # 0 /\ x \notin T
  BY <1>2
<1>4. x - 1 \in Nat /\ x - 1 \notin B /\ (x - 1) + 1 = x
  BY <1>2, <1>3
<1>5. x - 1 \in T
  BY <1>4
<1> QED
  BY <1>3, <1>4, <1>5

-----------------------------------------------------------------------------
(* Lists that are put together                                             *)

(* The first n elements of a list, and what follows them.                  *)
FirstOf(r, q, n) == Len(r) = n /\ \A j \in 1..n : r[j] = q[j]
RestOf(r, q, n) == Len(r) = Len(q) - n /\ \A j \in 1..(Len(q) - n) : r[j] = q[n + j]

LEMMA CutPositions ==
    ASSUME NEW S, NEW q \in Seq(S), NEW n \in 0..Len(q)
    PROVE  /\ SubSeq(q, 1, n) \in Seq(S) /\ FirstOf(SubSeq(q, 1, n), q, n)
           /\ SubSeq(q, n + 1, Len(q)) \in Seq(S) /\ RestOf(SubSeq(q, n + 1, Len(q)), q, n)
<1> DEFINE a == SubSeq(q, 1, n)
           b == SubSeq(q, n + 1, Len(q))
<1>1. Len(q) \in Nat /\ n \in Nat /\ n <= Len(q) /\ \A j \in 1..Len(q) : q[j] \in S
  BY LenProperties, ElementOfSeq
<1>2. /\ \A j \in 1..n : q[j] \in S
      /\ \A j \in (n + 1)..Len(q) : q[j] \in S
      /\ n + 1 \in Int /\ Len(q) \in Int /\ n \in Int
  BY <1>1
<1> HIDE DEF a, b
<1>3. /\ a \in Seq(S)
      /\ Len(a) = IF 1 <= n THEN n - 1 + 1 ELSE 0
      /\ \A j \in 1..(n - 1 + 1) : a[j] = q[1 + j - 1]
  BY <1>2, SubSeqProperties DEF a
<1>4. /\ b \in Seq(S)
      /\ Len(b) = IF n + 1 <= Len(q) THEN Len(q) - (n + 1) + 1 ELSE 0
      /\ \A j \in 1..(Len(q) - (n + 1) + 1) : b[j] = q[(n + 1) + j - 1]
  BY <1>2, SubSeqProperties DEF b
<1>5. Len(a) = n /\ \A j \in 1..n : a[j] = q[j]
  BY <1>1, <1>3
<1>6. Len(b) = Len(q) - n /\ \A j \in 1..(Len(q) - n) : b[j] = q[n + j]
  BY <1>1, <1>4
<1> QED
  BY <1>3, <1>4, <1>5, <1>6, Zenon DEF FirstOf, RestOf, a, b

(* The positions of a list after Vec::insert(i, x).                        *)
Inserted(r, q, i, x) ==
    /\ Len(r) = Len(q) + 1
    /\ \A j \in 1..(Len(q) + 1) : r[j] = IF j < i THEN q[j] ELSE IF j = i THEN x ELSE q[j - 1]

LEMMA InsertAtPositions ==
    ASSUME NEW S, NEW q \in Seq(S), NEW i \in 1..(Len(q) + 1), NEW x \in S
    PROVE  InsertAt(q, i, x) \in Seq(S) /\ Inserted(InsertAt(q, i, x), q, i, x)
<1> DEFINE a == SubSeq(q, 1, i - 1)
           b == SubSeq(q, i, Len(q))
           c == a \o <<x>>
           r == InsertAt(q, i, x)
<1>1. Len(q) \in Nat /\ i - 1 \in 0..Len(q) /\ (i - 1) + 1 = i
  BY LenProperties
<1>2. /\ a \in Seq(S) /\ Len(a) = i - 1
      /\ \A j \in 1..(i - 1) : a[j] = q[j]
      /\ b \in Seq(S) /\ Len(b) = Len(q) - (i - 1)
      /\ \A j \in 1..(Len(q) - (i - 1)) : b[j] = q[(i - 1) + j]
  <2> HIDE DEF a, b
  <2>1. /\ a \in Seq(S) /\ FirstOf(a, q, i - 1)
        /\ b \in Seq(S) /\ RestOf(b, q, i - 1)
    BY <1>1, CutPositions DEF a, b
  <2> QED
    BY <2>1, Zenon DEF FirstOf, RestOf
<1> HIDE DEF a, b
<1>3. c \in Seq(S) /\ Len(c) = i /\ \A j \in 1..i : c[j] = IF j < i THEN q[j] ELSE x
  <2>1. c = Append(a, x)
    BY <1>2
  <2>2. Append(a, x) \in Seq(S) /\ Len(Append(a, x)) = Len(a) + 1
        /\ \A j \in 1..Len(a) : Append(a, x)[j] = a[j]
        /\ Append(a, x)[Len(a) + 1] = x
    BY <1>2, AppendProperties
  <2> HIDE DEF c
  <2> QED
    BY <1>1, <1>2, <2>1, <2>2
<1>4. r = c \o b
  BY DEF InsertAt, a, b
<1> HIDE DEF c, r
<1>5. /\ c \o b \in Seq(S) /\ Len(c \o b) = Len(c) + Len(b)
      /\ \A j \in 1..(Len(c) + Len(b)) : (c \o b)[j] = IF j <= Len(c) THEN c[j] ELSE b[j - Len(c)]
  BY <1>2, <1>3, ConcatProperties, ZenonT(40)
<1>6. /\ r \in Seq(S) /\ Len(r) = Len(c) + Len(b)
      /\ \A j \in 1..(Len(c) + Len(b)) : r[j] = IF j <= Len(c) THEN c[j] ELSE b[j - Len(c)]
  BY <1>4, <1>5
<1>7. Len(c) = i /\ Len(b) = Len(q) - (i - 1) /\ Len(c) + Len(b) = Len(q) + 1
  BY <1>1, <1>2, <1>3
<1>8. ASSUME NEW j \in 1..(Len(q) + 1)
      PROVE  r[j] = IF j < i THEN q[j] ELSE IF j = i THEN x ELSE q[j - 1]
  <2>1. CASE j <= i
    BY <1>1, <1>3, <1>6, <1>7, <2>1
  <2>2. CASE j > i
    <3>1. r[j] = b[j - i]
      BY <1>1, <1>6, <1>7, <2>2
    <3>2. j - i \in 1..(Len(q) - (i - 1)) /\ (i - 1) + (j - i) = j - 1
      BY <1>1, <2>2
    <3> QED
      BY <1>1, <1>2, <2>2, <3>1, <3>2
  <2> QED
    BY <1>1, <2>1, <2>2
<1> QED
  BY <1>6, <1>7, <1>8 DEF Inserted, r

(* Two queues without duplicates that share nobody, one after the other.   *)
LEMMA ConcatQueue ==
    ASSUME NEW S, NEW q \in Seq(S), NEW p \in Seq(S),
           IsInjective(q), IsInjective(p), Range(q) \cap Range(p) = {}
    PROVE  /\ q \o p \in Seq(S)
           /\ IsInjective(q \o p)
           /\ Range(q \o p) = Range(q) \cup Range(p)
<1> DEFINE r == q \o p
           m == Len(q)
           n == Len(p)
<1>1. /\ m \in Nat /\ n \in Nat /\ DOMAIN q = 1..m /\ DOMAIN p = 1..n
  BY LenProperties
<1>2. /\ r \in Seq(S) /\ Len(r) = m + n
      /\ \A j \in 1..(m + n) : r[j] = IF j <= m THEN q[j] ELSE p[j - m]
  BY ConcatProperties, Zenon
<1>3. DOMAIN r = 1..(m + n)
  BY <1>2, LenProperties
<1> HIDE DEF r, m, n
<1>4. ASSUME NEW j \in 1..(m + n)
      PROVE  \/ j \in 1..m /\ r[j] = q[j] /\ r[j] \in Range(q)
             \/ j - m \in 1..n /\ r[j] = p[j - m] /\ r[j] \in Range(p)
  BY <1>1, <1>2 DEF Range
<1>5. IsInjective(r)
  <2> SUFFICES ASSUME NEW j \in 1..(m + n), NEW k \in 1..(m + n), r[j] = r[k]
               PROVE  j = k
    BY <1>3 DEF IsInjective
  <2>1. CASE j \in 1..m /\ k \in 1..m /\ r[j] = q[j] /\ r[k] = q[k]
    BY <1>1, <2>1, Zenon DEF IsInjective
  <2>2. CASE j - m \in 1..n /\ k - m \in 1..n /\ r[j] = p[j - m] /\ r[k] = p[k - m]
    <3>1. j - m = k - m
      BY <1>1, <2>2, Zenon DEF IsInjective
    <3> QED
      BY <1>1, <3>1
  <2> QED
    BY <1>4, <2>1, <2>2
<1>6. Range(r) = Range(q) \cup Range(p)
  <2>1. Range(r) \subseteq Range(q) \cup Range(p)
    BY <1>3, <1>4 DEF Range
  <2>2. ASSUME NEW k \in 1..m PROVE q[k] \in Range(r)
    BY <1>1, <1>2, <1>3 DEF Range
  <2>3. ASSUME NEW k \in 1..n PROVE p[k] \in Range(r)
    <3>1. k + m \in 1..(m + n) /\ (k + m) - m = k /\ ~(k + m <= m)
      BY <1>1
    <3> QED
      BY <1>2, <1>3, <3>1 DEF Range
  <2>4. Range(q) \cup Range(p) \subseteq Range(r)
    BY <1>1, <2>2, <2>3 DEF Range
  <2> QED
    BY <2>1, <2>4
<1> QED
  BY <1>2, <1>5, <1>6 DEF r

-----------------------------------------------------------------------------
(* The dispatcher, for any threads Th and idle thread Id: a status for     *)
(* each and a list q of the Ready ones, each once.                         *)

Statuses == {"Running", "Ready", "Blocked"}

QueueExact(Th, Id, st, q) ==
    /\ Id \notin Th
    /\ st \in [Th \cup {Id} -> Statuses]
    /\ q \in Seq(Th)
    /\ IsInjective(q)
    /\ \A t \in Th : st[t] = "Ready" <=> t \in Range(q)

DispatcherOK(Th, Id, c, st, q) ==
    /\ QueueExact(Th, Id, st, q)
    /\ c \in Th \cup {Id}
    /\ \A t \in Th \cup {Id} : st[t] = "Running" <=> t = c

(* What schedule() makes of the statuses st and the list q: the next       *)
(* thread is idle, or at some position of q.                               *)
Dispatched(Id, st, q, c2, st2, q2) ==
    \/ q = <<>> /\ c2 = Id /\ st2 = [st EXCEPT ![Id] = "Running"] /\ q2 = q
    \/ \E i \in DOMAIN q : /\ c2 = q[i]
                           /\ st2 = [st EXCEPT ![q[i]] = "Running"]
                           /\ q2 = RemoveAt(q, i)

(* The same threads are Blocked.                                           *)
SameBlocked(Th, st, st2) == \A t \in Th : st2[t] = "Blocked" <=> st[t] = "Blocked"

(* st2 is st with x in status v, and q2 is q with x at its end.            *)
Marked(st, x, v, st2) == st2 = [st EXCEPT ![x] = v]
Queued(q, x, q2) == q2 = Append(q, x)

(* schedule(), called with nobody Running and q listing the Ready threads, *)
(* makes the thread it picks Running and leaves the others as they were.   *)
LEMMA DispatchExact ==
    ASSUME NEW Th, NEW Id, NEW st, NEW q, NEW c2, NEW st2, NEW q2,
           QueueExact(Th, Id, st, q),
           \A t \in Th \cup {Id} : st[t] # "Running",
           Dispatched(Id, st, q, c2, st2, q2)
    PROVE  /\ DispatcherOK(Th, Id, c2, st2, q2)
           /\ SameBlocked(Th, st, st2)
<1>1. CASE q = <<>> /\ c2 = Id /\ st2 = [st EXCEPT ![Id] = "Running"] /\ q2 = q
  BY <1>1 DEF DispatcherOK, QueueExact, Statuses, SameBlocked
<1>2. CASE \E i \in DOMAIN q : /\ c2 = q[i]
                               /\ st2 = [st EXCEPT ![q[i]] = "Running"]
                               /\ q2 = RemoveAt(q, i)
  <2>1. PICK i \in DOMAIN q : /\ c2 = q[i]
                              /\ st2 = [st EXCEPT ![q[i]] = "Running"]
                              /\ q2 = RemoveAt(q, i)
    BY <1>2, Zenon
  <2>2. q \in Seq(Th) /\ IsInjective(q)
    BY DEF QueueExact
  <2>3. q2 \in Seq(Th) /\ IsInjective(q2) /\ Range(q2) = Range(q) \ {q[i]}
    BY <2>1, <2>2, RemoveAtQueue
  <2>4. q[i] \in Th /\ q[i] \in Range(q)
    BY <2>2, ElementOfSeq, LenProperties DEF Range
  <2>5. \A t \in Th \cup {Id} : st2[t] = IF t = q[i] THEN "Running" ELSE st[t]
    BY <2>1, <2>4 DEF QueueExact
  <2>6. st2 \in [Th \cup {Id} -> Statuses] /\ c2 \in Th \cup {Id}
    BY <2>1, <2>4 DEF QueueExact, Statuses
  <2>7. \A t \in Th \cup {Id} : st2[t] = "Running" <=> t = c2
    BY <2>1, <2>5
  <2>8. \A t \in Th : st2[t] = "Ready" <=> t \in Range(q2)
    BY <2>3, <2>4, <2>5 DEF QueueExact
  <2>9. SameBlocked(Th, st, st2)
    BY <2>4, <2>5 DEF QueueExact, SameBlocked
  <2> QED
    BY <2>3, <2>6, <2>7, <2>8, <2>9, Zenon DEF DispatcherOK, QueueExact
<1> QED
  BY <1>1, <1>2 DEF Dispatched

(* block() makes the caller, and nobody else, Blocked.                     *)
LEMMA DispatchBlocked ==
    ASSUME NEW Th, NEW Id, NEW c, NEW st, NEW q, NEW s, NEW c2, NEW st2, NEW q2,
           DispatcherOK(Th, Id, c, st, q),
           Marked(st, c, "Blocked", s),
           Dispatched(Id, s, q, c2, st2, q2)
    PROVE  /\ DispatcherOK(Th, Id, c2, st2, q2)
           /\ \A t \in Th : st2[t] = "Blocked" <=> st[t] = "Blocked" \/ t = c
<1>1. st \in [Th \cup {Id} -> Statuses] /\ c \in Th \cup {Id}
  BY DEF DispatcherOK, QueueExact
<1>2. s \in [Th \cup {Id} -> Statuses]
  BY <1>1 DEF Marked, Statuses
<1>3. \A t \in Th \cup {Id} : s[t] = IF t = c THEN "Blocked" ELSE st[t]
  BY <1>1 DEF Marked
<1>4. \A t \in Th \cup {Id} : s[t] # "Running"
  BY <1>3 DEF DispatcherOK
<1>5. \A t \in Th : s[t] = "Ready" <=> t \in Range(q)
  BY <1>3 DEF DispatcherOK, QueueExact
<1>6. QueueExact(Th, Id, s, q)
  BY <1>2, <1>5 DEF DispatcherOK, QueueExact
<1>7. /\ DispatcherOK(Th, Id, c2, st2, q2)
      /\ SameBlocked(Th, s, st2)
  BY <1>4, <1>6, DispatchExact
<1> QED
  BY <1>3, <1>7 DEF SameBlocked

(* yield_current() puts the caller at the end of the list unless it is the *)
(* idle thread, and changes no thread's being Blocked.                     *)
LEMMA DispatchYielded ==
    ASSUME NEW Th, NEW Id, NEW c, NEW st, NEW q, NEW s, NEW p, NEW c2, NEW st2, NEW q2,
           DispatcherOK(Th, Id, c, st, q),
           Marked(st, c, "Ready", s),
           IF c = Id THEN p = q ELSE Queued(q, c, p),
           Dispatched(Id, s, p, c2, st2, q2)
    PROVE  /\ DispatcherOK(Th, Id, c2, st2, q2)
           /\ SameBlocked(Th, st, st2)
<1>1. /\ st \in [Th \cup {Id} -> Statuses] /\ c \in Th \cup {Id} /\ Id \notin Th
      /\ q \in Seq(Th) /\ IsInjective(q)
      /\ \A t \in Th \cup {Id} : st[t] = "Running" <=> t = c
      /\ \A t \in Th : st[t] = "Ready" <=> t \in Range(q)
  BY DEF DispatcherOK, QueueExact
<1>2. s \in [Th \cup {Id} -> Statuses]
  BY <1>1 DEF Marked, Statuses
<1>3. \A t \in Th \cup {Id} : s[t] = IF t = c THEN "Ready" ELSE st[t]
  BY <1>1 DEF Marked
<1>4. \A t \in Th \cup {Id} : s[t] # "Running"
  BY <1>1, <1>3
<1>5. /\ p \in Seq(Th) /\ IsInjective(p)
      /\ \A t \in Th : s[t] = "Ready" <=> t \in Range(p)
  <2>1. CASE c = Id
    <3>1. p = q
      BY <2>1
    <3> QED
      BY <1>1, <1>3, <2>1, <3>1
  <2>2. CASE c # Id
    <3>1. c \in Th /\ c \notin Range(q) /\ p = Append(q, c)
      BY <1>1, <2>2 DEF Queued
    <3>2. p \in Seq(Th) /\ IsInjective(p) /\ Range(p) = Range(q) \cup {c}
      BY <1>1, <3>1, AppendQueue
    <3>3. \A t \in Th : s[t] = "Ready" <=> t \in Range(p)
      BY <1>1, <1>3, <3>1, <3>2
    <3> QED
      BY <3>2, <3>3
  <2> QED
    BY <2>1, <2>2
<1>6. QueueExact(Th, Id, s, p)
  BY <1>1, <1>2, <1>5, Zenon DEF QueueExact
<1>7. /\ DispatcherOK(Th, Id, c2, st2, q2)
      /\ SameBlocked(Th, s, st2)
  BY <1>4, <1>6, DispatchExact
<1> QED
  BY <1>1, <1>3, <1>7 DEF SameBlocked

(* unblock(w), before any yield: w joins the list, and nobody but w is no  *)
(* longer Blocked.                                                         *)
LEMMA DispatchReady ==
    ASSUME NEW Th, NEW Id, NEW c, NEW st, NEW q, NEW s, NEW p, NEW w \in Th,
           DispatcherOK(Th, Id, c, st, q), st[w] = "Blocked",
           Marked(st, w, "Ready", s), Queued(q, w, p)
    PROVE  /\ DispatcherOK(Th, Id, c, s, p)
           /\ \A t \in Th : s[t] = "Blocked" <=> st[t] = "Blocked" /\ t # w
<1>1. /\ st \in [Th \cup {Id} -> Statuses] /\ c \in Th \cup {Id} /\ Id \notin Th
      /\ q \in Seq(Th) /\ IsInjective(q)
      /\ \A t \in Th \cup {Id} : st[t] = "Running" <=> t = c
      /\ \A t \in Th : st[t] = "Ready" <=> t \in Range(q)
  BY DEF DispatcherOK, QueueExact
<1>2. w \notin Range(q) /\ w # c
  BY <1>1
<1>3. p \in Seq(Th) /\ IsInjective(p) /\ Range(p) = Range(q) \cup {w}
  BY <1>1, <1>2, AppendQueue DEF Queued
<1>4. s \in [Th \cup {Id} -> Statuses]
  BY <1>1 DEF Marked, Statuses
<1>5. \A t \in Th \cup {Id} : s[t] = IF t = w THEN "Ready" ELSE st[t]
  BY <1>1 DEF Marked
<1>6. \A t \in Th \cup {Id} : s[t] = "Running" <=> t = c
  BY <1>1, <1>2, <1>5
<1>7. \A t \in Th : s[t] = "Ready" <=> t \in Range(p)
  BY <1>1, <1>3, <1>5
<1>8. DispatcherOK(Th, Id, c, s, p)
  BY <1>1, <1>3, <1>4, <1>6, <1>7, Zenon DEF DispatcherOK, QueueExact
<1>9. \A t \in Th : s[t] = "Blocked" <=> st[t] = "Blocked" /\ t # w
  BY <1>5
<1> QED
  BY <1>8, <1>9

=============================================================================
