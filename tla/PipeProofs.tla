----------------------------- MODULE PipeProofs -----------------------------
(***************************************************************************)
(* The pipe, for any processes, sizes of the ring and descriptor tables:   *)
(* the reference counts are exact, end of file is final, and the ring      *)
(* implements Channel.                                                     *)
(*                                                                         *)
(* The counts are exact only because a process that is inside read or      *)
(* write holds a descriptor of that end all along (Points): nobody else    *)
(* can close it meanwhile.                                                 *)
(***************************************************************************)
EXTENDS Pipe, QueueLemmas, FiniteSetTheorems

(* Where the threads in the queue of end e are.                            *)
Waiting(e) == IF e = "read" THEN {"rpre", "rsleep"} ELSE {"wpre", "wsleep"}

(* The queues hold each waiting thread once.                               *)
QueuesExact ==
    \A e \in End : IsInjective(waiters[e]) /\ \A t \in Range(waiters[e]) : pc[t] \in Waiting(e)

(* Who uses an end has it; a process that was not forked has nothing.      *)
UsersHave ==
    /\ \A t \in Proc, e \in End : pc[t] = e \/ pc[t] \in Waiting(e) => Has(t, e)
    /\ \A t \in Proc : pc[t] = "unborn" => \A f \in Fd : files[t][f] = "none"

(* Only a writer has bytes left to write.                                  *)
WritersData ==
    \A t \in Proc : pc[t] \notin {"write", "wpre", "wsleep"} => data[t] = <<>>

(* The pipe is destroyed by who closed its last end.                       *)
DestroyersClosed ==
    \A t \in Proc : pc[t] = "destroy" => exists /\ \A e \in End : ~open[e]

Points == QueuesExact /\ UsersHave /\ WritersData /\ DestroyersClosed

IInv == TypeOK /\ Points /\ ReferencesExact /\ EofIsFinal

-----------------------------------------------------------------------------
(* What the steps are made of                                              *)

LEMMA MinOfTwo ==
    \A a, b \in Int : LET n == Min({a, b}) IN (n = a \/ n = b) /\ n <= a /\ n <= b
<1> SUFFICES ASSUME NEW a \in Int, NEW b \in Int
             PROVE  LET n == Min({a, b}) IN (n = a \/ n = b) /\ n <= a /\ n <= b
  BY Zenon
<1>1. \E x \in {a, b} : \A y \in {a, b} : x <= y
  OBVIOUS
<1> QED
  BY <1>1, Zenon DEF Min

(* What a write copies in, and what it leaves.                             *)
LEMMA Pieces ==
    ASSUME NEW s \in Seq(Byte), NEW n \in 0..Len(s)
    PROVE  /\ SubSeq(s, 1, n) \in [1..n -> Byte]
           /\ \A k \in 1..n : SubSeq(s, 1, n)[k] = s[k]
           /\ SubSeq(s, n + 1, Len(s)) \in Seq(Byte)
           /\ SubSeq(s, n + 1, Len(s)) = <<>> <=> n = Len(s)
           /\ n = 0 => SubSeq(s, n + 1, Len(s)) = s
<1>1. Len(s) \in Nat /\ \A k \in 1..Len(s) : s[k] \in Byte
  OBVIOUS
<1> DEFINE a == SubSeq(s, 1, n)
           b == SubSeq(s, n + 1, Len(s))
<1>2. \A k \in (n + 1)..Len(s) : s[k] \in Byte
  BY <1>1
<1>3. n + 1 \in Int /\ Len(s) \in Int
  BY <1>1
<1>4. /\ b \in Seq(Byte)
      /\ Len(b) = IF n + 1 <= Len(s) THEN Len(s) - (n + 1) + 1 ELSE 0
      /\ \A k \in 1..(Len(s) - (n + 1) + 1) : b[k] = s[(n + 1) + k - 1]
  <2> HIDE DEF b
  <2> QED
    BY <1>2, <1>3, SubSeqProperties DEF b
<1>5. a \in [1..n -> Byte] /\ \A k \in 1..n : a[k] = s[k]
  <2>1. \A k \in 1..n : s[k] \in Byte
    BY <1>1
  <2>2. n \in Int /\ 1 \in Int
    BY <1>1
  <2> HIDE DEF a
  <2>3. /\ a \in Seq(Byte)
        /\ Len(a) = IF 1 <= n THEN n - 1 + 1 ELSE 0
        /\ \A k \in 1..(n - 1 + 1) : a[k] = s[1 + k - 1]
    BY <2>1, <2>2, SubSeqProperties DEF a
  <2>4. Len(a) = n
    BY <1>1, <2>3
  <2> QED
    BY <1>1, <2>3, <2>4
<1> HIDE DEF b
<1>6. Len(b) = Len(s) - n
  BY <1>1, <1>4
<1>7. b = <<>> <=> n = Len(s)
  BY <1>1, <1>4, <1>6
<1>8. n = 0 => b = s
  BY <1>1, <1>4, <1>6, SeqEqual
<1> QED
  BY <1>4, <1>5, <1>7, <1>8, Zenon DEF b

(* What a signal to end e by t does with the queues W: it moves nobody but *)
(* the caller and at most one waiter, who leaves the queue and goes back   *)
(* for the lock.                                                           *)
Signalled(e, t, point, W) ==
    /\ pc' \in [Proc -> PCs] /\ waiters' \in [End -> Seq(Proc)]
    /\ \E V \in SUBSET Range(W[e]) :
          /\ \A u \in Proc : pc'[u] = IF u = t THEN point
                                     ELSE IF u \in V THEN e ELSE pc[u]
          /\ \A x \in End : /\ IsInjective(waiters'[x])
                            /\ Range(waiters'[x]) = IF x = e THEN Range(W[e]) \ V
                                                    ELSE Range(W[x])

LEMMA SignalMoves ==
    ASSUME pc \in [Proc -> PCs], NEW W \in [End -> Seq(Proc)],
           \A x \in End : IsInjective(W[x]),
           NEW e \in End, NEW t \in Proc, NEW point \in PCs, t \notin Range(W[e]),
           Signal(e, t, point, W)
    PROVE  Signalled(e, t, point, W)
<1>1. CASE W[e] = <<>> /\ pc' = [pc EXCEPT ![t] = point] /\ waiters' = W
  <2>1. pc' \in [Proc -> PCs] /\ \A u \in Proc : pc'[u] = IF u = t THEN point ELSE pc[u]
    BY <1>1, Zenon
  <2>2. {} \in SUBSET Range(W[e])
    BY Zenon
  <2>3. /\ \A u \in Proc : pc'[u] = IF u = t THEN point
                                   ELSE IF u \in {} THEN e ELSE pc[u]
        /\ \A x \in End : /\ IsInjective(waiters'[x])
                          /\ Range(waiters'[x]) = IF x = e THEN Range(W[e]) \ {} ELSE Range(W[x])
    BY <1>1, <2>1, Zenon
  <2> QED
    BY <1>1, <2>1, <2>2, <2>3, Zenon DEF Signalled
<1>2. ASSUME NEW i \in Chosen(W[e]),
             pc' = [pc EXCEPT ![t] = point, ![W[e][i]] = e],
             waiters' = [W EXCEPT ![e] = RemoveAt(@, i)]
      PROVE  Signalled(e, t, point, W)
  <2> DEFINE v == W[e][i]
  <2>1. i \in DOMAIN W[e] /\ W[e] \in Seq(Proc) /\ IsInjective(W[e])
    BY Zenon DEF Chosen
  <2>2. v \in Range(W[e]) /\ v \in Proc /\ v # t
    BY <2>1 DEF Range
  <2>3. /\ RemoveAt(W[e], i) \in Seq(Proc)
        /\ IsInjective(RemoveAt(W[e], i))
        /\ Range(RemoveAt(W[e], i)) = Range(W[e]) \ {v}
    BY <2>1, RemoveAtQueue, Zenon
  <2> HIDE DEF v
  <2>4. /\ pc' \in [Proc -> PCs]
        /\ \A u \in Proc : pc'[u] = IF u = t THEN point ELSE IF u = v THEN e ELSE pc[u]
    <3>1. pc' = [pc EXCEPT ![t] = point, ![v] = e]
      BY <1>2, Zenon DEF v
    <3>2. e \in PCs
      BY Zenon DEF End, PCs
    <3> QED
      BY <2>2, <3>1, <3>2, Zenon
  <2>5. /\ waiters' \in [End -> Seq(Proc)]
        /\ \A x \in End : waiters'[x] = IF x = e THEN RemoveAt(W[e], i) ELSE W[x]
    BY <1>2, <2>3, Zenon
  <2>6. {v} \in SUBSET Range(W[e])
    BY <2>2, Zenon
  <2>7. /\ \A u \in Proc : pc'[u] = IF u = t THEN point
                                   ELSE IF u \in {v} THEN e ELSE pc[u]
        /\ \A x \in End : /\ IsInjective(waiters'[x])
                          /\ Range(waiters'[x]) = IF x = e THEN Range(W[e]) \ {v}
                                                  ELSE Range(W[x])
    BY <2>3, <2>4, <2>5, Zenon
  <2> QED
    BY <2>4, <2>5, <2>6, <2>7, Zenon DEF Signalled
<1> QED
  BY <1>1, <1>2, Zenon DEF Signal

-----------------------------------------------------------------------------
(* The types                                                               *)

(* The ring after bytes were put at nwrite.                                *)
LEMMA PipeSize == PIPE_SIZE \in Positive
BY PipeAssumption, Zenon DEF Positive

LEMMA BufIsRing ==
    ASSUME TypeOK
    PROVE  /\ buf \in Ring(PIPE_SIZE, Byte) /\ nread \in Nat /\ nwrite \in Nat
           /\ nread <= nwrite /\ nwrite <= nread + PIPE_SIZE
           /\ \A d, n : CopyIn(d, n) = PutAt(buf, PIPE_SIZE, nwrite, d, n)
<1>1. buf \in [0..(PIPE_SIZE - 1) -> Byte]
  BY Zenon DEF TypeOK
<1>2. nread \in Nat /\ nwrite \in Nat /\ Used \in 0..PIPE_SIZE
  BY PipeAssumption DEF TypeOK
<1>3. nread <= nwrite /\ nwrite <= nread + PIPE_SIZE
  BY <1>2, PipeAssumption DEF Used
<1> QED
  BY <1>1, <1>2, <1>3, Zenon DEF Ring, CopyIn, PutAt

(* How many bytes a write copies in, and what it leaves of its data.       *)
LEMMA WriteAmount ==
    ASSUME TypeOK, NEW t \in Proc, ~Overflows(t),
           NEW n, n = Min({Len(data[t]), PIPE_SIZE - Used})
    PROVE  /\ n \in Nat /\ n <= Len(data[t]) /\ Used + n <= PIPE_SIZE
           /\ n = Len(data[t]) \/ Used + n = PIPE_SIZE
           /\ nwrite + n \in 0..(Word - 1)
           /\ data[t] \in Seq(Byte) /\ Used \in Nat
           /\ SubSeq(data[t], n + 1, Len(data[t])) \in Seq(Byte)
<1>1. data[t] \in Seq(Byte) /\ Len(data[t]) \in Nat
  BY DEF TypeOK
<1>2. nread \in Nat /\ nwrite \in 0..(Word - 1) /\ Used \in 0..PIPE_SIZE
      /\ PIPE_SIZE \in Nat /\ Word \in Nat
  BY PipeAssumption, Zenon DEF TypeOK
<1> DEFINE l == Len(data[t])
<1>3. l = 0 \/ nread + PIPE_SIZE < Word
  BY <1>1, <1>2 DEF Overflows
<1> HIDE DEF l
<1>4. l \in Nat /\ PIPE_SIZE - Used \in Int /\ n = Min({l, PIPE_SIZE - Used})
  BY <1>1, <1>2 DEF l
<1> DEFINE p == PIPE_SIZE - Used
<1>p. l \in Int /\ p \in Int /\ n = Min({l, p})
  BY <1>4
<1> HIDE DEF p
<1>a. (n = l \/ n = p) /\ n <= l /\ n <= p
  BY <1>p, MinOfTwo, Zenon
<1>5. (n = l \/ n = PIPE_SIZE - Used) /\ n <= l /\ n <= PIPE_SIZE - Used
  BY <1>a, Zenon DEF p
<1>6. /\ n \in Nat /\ n <= l /\ Used + n <= PIPE_SIZE
      /\ n = l \/ Used + n = PIPE_SIZE
  BY <1>2, <1>4, <1>5
<1>7. nwrite + n \in 0..(Word - 1)
  BY <1>2, <1>3, <1>4, <1>6 DEF Used
<1>8. SubSeq(data[t], n + 1, Len(data[t])) \in Seq(Byte)
  <2>1. n \in 0..Len(data[t])
    BY <1>1, <1>6 DEF l
  <2> QED
    BY <1>1, <2>1, Pieces, Zenon
<1>9. Used \in Nat
  BY <1>2
<1> QED
  BY <1>1, <1>6, <1>7, <1>8, <1>9, Zenon DEF l

-----------------------------------------------------------------------------
(* Counting descriptors                                                    *)

(* The descriptors for e in the tables F.                                  *)
RefsOf(F, e) == {p \in Proc \X Fd : F[p[1]][p[2]] = e}

Tables == [Proc -> [Fd -> End \cup {"none"}]]

LEMMA FdFinite == IsFiniteSet(Fd)
<1>1. 0 \in Int /\ MaxFd - 1 \in Int
  BY PipeAssumption
<1> QED
  BY <1>1, FS_Interval, Zenon DEF Fd

LEMMA RefsFinite ==
    ASSUME NEW F, NEW e
    PROVE  IsFiniteSet(RefsOf(F, e)) /\ Cardinality(RefsOf(F, e)) \in Nat
<1>1. IsFiniteSet(Proc \X Fd)
  BY FdFinite, FS_Product, PipeAssumption, Zenon
<1>2. RefsOf(F, e) \in SUBSET (Proc \X Fd)
  BY Zenon DEF RefsOf
<1> QED
  BY <1>1, <1>2, FS_Subset, FS_CardinalityType, Zenon

(* One table entry g of t changed to x.                                    *)
OneChanged(F, G, t, g, x) ==
    /\ G \in Tables
    /\ \A u \in Proc, f \in Fd : G[u][f] = IF u = t /\ f = g THEN x ELSE F[u][f]
    /\ Cardinality(RefsOf(G, x)) = Cardinality(RefsOf(F, x)) + 1
    /\ Cardinality(RefsOf(G, F[t][g])) = Cardinality(RefsOf(F, F[t][g])) - 1
    /\ \A e : e # x /\ e # F[t][g] => RefsOf(G, e) = RefsOf(F, e)

LEMMA RefsOfOne ==
    ASSUME NEW F \in Tables, NEW t \in Proc, NEW g \in Fd, NEW x \in End \cup {"none"},
           F[t][g] # x
    PROVE  OneChanged(F, [F EXCEPT ![t][g] = x], t, g, x)
<1> DEFINE G == [F EXCEPT ![t][g] = x]
<1> DEFINE y == F[t][g]
<1>1. /\ G \in Tables
      /\ \A u \in Proc, f \in Fd : G[u][f] = IF u = t /\ f = g THEN x ELSE F[u][f]
  BY Zenon DEF Tables
<1> HIDE DEF G
<1>2. RefsOf(G, x) = RefsOf(F, x) \cup {<<t, g>>} /\ <<t, g>> \notin RefsOf(F, x)
  BY <1>1 DEF RefsOf
<1>3. RefsOf(G, y) = RefsOf(F, y) \ {<<t, g>>} /\ <<t, g>> \in RefsOf(F, y)
  BY <1>1 DEF RefsOf
<1>4. \A e : e # x /\ e # y => RefsOf(G, e) = RefsOf(F, e)
  BY <1>1 DEF RefsOf
<1> HIDE DEF y
<1>5. Cardinality(RefsOf(G, x)) = Cardinality(RefsOf(F, x)) + 1
  <2>1. Cardinality(RefsOf(F, x) \cup {<<t, g>>}) =
           IF <<t, g>> \in RefsOf(F, x) THEN Cardinality(RefsOf(F, x))
                                        ELSE Cardinality(RefsOf(F, x)) + 1
    BY RefsFinite, FS_AddElement, Zenon
  <2> QED
    BY <1>2, <2>1, Zenon
<1>6. Cardinality(RefsOf(G, y)) = Cardinality(RefsOf(F, y)) - 1
  <2>1. Cardinality(RefsOf(F, y) \ {<<t, g>>}) =
           IF <<t, g>> \in RefsOf(F, y) THEN Cardinality(RefsOf(F, y)) - 1
                                        ELSE Cardinality(RefsOf(F, y))
    BY RefsFinite, FS_RemoveElement, Zenon
  <2> QED
    BY <1>3, <2>1, Zenon
<1> QED
  BY <1>1, <1>4, <1>5, <1>6, Zenon DEF OneChanged, G, y

(* The empty table of u replaced by that of t.                             *)
Copied(F, G, t, u, e) ==
    /\ G \in Tables
    /\ \A v \in Proc, f \in Fd : G[v][f] = IF v = u THEN F[t][f] ELSE F[v][f]
    /\ Cardinality({f \in Fd : F[t][f] = e}) \in Nat
    /\ Cardinality({f \in Fd : F[t][f] = e}) > 0 => \E f \in Fd : F[t][f] = e
    /\ Cardinality(RefsOf(G, e))
          = Cardinality(RefsOf(F, e)) + Cardinality({f \in Fd : F[t][f] = e})

LEMMA RefsOfCopy ==
    ASSUME NEW F \in Tables, NEW t \in Proc, NEW u \in Proc, \A f \in Fd : F[u][f] = "none",
           NEW e \in End
    PROVE  Copied(F, [F EXCEPT ![u] = F[t]], t, u, e)
<1> DEFINE G == [F EXCEPT ![u] = F[t]]
<1> DEFINE T == {f \in Fd : F[t][f] = e}
           N == {u} \X T
<1>1. /\ G \in Tables
      /\ \A v \in Proc, f \in Fd : G[v][f] = IF v = u THEN F[t][f] ELSE F[v][f]
  BY Zenon DEF Tables
<1> HIDE DEF G
<1>2. IsFiniteSet(T) /\ Cardinality(T) \in Nat
  <2>1. T \in SUBSET Fd
    BY Zenon
  <2> QED
    BY <2>1, FdFinite, FS_Subset, FS_CardinalityType, Zenon
<1>3. Cardinality(T) > 0 => T # {}
  BY FS_EmptySet
<1>4. IsFiniteSet(N) /\ Cardinality(N) = Cardinality(T)
  <2>1. IsFiniteSet({u}) /\ Cardinality({u}) = 1
    BY FS_Singleton, Zenon
  <2>2. IsFiniteSet(N) /\ Cardinality(N) = Cardinality({u}) * Cardinality(T)
    BY <1>2, <2>1, FS_Product, Zenon
  <2> QED
    BY <1>2, <2>1, <2>2
<1>5. e # "none"
  BY Zenon DEF End
<1>6. RefsOf(G, e) = RefsOf(F, e) \cup N /\ RefsOf(F, e) \cap N = {}
  BY <1>1, <1>5 DEF RefsOf
<1> HIDE DEF N
<1>7. Cardinality(RefsOf(F, e) \cup N)
        = Cardinality(RefsOf(F, e)) + Cardinality(N) - Cardinality(RefsOf(F, e) \cap N)
  BY <1>4, RefsFinite, FS_Union, Zenon
<1>8. Cardinality(RefsOf(G, e)) = Cardinality(RefsOf(F, e)) + Cardinality(T) - 0
  BY <1>4, <1>6, <1>7, FS_EmptySet, Zenon
<1> HIDE DEF T
<1>9. Cardinality(RefsOf(G, e)) = Cardinality(RefsOf(F, e)) + Cardinality(T)
  BY <1>2, <1>8, RefsFinite
<1> QED
  BY <1>1, <1>2, <1>3, <1>9, Zenon DEF Copied, G, T

LEMMA RefsAreOf == \A e : Refs(e) = RefsOf(files, e) /\ Refs(e)' = RefsOf(files', e)
BY Zenon DEF Refs, RefsOf

(* An end that somebody has is open.                                       *)
LEMMA HasMeansOpen ==
    ASSUME TypeOK, ReferencesExact, NEW t \in Proc, NEW e \in End, Has(t, e)
    PROVE  open[e] /\ refcnt[e] > 0 /\ exists
<1>1. PICK f \in Fd : files[t][f] = e
  BY Zenon DEF Has
<1>2. <<t, f>> \in RefsOf(files, e)
  BY <1>1, Zenon DEF RefsOf
<1>3. Cardinality(RefsOf(files, e)) # 0
  BY <1>2, RefsFinite, FS_EmptySet, Zenon
<1>4. refcnt[e] = Cardinality(RefsOf(files, e)) /\ (open[e] <=> refcnt[e] > 0)
  BY RefsAreOf, Zenon DEF ReferencesExact
<1>5. refcnt[e] > 0
  BY <1>3, <1>4, RefsFinite
<1>6. open[e]
  BY <1>4, <1>5, Zenon
<1> QED
  BY <1>5, <1>6, Zenon DEF ReferencesExact

(* Steps that leave the ends alone: who starts to use an end has it.       *)
LEMMA EndsKept ==
    ASSUME TypeOK, Points, ReferencesExact, UNCHANGED ends,
           \A u \in Proc : \/ pc'[u] = pc[u]
                           \/ /\ pc'[u] \notin {"unborn", "destroy"}
                              /\ pc'[u] = "run" \/ \E e \in End : Has(u, e)
                              /\ \A e \in End : pc'[u] = e \/ pc'[u] \in Waiting(e) => Has(u, e)
    PROVE  UsersHave' /\ DestroyersClosed' /\ ReferencesExact'
<1>1. open' = open /\ refcnt' = refcnt /\ exists' = exists /\ files' = files
  BY Zenon DEF ends
<1>2. \A t, e : Has(t, e)' <=> Has(t, e)
  BY <1>1, Zenon DEF Has
<1>3. \A t \in Proc, e \in End : pc'[t] = e \/ pc'[t] \in Waiting(e) => Has(t, e)'
  BY <1>2, Zenon DEF Points, UsersHave, DestroyersClosed
<1>4. \A t \in Proc : pc'[t] = "unborn" => \A f \in Fd : files'[t][f] = "none"
  BY <1>1, Zenon DEF Points, UsersHave, DestroyersClosed
<1>5. \A t \in Proc : pc'[t] = "destroy" => pc[t] = "destroy"
  BY Zenon
<1>6. \A t \in Proc : pc'[t] = "destroy" => exists' /\ \A e \in End : ~open'[e]
  BY <1>1, <1>5, Zenon DEF Points, UsersHave, DestroyersClosed
<1>7. ReferencesExact'
  <2>1. \A e \in End : refcnt'[e] = Cardinality(Refs(e)') /\ (open'[e] <=> refcnt'[e] > 0)
    BY <1>1, Zenon DEF ReferencesExact, Refs
  <2>2. ~exists' => \A e \in End : ~open'[e]
    BY <1>1, Zenon DEF ReferencesExact
  <2>3. ASSUME NEW t \in Proc, pc'[t] \notin {"unborn", "run"} PROVE exists'
    <3>1. CASE pc'[t] = pc[t]
      BY <1>1, <2>3, <3>1, Zenon DEF ReferencesExact
    <3>2. CASE \E e \in End : Has(t, e)
      BY <1>1, <3>2, HasMeansOpen, Zenon
    <3> QED
      BY <2>3, <3>1, <3>2, Zenon
  <2>4. \A t, u \in Proc : pc'[t] = "destroy" /\ pc'[u] = "destroy" => t = u
    BY <1>5, Zenon DEF ReferencesExact
  <2> QED
    BY <2>1, <2>2, <2>3, <2>4, Zenon DEF ReferencesExact
<1> QED
  BY <1>3, <1>4, <1>6, <1>7, Zenon DEF UsersHave, DestroyersClosed

-----------------------------------------------------------------------------
(* Every step preserves the invariant                                      *)

RingType == /\ buf \in [0..(PIPE_SIZE - 1) -> Byte]
            /\ nread \in Nat /\ nwrite \in 0..(Word - 1) /\ Used \in 0..PIPE_SIZE
EndsType == /\ open \in [End -> BOOLEAN] /\ refcnt \in [End -> Nat] /\ exists \in BOOLEAN
            /\ files \in Tables
WaitType == waiters \in [End -> Seq(Proc)] /\ pc \in [Proc -> PCs]
CallType == /\ data \in [Proc -> Seq(Byte)] /\ wrote \in [Proc -> BOOLEAN]
            /\ want \in [Proc -> 0..MaxLen]
OutType == /\ out \in Seq(Byte) /\ eof \in BOOLEAN
           /\ killed \subseteq Proc /\ halted \in BOOLEAN

LEMMA TypeParts ==
    /\ TypeOK <=> RingType /\ EndsType /\ WaitType /\ CallType /\ OutType
    /\ TypeOK' <=> RingType' /\ EndsType' /\ WaitType' /\ CallType' /\ OutType'
BY Zenon DEF TypeOK, RingType, EndsType, WaitType, CallType, OutType, Tables

LEMMA TypesKept ==
    /\ RingType /\ UNCHANGED ring => RingType'
    /\ EndsType /\ UNCHANGED ends => EndsType'
    /\ CallType /\ UNCHANGED call => CallType'
    /\ OutType /\ UNCHANGED outcome => OutType'
<1>1. RingType /\ UNCHANGED ring => RingType'
  BY Zenon DEF RingType, ring, Used
<1>2. EndsType /\ UNCHANGED ends => EndsType'
  BY Zenon DEF EndsType, ends, Tables
<1>3. CallType /\ UNCHANGED call => CallType'
  BY Zenon DEF CallType, call
<1>4. OutType /\ UNCHANGED outcome => OutType'
  BY Zenon DEF OutType, outcome
<1> QED
  BY <1>1, <1>2, <1>3, <1>4, Zenon

(* What the invariant says at the start of a step.                         *)
LEMMA Given ==
    ASSUME IInv
    PROVE  /\ RingType /\ EndsType /\ WaitType /\ CallType /\ OutType
           /\ QueuesExact /\ UsersHave /\ WritersData /\ DestroyersClosed
           /\ TypeOK /\ Points /\ ReferencesExact /\ EofIsFinal
BY TypeParts, Zenon DEF IInv, Points

(* What has to be shown at its end.                                        *)
LEMMA Shown ==
    ASSUME RingType', EndsType', WaitType', CallType', OutType',
           QueuesExact', UsersHave', WritersData', DestroyersClosed',
           ReferencesExact', EofIsFinal'
    PROVE  IInv'
BY TypeParts, Zenon DEF IInv, Points

LEMMA SleepInv ==
    ASSUME IInv, NEW t \in Proc, Sleep(t)
    PROVE  IInv'
<1> USE Given
<1>1. PICK from \in {"wpre", "rpre"}, to \in {"wsleep", "rsleep"} :
         /\ pc[t] = from /\ pc' = [pc EXCEPT ![t] = to]
         /\ from = "wpre" => to = "wsleep"
         /\ from = "rpre" => to = "rsleep"
  BY Zenon DEF Sleep
<1>2. waiters' = waiters /\ data' = data
  BY Zenon DEF Sleep, call
<1>3. pc' \in [Proc -> PCs] /\ \A u \in Proc : pc'[u] = IF u = t THEN to ELSE pc[u]
  BY <1>1, Zenon DEF WaitType, PCs
<1>4. \A e \in End : from \in Waiting(e) <=> to \in Waiting(e)
  BY <1>1, Zenon DEF Waiting, End
<1>5. RingType' /\ EndsType' /\ CallType' /\ OutType' /\ WaitType'
  BY <1>2, <1>3, TypesKept, Zenon DEF Sleep, WaitType
<1>6. QueuesExact'
  <2>1. ASSUME NEW e \in End, NEW u \in Range(waiters[e]) PROVE pc'[u] \in Waiting(e)
    <3>1. u \in Proc /\ pc[u] \in Waiting(e)
      BY DEF QueuesExact, Range, WaitType
    <3> QED
      BY <1>1, <1>3, <1>4, <3>1, Zenon
  <2> QED
    BY <1>2, <2>1, Zenon DEF QueuesExact
<1>7. UsersHave' /\ DestroyersClosed' /\ ReferencesExact'
  <2>1. UNCHANGED ends
    BY Zenon DEF Sleep
  <2>2. \A e \in End : to = e \/ to \in Waiting(e) => Has(t, e)
    BY <1>1, <1>4, Zenon DEF UsersHave, End
  <2>3. \E e \in End : to \in Waiting(e)
    BY Zenon DEF Waiting, End
  <2>4. to \notin {"unborn", "destroy"}
    BY Zenon
  <2> QED
    BY <1>3, <2>1, <2>2, <2>3, <2>4, EndsKept, Zenon
<1>8. WritersData'
  BY <1>1, <1>2, <1>3, Zenon DEF WritersData
<1>9. EofIsFinal'
  BY Zenon DEF EofIsFinal, Sleep, ring, ends, outcome, Used
<1> QED
  BY <1>5, <1>6, <1>7, <1>8, <1>9, Shown, ZenonT(40)

(* A thread outside the pipe starts to use an end that it has.             *)
LEMMA BeginPoints ==
    ASSUME IInv, NEW t \in Proc, NEW e \in End, InUser(t), Has(t, e),
           pc' = [pc EXCEPT ![t] = e], UNCHANGED <<ends, waiters>>
    PROVE  /\ WaitType' /\ QueuesExact'
           /\ UsersHave' /\ DestroyersClosed' /\ ReferencesExact'
           /\ \A u \in Proc : pc'[u] = IF u = t THEN e ELSE pc[u]
<1> USE Given
<1>1. pc[t] = "run"
  BY Zenon DEF InUser, Running
<1>2. pc' \in [Proc -> PCs] /\ \A u \in Proc : pc'[u] = IF u = t THEN e ELSE pc[u]
  BY Zenon DEF WaitType, PCs, End
<1>3. WaitType'
  BY <1>2, Zenon DEF WaitType
<1>4. QueuesExact'
  <2>1. ASSUME NEW x \in End, NEW u \in Range(waiters[x]) PROVE pc'[u] \in Waiting(x)
    <3>1. u \in Proc /\ pc[u] \in Waiting(x)
      BY DEF QueuesExact, Range, WaitType
    <3>2. u # t
      BY <1>1, <3>1, Zenon DEF Waiting
    <3> QED
      BY <1>2, <3>1, <3>2, Zenon
  <2> QED
    BY <2>1, Zenon DEF QueuesExact
<1>5. UsersHave' /\ DestroyersClosed' /\ ReferencesExact'
  <2>1. e \notin {"unborn", "destroy"} /\ \A x \in End : e = x \/ e \in Waiting(x) => Has(t, x)
    BY Zenon DEF End, Waiting
  <2> QED
    BY <1>2, <2>1, EndsKept, Zenon
<1> QED
  BY <1>2, <1>3, <1>4, <1>5, Zenon

LEMMA BeginWriteInv ==
    ASSUME IInv, NEW t \in Proc, NEW d \in Inputs, BeginWrite(t, d)
    PROVE  IInv'
<1> USE Given
<1>1. /\ WaitType' /\ QueuesExact'
      /\ UsersHave' /\ DestroyersClosed' /\ ReferencesExact'
      /\ \A u \in Proc : pc'[u] = IF u = t THEN "write" ELSE pc[u]
  BY BeginPoints, "write" \in End, Zenon DEF BeginWrite, End
<1>2. d \in Seq(Byte)
  <2>1. PICK n \in 0..MaxLen : d \in [1..n -> Byte]
    BY Zenon DEF Inputs
  <2>2. n \in Nat
    BY PipeAssumption
  <2> QED
    BY <2>1, <2>2
<1>3. data' \in [Proc -> Seq(Byte)] /\ \A u \in Proc : u # t => data'[u] = data[u]
  BY <1>2, Zenon DEF BeginWrite, CallType
<1>4. RingType' /\ EndsType' /\ CallType' /\ OutType'
  BY <1>3, TypesKept, Zenon DEF BeginWrite, CallType
<1>5. WritersData'
  BY <1>1, <1>3, Zenon DEF WritersData
<1>6. EofIsFinal'
  BY Zenon DEF EofIsFinal, BeginWrite, ring, ends, outcome, Used
<1> QED
  BY <1>1, <1>4, <1>5, <1>6, Shown, Zenon

LEMMA BeginReadInv ==
    ASSUME IInv, NEW t \in Proc, NEW n \in 0..MaxLen, BeginRead(t, n)
    PROVE  IInv'
<1> USE Given
<1>1. /\ WaitType' /\ QueuesExact'
      /\ UsersHave' /\ DestroyersClosed' /\ ReferencesExact'
      /\ \A u \in Proc : pc'[u] = IF u = t THEN "read" ELSE pc[u]
  BY BeginPoints, "read" \in End, Zenon DEF BeginRead, End
<1>2. pc[t] = "run" /\ data' = data
  BY Zenon DEF BeginRead, InUser, Running
<1>3. RingType' /\ EndsType' /\ CallType' /\ OutType'
  BY TypesKept, Zenon DEF BeginRead, CallType
<1>4. WritersData'
  BY <1>1, <1>2, Zenon DEF WritersData
<1>5. EofIsFinal'
  BY Zenon DEF EofIsFinal, BeginRead, ring, ends, outcome, Used
<1> QED
  BY <1>1, <1>3, <1>4, <1>5, Shown, Zenon

(* Nothing but halted changes, if anything does.                           *)
LEMMA PanicInv ==
    ASSUME IInv, UNCHANGED <<ring, ends, waiters, pc, call, out, eof, killed>>,
           halted' \in BOOLEAN
    PROVE  IInv'
<1> USE Given
<1>1. RingType' /\ EndsType' /\ CallType' /\ OutType' /\ WaitType'
  BY TypesKept, Zenon DEF OutType, WaitType
<1>2. QueuesExact' /\ WritersData'
  BY Zenon DEF QueuesExact, WritersData, call
<1>3. UsersHave' /\ DestroyersClosed' /\ ReferencesExact'
  BY EndsKept, Zenon
<1>4. EofIsFinal'
  BY Zenon DEF EofIsFinal, ring, ends, Used
<1> QED
  BY <1>1, <1>2, <1>3, <1>4, Shown, ZenonT(40)

(* The queues W before t signals end e; t itself may have queued up at the *)
(* other end.                                                              *)
SignalReady(e, t, point, W) ==
    /\ pc \in [Proc -> PCs] /\ W \in [End -> Seq(Proc)]
    /\ e \in End /\ t \in Proc /\ point \in PCs
    /\ \A x \in End : /\ IsInjective(W[x])
                      /\ \A u \in Range(W[x]) : \/ u # t /\ pc[u] \in Waiting(x)
                                                \/ u = t /\ x # e /\ point \in Waiting(x)

(* The queues and the threads after it.                                    *)
SignalDone(e, t, point) ==
    /\ WaitType' /\ QueuesExact'
    /\ pc'[t] = point
    /\ \A u \in Proc : u # t => pc'[u] = pc[u] \/ (pc'[u] = e /\ pc[u] \in Waiting(e))

LEMMA SignalPoints ==
    ASSUME NEW e, NEW t, NEW point, NEW W, SignalReady(e, t, point, W), Signal(e, t, point, W)
    PROVE  SignalDone(e, t, point)
<1> USE DEF SignalReady
<1>1. t \notin Range(W[e]) /\ \A x \in End : IsInjective(W[x])
  BY Zenon
<1>2. Signalled(e, t, point, W)
  BY <1>1, SignalMoves, Zenon
<1>3. PICK V \in SUBSET Range(W[e]) :
         /\ \A u \in Proc : pc'[u] = IF u = t THEN point ELSE IF u \in V THEN e ELSE pc[u]
         /\ \A x \in End : /\ IsInjective(waiters'[x])
                           /\ Range(waiters'[x]) = IF x = e THEN Range(W[e]) \ V
                                                   ELSE Range(W[x])
  BY <1>2, Zenon DEF Signalled
<1>4. \A x \in End : \A u \in Range(W[x]) : u \in Proc
  BY DEF Range
<1>5. ASSUME NEW x \in End, NEW u \in Range(waiters'[x]) PROVE pc'[u] \in Waiting(x)
  <2>1. u \in Range(W[x]) /\ u \in Proc /\ (x = e => u \notin V)
    BY <1>3, <1>4, Zenon
  <2>2. CASE u = t
    BY <1>3, <2>1, <2>2, Zenon
  <2>3. CASE u # t
    <3>1. pc[u] \in Waiting(x)
      BY <2>1, <2>3, Zenon
    <3>2. u \notin V
      <4>1. x # e => pc[u] \notin Waiting(e)
        BY <3>1 DEF Waiting, End
      <4> QED
        BY <2>1, <2>3, <4>1, Zenon
    <3> QED
      BY <1>3, <2>1, <2>3, <3>1, <3>2, Zenon
  <2> QED
    BY <2>2, <2>3, Zenon
<1>6. QueuesExact'
  BY <1>3, <1>5, Zenon DEF QueuesExact
<1>7. \A u \in Proc : u # t => pc'[u] = pc[u] \/ (pc'[u] = e /\ pc[u] \in Waiting(e))
  BY <1>3, Zenon
<1> QED
  BY <1>2, <1>3, <1>6, <1>7, Zenon DEF WaitType, Signalled, SignalDone

(* The same, when the ends stay as they are and the caller is done.        *)
LEMMA SignalKeepsEnds ==
    ASSUME IInv, UNCHANGED ends, NEW t \in Proc, NEW e \in End,
           pc' \in [Proc -> PCs],
           pc'[t] = "run" \/ (\E x \in End : pc'[t] \in Waiting(x) /\ Has(t, x)),
           \A u \in Proc : u # t => pc'[u] = pc[u] \/ (pc'[u] = e /\ pc[u] \in Waiting(e))
    PROVE  UsersHave' /\ DestroyersClosed' /\ ReferencesExact'
<1> USE Given
<1>1. ASSUME NEW u \in Proc
      PROVE  \/ pc'[u] = pc[u]
             \/ /\ pc'[u] \notin {"unborn", "destroy"}
                /\ pc'[u] = "run" \/ \E x \in End : Has(u, x)
                /\ \A x \in End : pc'[u] = x \/ pc'[u] \in Waiting(x) => Has(u, x)
  <2>1. CASE u = t /\ pc'[t] = "run"
    BY <2>1, Zenon DEF End, Waiting
  <2>2. CASE u = t /\ \E x \in End : pc'[t] \in Waiting(x) /\ Has(t, x)
    <3>1. PICK x \in End : pc'[t] \in Waiting(x) /\ Has(t, x)
      BY <2>2, Zenon
    <3>2. \A y \in End : pc'[t] = y \/ pc'[t] \in Waiting(y) => y = x
      BY <3>1, Zenon DEF End, Waiting
    <3>3. pc'[t] \notin {"unborn", "destroy"}
      BY <3>1, Zenon DEF Waiting
    <3> QED
      BY <2>2, <3>1, <3>2, <3>3, Zenon
  <2>3. CASE u # t /\ pc'[u] = e /\ pc[u] \in Waiting(e)
    <3>1. Has(u, e)
      BY <2>3, Zenon DEF UsersHave
    <3>2. \A y \in End : e = y \/ e \in Waiting(y) => y = e
      BY Zenon DEF End, Waiting
    <3>3. e \notin {"unborn", "destroy"}
      BY Zenon DEF End
    <3> QED
      BY <2>3, <3>1, <3>2, <3>3, Zenon
  <2> QED
    BY <2>1, <2>2, <2>3, Zenon
<1> QED
  BY <1>1, EndsKept, Zenon

LEMMA ReadSectionInv ==
    ASSUME IInv, NEW t \in Proc, ReadSection(t)
    PROVE  IInv'
<1> USE Given
<1> DEFINE n == Min({want[t], Used})
<1>1. /\ pc[t] = "read" /\ Has(t, "read")
      /\ UNCHANGED <<buf, nwrite, ends, data, wrote, killed, halted>>
  BY Zenon DEF ReadSection, UsersHave, End
<1>2. EndsType' /\ open' = open
  BY <1>1, TypesKept, Zenon DEF ends
<1>3. \A e \in End : \A u \in Range(waiters[e]) : u \in Proc /\ pc[u] \in Waiting(e) /\ u # t
  <2>1. \A e \in End : \A u \in Range(waiters[e]) : u \in Proc
    BY DEF Range, WaitType
  <2>2. \A e \in End : "read" \notin Waiting(e)
    BY Zenon DEF Waiting
  <2> QED
    BY <1>1, <2>1, <2>2, Zenon DEF QueuesExact
<1>4. ASSUME NEW point \in {"run", "rpre"}, pc' = [pc EXCEPT ![t] = point]
      PROVE  /\ pc' \in [Proc -> PCs] /\ pc'[t] = point
             /\ \A u \in Proc : u # t => pc'[u] = pc[u]
  BY <1>4, Zenon DEF WaitType, PCs
<1>5. want[t] \in 0..MaxLen /\ want \in [Proc -> 0..MaxLen] /\ 0 \in 0..MaxLen
  BY PipeAssumption DEF CallType
<1>6. CASE Used = 0 /\ ~open["write"] /\ eof' = TRUE /\ pc' = [pc EXCEPT ![t] = "run"]
           /\ want' = [want EXCEPT ![t] = 0] /\ UNCHANGED <<nread, out, waiters>>
  <2>1. RingType' /\ CallType' /\ OutType' /\ WaitType'
    BY <1>1, <1>4, <1>5, <1>6, TypesKept, Zenon DEF CallType, OutType, WaitType, ring
  <2>2. QueuesExact'
    BY <1>3, <1>4, <1>6, Zenon DEF QueuesExact
  <2>3. UsersHave' /\ DestroyersClosed' /\ ReferencesExact'
    BY <1>1, <1>4, <1>6, SignalKeepsEnds, "read" \in End, Zenon DEF End
  <2>4. WritersData'
    BY <1>1, <1>4, <1>6, Zenon DEF WritersData
  <2>5. EofIsFinal'
    BY <1>1, <1>2, <1>6, ZenonT(40) DEF EofIsFinal, Used
  <2> QED
    BY <1>2, <2>1, <2>2, <2>3, <2>4, <2>5, Shown, Zenon
<1>7. CASE Used = 0 /\ open["write"] /\ pc' = [pc EXCEPT ![t] = "rpre"]
           /\ waiters' = [waiters EXCEPT !["read"] = Append(@, t)]
           /\ UNCHANGED <<nread, out, eof, want>>
  <2>1. /\ Append(waiters["read"], t) \in Seq(Proc)
        /\ IsInjective(Append(waiters["read"], t))
        /\ Range(Append(waiters["read"], t)) = Range(waiters["read"]) \cup {t}
    <3>1. waiters["read"] \in Seq(Proc) /\ IsInjective(waiters["read"])
          /\ t \notin Range(waiters["read"])
      BY <1>3, Zenon DEF QueuesExact, WaitType, End
    <3> QED
      BY <3>1, AppendQueue
  <2> DEFINE q == Append(waiters["read"], t)
  <2> HIDE DEF q
  <2>2. /\ waiters' \in [End -> Seq(Proc)]
        /\ \A e \in End : waiters'[e] = IF e = "read" THEN q ELSE waiters[e]
    BY <1>7, <2>1, ZenonT(40) DEF WaitType, q
  <2>3. q \in Seq(Proc) /\ IsInjective(q) /\ Range(q) = Range(waiters["read"]) \cup {t}
    BY <2>1, Zenon DEF q
  <2>4. RingType' /\ CallType' /\ OutType' /\ WaitType'
    BY <1>1, <1>4, <1>7, <2>2, TypesKept, Zenon DEF CallType, OutType, WaitType, ring
  <2>5. QueuesExact'
    <3>1. ASSUME NEW e \in End, NEW u \in Range(waiters'[e]) PROVE pc'[u] \in Waiting(e)
      <4>1. CASE u = t
        <5>1. e = "read"
          BY <1>3, <2>2, <4>1, Zenon
        <5> QED
          BY <1>4, <1>7, <4>1, <5>1, Zenon DEF Waiting
      <4>2. CASE u # t
        <5>1. u \in Range(waiters[e])
          BY <2>2, <2>3, <4>2, Zenon
        <5> QED
          BY <1>3, <1>4, <1>7, <4>2, <5>1, ZenonT(40)
      <4> QED
        BY <4>1, <4>2, Zenon
    <3> QED
      BY <2>2, <2>3, <3>1, Zenon DEF QueuesExact
  <2>6. UsersHave' /\ DestroyersClosed' /\ ReferencesExact'
    <3>1. "read" \in End /\ pc'[t] \in Waiting("read")
      BY <1>4, <1>7, Zenon DEF Waiting, End
    <3> QED
      BY <1>1, <1>4, <1>7, <3>1, SignalKeepsEnds, Zenon
  <2>7. WritersData'
    BY <1>1, <1>4, <1>7, Zenon DEF WritersData
  <2>8. EofIsFinal'
    BY <1>1, <1>2, <1>7, Zenon DEF EofIsFinal, Used
  <2> QED
    BY <1>2, <2>4, <2>5, <2>6, <2>7, <2>8, Shown, Zenon
<1>8. CASE Used > 0 /\ out' = [i \in 1..n |-> buf[(nread + i - 1) % PIPE_SIZE]]
           /\ nread' = nread + n /\ want' = [want EXCEPT ![t] = 0]
           /\ Signal("write", t, "run", waiters) /\ UNCHANGED eof
  <2>1. n \in 0..Used /\ n \in Nat
    <3> DEFINE a == want[t]
    <3>1. a \in Int /\ Used \in Int /\ a >= 0 /\ Used >= 0
      BY <1>5, PipeAssumption DEF RingType
    <3> HIDE DEF a
    <3>2. LET m == Min({a, Used}) IN (m = a \/ m = Used) /\ m <= a /\ m <= Used
      BY <3>1, MinOfTwo, Zenon
    <3> QED
      BY <3>1, <3>2 DEF a
  <2> HIDE DEF n
  <2>2. RingType'
    BY <1>1, <1>8, <2>1, PipeAssumption DEF RingType, Used
  <2>3. out' \in Seq(Byte)
    <3>1. ASSUME NEW i \in 1..n PROVE buf[(nread + i - 1) % PIPE_SIZE] \in Byte
      <4>1. PIPE_SIZE \in Nat \ {0} /\ nread + i - 1 \in Int
        BY <2>1, PipeAssumption DEF RingType
      <4>2. (nread + i - 1) % PIPE_SIZE \in 0..(PIPE_SIZE - 1)
        BY <4>1, ModRange, Zenon
      <4> QED
        BY <4>2, Zenon DEF RingType
    <3>2. out' \in [1..n -> Byte]
      BY <1>8, <3>1, Zenon
    <3> QED
      BY <2>1, <3>2
  <2>4. CallType' /\ OutType'
    BY <1>1, <1>5, <1>8, <2>3, Zenon DEF CallType, OutType
  <2>5. /\ WaitType' /\ QueuesExact' /\ pc'[t] = "run"
        /\ \A u \in Proc : u # t => pc'[u] = pc[u] \/ (pc'[u] = "write" /\ pc[u] \in Waiting("write"))
    <3>1. "write" \in End /\ "run" \in PCs
      BY Zenon DEF End, PCs
    <3>2. \A x \in End : /\ IsInjective(waiters[x])
                         /\ \A u \in Range(waiters[x]) :
                               \/ u # t /\ pc[u] \in Waiting(x)
                               \/ u = t /\ x # "write" /\ "run" \in Waiting(x)
      BY <1>3, Zenon DEF QueuesExact
    <3>3. SignalReady("write", t, "run", waiters)
      BY <3>1, <3>2, Zenon DEF SignalReady, WaitType
    <3> QED
      BY <1>8, <3>3, SignalPoints, Zenon DEF SignalDone
  <2>6. UsersHave' /\ DestroyersClosed' /\ ReferencesExact'
    BY <1>1, <2>5, SignalKeepsEnds, "write" \in End, Zenon DEF WaitType, End
  <2>7. WritersData'
    BY <1>1, <2>5, Zenon DEF WritersData, Waiting
  <2>8. EofIsFinal'
    BY <1>8 DEF EofIsFinal
  <2> QED
    BY <1>2, <2>2, <2>4, <2>5, <2>6, <2>7, <2>8, Shown, ZenonT(40)
<1> QED
  BY <1>6, <1>7, <1>8, Zenon DEF ReadSection

LEMMA WriteSectionInv ==
    ASSUME IInv, NEW t \in Proc, WriteSection(t)
    PROVE  IInv'
<1> USE Given
<1> DEFINE n == Min({Len(data[t]), PIPE_SIZE - Used})
           rest == SubSeq(data[t], n + 1, Len(data[t]))
           Appended == [waiters EXCEPT !["write"] = Append(@, t)]
<1>1. /\ pc[t] = "write" /\ ~Overflows(t) /\ Has(t, "write")
      /\ buf' = CopyIn(data[t], n) /\ nwrite' = nwrite + n
      /\ UNCHANGED <<nread, ends, want, out, eof, halted>>
  BY Zenon DEF WriteSection, UsersHave, End
<1>2. \/ /\ Signal("read", t, "run", waiters)
         /\ data' = [data EXCEPT ![t] = <<>>]
         /\ wrote' = [wrote EXCEPT ![t] = FALSE]
         /\ UNCHANGED killed
      \/ /\ pc' = [pc EXCEPT ![t] = "run"]
         /\ data' = [data EXCEPT ![t] = <<>>]
         /\ wrote' = [wrote EXCEPT ![t] = FALSE]
         /\ killed' \in {killed, killed \cup {t}}
         /\ UNCHANGED waiters
      \/ /\ Signal("read", t, "wpre", Appended)
         /\ data' = [data EXCEPT ![t] = rest]
         /\ wrote' = [wrote EXCEPT ![t] = @ \/ n > 0]
         /\ UNCHANGED killed
  BY Zenon DEF WriteSection
<1>3. /\ n \in Nat /\ n <= Len(data[t]) /\ Used + n <= PIPE_SIZE
      /\ nwrite + n \in 0..(Word - 1)
      /\ data[t] \in Seq(Byte) /\ Used \in Nat /\ rest \in Seq(Byte)
  BY <1>1, WriteAmount, Zenon
<1> HIDE DEF n, rest
<1>4. RingType'
  <2>1. \A k \in 1..n : data[t][k] \in Byte
    BY <1>3
  <2>2. PutAt(buf, PIPE_SIZE, nwrite, data[t], n) \in Ring(PIPE_SIZE, Byte)
    BY <1>3, <2>1, BufIsRing, PipeSize, PutAtType, ZenonT(40)
  <2>3. buf' \in [0..(PIPE_SIZE - 1) -> Byte]
    BY <1>1, <2>2, BufIsRing, Zenon DEF Ring
  <2>4. Used' = Used + n
    <3>1. nread \in Nat /\ nwrite \in Nat
      BY BufIsRing, Zenon
    <3>2. nwrite' = nwrite + n /\ nread' = nread /\ n \in Nat
      BY <1>1, <1>3, Zenon
    <3>3. (nwrite + n) - nread = (nwrite - nread) + n
      BY <3>1, <3>2
    <3> QED
      BY <3>2, <3>3, Zenon DEF Used
  <2>5. nread' \in Nat /\ nwrite' \in 0..(Word - 1)
    BY <1>1, <1>3, Zenon DEF RingType
  <2>6. Used' \in 0..PIPE_SIZE
    BY <1>3, <2>4, PipeAssumption
  <2> QED
    BY <2>3, <2>5, <2>6, Zenon DEF RingType
<1>5. EndsType' /\ open' = open
  BY <1>1, TypesKept, Zenon DEF ends
<1>6. /\ data' \in [Proc -> Seq(Byte)] /\ wrote' \in [Proc -> BOOLEAN]
      /\ \A u \in Proc : u # t => data'[u] = data[u]
  <2>1. data \in [Proc -> Seq(Byte)] /\ wrote \in [Proc -> BOOLEAN] /\ <<>> \in Seq(Byte)
    BY DEF CallType
  <2>2. (wrote[t] \/ n > 0) \in BOOLEAN
    BY Zenon
  <2>3. data' \in [Proc -> Seq(Byte)] /\ \A u \in Proc : u # t => data'[u] = data[u]
    BY <1>2, <1>3, <2>1, Zenon
  <2>4. wrote' \in [Proc -> BOOLEAN]
    BY <1>2, <2>1, <2>2, Zenon
  <2> QED
    BY <2>3, <2>4, Zenon
<1>7. CallType' /\ OutType'
  BY <1>1, <1>2, <1>6, Zenon DEF CallType, OutType
<1>8. EofIsFinal'
  <2>1. open["write"]
    BY <1>1, HasMeansOpen, Zenon DEF End
  <2> QED
    BY <1>1, <2>1, Zenon DEF EofIsFinal
<1>9. \A e \in End : \A u \in Range(waiters[e]) : u \in Proc /\ pc[u] \in Waiting(e) /\ u # t
  <2>1. \A e \in End : \A u \in Range(waiters[e]) : u \in Proc
    BY DEF Range, WaitType
  <2>2. \A e \in End : "write" \notin Waiting(e)
    BY Zenon DEF Waiting
  <2> QED
    BY <1>1, <2>1, <2>2, ZenonT(40) DEF QueuesExact
<1>10. "read" \in End /\ "write" \in End /\ "run" \in PCs /\ "wpre" \in PCs
  BY Zenon DEF End, PCs
<1>11. CASE Signal("read", t, "run", waiters) /\ data' = [data EXCEPT ![t] = <<>>]
  <2>1. SignalReady("read", t, "run", waiters)
    BY <1>9, <1>10, Zenon DEF SignalReady, WaitType, QueuesExact
  <2>2. SignalDone("read", t, "run")
    BY <1>11, <2>1, SignalPoints, Zenon
  <2>3. UsersHave' /\ DestroyersClosed' /\ ReferencesExact'
    BY <1>1, <1>10, <2>2, SignalKeepsEnds, Zenon DEF SignalDone, WaitType
  <2>4. data'[t] = <<>>
    BY <1>11, Zenon DEF CallType
  <2>5. WritersData'
    BY <1>6, <2>2, <2>4, Zenon DEF WritersData, SignalDone, Waiting
  <2> QED
    BY <1>4, <1>5, <1>7, <1>8, <2>2, <2>3, <2>5, Shown, ZenonT(40) DEF SignalDone
<1>12. CASE pc' = [pc EXCEPT ![t] = "run"] /\ UNCHANGED waiters /\ data' = [data EXCEPT ![t] = <<>>]
  <2>1. pc' \in [Proc -> PCs] /\ pc'[t] = "run" /\ \A u \in Proc : u # t => pc'[u] = pc[u]
    BY <1>10, <1>12, Zenon DEF WaitType
  <2>2. WaitType' /\ QueuesExact'
    BY <1>9, <1>12, <2>1, Zenon DEF WaitType, QueuesExact
  <2>3. UsersHave' /\ DestroyersClosed' /\ ReferencesExact'
    BY <1>1, <1>10, <2>1, SignalKeepsEnds, Zenon
  <2>4. data'[t] = <<>>
    BY <1>12, Zenon DEF CallType
  <2>5. WritersData'
    BY <1>6, <2>1, <2>4, Zenon DEF WritersData
  <2> QED
    BY <1>4, <1>5, <1>7, <1>8, <2>2, <2>3, <2>5, Shown, ZenonT(40)
<1>13. CASE Signal("read", t, "wpre", Appended)
  <2> DEFINE q == Append(waiters["write"], t)
  <2>1. waiters["write"] \in Seq(Proc) /\ IsInjective(waiters["write"])
        /\ t \notin Range(waiters["write"])
    BY <1>9, <1>10, Zenon DEF QueuesExact, WaitType
  <2> HIDE DEF q
  <2>2. q \in Seq(Proc) /\ IsInjective(q) /\ Range(q) = Range(waiters["write"]) \cup {t}
    BY <2>1, AppendQueue DEF q
  <2>3. /\ Appended \in [End -> Seq(Proc)]
        /\ \A e \in End : Appended[e] = IF e = "write" THEN q ELSE waiters[e]
    BY <2>2, Zenon DEF WaitType, q
  <2> HIDE DEF Appended
  <2>4. SignalReady("read", t, "wpre", Appended)
    <3>1. ASSUME NEW x \in End
          PROVE  /\ IsInjective(Appended[x])
                 /\ \A u \in Range(Appended[x]) :
                       \/ u # t /\ pc[u] \in Waiting(x)
                       \/ u = t /\ x # "read" /\ "wpre" \in Waiting(x)
      <4>1. CASE x = "write"
        BY <1>9, <2>2, <2>3, <4>1, Zenon DEF Waiting, QueuesExact
      <4>2. CASE x # "write"
        BY <1>9, <2>3, <4>2, Zenon DEF QueuesExact
      <4> QED
        BY <4>1, <4>2, Zenon
    <3> QED
      BY <1>10, <2>3, <3>1, Zenon DEF SignalReady, WaitType
  <2>5. SignalDone("read", t, "wpre")
    BY <1>13, <2>4, SignalPoints, Zenon
  <2>6. UsersHave' /\ DestroyersClosed' /\ ReferencesExact'
    <3>1. "wpre" \in Waiting("write")
      BY Zenon DEF Waiting
    <3> QED
      BY <1>1, <1>10, <2>5, <3>1, SignalKeepsEnds, ZenonT(40) DEF SignalDone, WaitType
  <2>7. WritersData'
    BY <1>6, <2>5, Zenon DEF WritersData, SignalDone, Waiting
  <2> QED
    BY <1>4, <1>5, <1>7, <1>8, <2>5, <2>6, <2>7, Shown, Zenon DEF SignalDone
<1> QED
  BY <1>2, <1>11, <1>12, <1>13, Zenon

(* Tables and counts that grow together, at ends that are open, while a    *)
(* process may be born.                                                    *)
GrownFiles ==
    /\ files' \in Tables
    /\ \A u \in Proc, f \in Fd, e \in End : files[u][f] = e => files'[u][f] = e
    /\ \A u \in Proc : pc'[u] = "unborn" => \A f \in Fd : files'[u][f] = files[u][f]

GrownCounts ==
    /\ refcnt' \in [End -> Nat]
    /\ \A e \in End : refcnt'[e] = Cardinality(RefsOf(files', e))
    /\ \A e \in End : refcnt'[e] = refcnt[e] \/ (refcnt'[e] > 0 /\ open[e])

Born ==
    /\ pc' \in [Proc -> PCs]
    /\ \A u \in Proc : pc'[u] = pc[u] \/ (pc[u] = "unborn" /\ pc'[u] = "run")

LEMMA GrowInv ==
    ASSUME IInv, UNCHANGED <<ring, open, exists, waiters, call, outcome>>,
           GrownFiles, GrownCounts, Born
    PROVE  IInv'
<1> USE Given
<1>1. RingType' /\ CallType' /\ OutType' /\ WaitType'
  BY TypesKept, Zenon DEF WaitType, Born
<1>2. EndsType'
  BY Zenon DEF EndsType, GrownFiles, GrownCounts
<1>3. \A u \in Proc, e \in End : Has(u, e) => Has(u, e)'
  BY DEF Has, GrownFiles
<1>4. UsersHave'
  <2>1. ASSUME NEW u \in Proc, NEW e \in End, pc'[u] = e \/ pc'[u] \in Waiting(e)
        PROVE  Has(u, e)'
    <3>1. pc'[u] # "run"
      BY <2>1, Zenon DEF End, Waiting
    <3>2. pc'[u] = pc[u]
      BY <3>1, Zenon DEF Born
    <3>3. Has(u, e)
      BY <2>1, <3>2, Zenon DEF UsersHave
    <3> QED
      BY <1>3, <3>3, Zenon
  <2>2. ASSUME NEW u \in Proc, pc'[u] = "unborn", NEW f \in Fd
        PROVE  files'[u][f] = "none"
    <3>1. pc[u] = "unborn"
      BY <2>2, Zenon DEF Born
    <3> QED
      BY <2>2, <3>1 DEF UsersHave, GrownFiles
  <2> QED
    BY <2>1, <2>2, Zenon DEF UsersHave
<1>5. QueuesExact'
  <2>1. ASSUME NEW e \in End, NEW u \in Range(waiters[e]) PROVE pc'[u] \in Waiting(e)
    <3>1. waiters[e] \in Seq(Proc)
      BY Zenon DEF WaitType
    <3>2. u \in Proc
      BY <3>1, ElementOfSeq, LenProperties, Zenon DEF Range
    <3>3. pc[u] \in Waiting(e)
      BY Zenon DEF QueuesExact
    <3>4. "unborn" \notin Waiting(e)
      BY Zenon DEF Waiting
    <3> QED
      BY <3>2, <3>3, <3>4, Zenon DEF Born
  <2> QED
    BY <2>1, Zenon DEF QueuesExact
<1>6. WritersData'
  BY Zenon DEF WritersData, Born, call
<1>7. DestroyersClosed'
  BY Zenon DEF DestroyersClosed, Born
<1>8. ReferencesExact'
  <2>1. ASSUME NEW e \in End PROVE refcnt'[e] = Cardinality(Refs(e)')
    BY RefsAreOf, Zenon DEF GrownCounts
  <2>2. ASSUME NEW e \in End PROVE open'[e] <=> refcnt'[e] > 0
    <3>1. open' = open /\ (open[e] <=> refcnt[e] > 0)
      BY Zenon DEF ReferencesExact
    <3>2. refcnt'[e] = refcnt[e] \/ (refcnt'[e] > 0 /\ open[e])
      BY Zenon DEF GrownCounts
    <3> QED
      BY <3>1, <3>2, Zenon
  <2>3. ~exists' => \A e \in End : ~open'[e]
    BY Zenon DEF ReferencesExact
  <2>4. \A u \in Proc : pc'[u] \notin {"unborn", "run"} => exists'
    BY Zenon DEF ReferencesExact, Born
  <2>5. \A u, v \in Proc : pc'[u] = "destroy" /\ pc'[v] = "destroy" => u = v
    <3>1. \A u \in Proc : pc'[u] = "destroy" => pc[u] = "destroy"
      BY Zenon DEF Born
    <3> QED
      BY <3>1, Zenon DEF ReferencesExact
  <2> QED
    BY <2>1, <2>2, <2>3, <2>4, <2>5, Zenon DEF ReferencesExact
<1>9. EofIsFinal'
  BY Zenon DEF EofIsFinal, ring, outcome, Used
<1> QED
  BY <1>1, <1>2, <1>4, <1>5, <1>6, <1>7, <1>8, <1>9, Shown, ZenonT(40)

LEMMA DupInv ==
    ASSUME IInv, NEW t \in Proc, NEW f \in Fd, Dup(t, f)
    PROVE  IInv'
<1> USE Given
<1> DEFINE x == files[t][f]
<1>1. PICK g \in Fd : files[t][g] = "none" /\ files' = [files EXCEPT ![t][g] = x]
  BY ZenonT(40) DEF Dup, FirstFree
<1>2. x \in End /\ x # "none" /\ Has(t, x) /\ files \in Tables
  BY DEF Dup, EndsType, Tables, Has
<1>3. /\ refcnt' = [refcnt EXCEPT ![x] = @ + 1] /\ pc' = pc /\ pc[t] = "run"
      /\ UNCHANGED <<ring, open, exists, waiters, call, outcome>>
  BY Zenon DEF Dup, InUser, Running
<1>4. open[x]
  BY <1>2, HasMeansOpen, ZenonT(40)
<1> HIDE DEF x
<1>5. /\ files' \in Tables
      /\ \A u \in Proc, h \in Fd : files'[u][h] = IF u = t /\ h = g THEN x ELSE files[u][h]
      /\ Cardinality(RefsOf(files', x)) = Cardinality(RefsOf(files, x)) + 1
      /\ \A e : e # x /\ e # "none" => RefsOf(files', e) = RefsOf(files, e)
  <2>1. OneChanged(files, files', t, g, x)
    BY <1>1, <1>2, RefsOfOne, ZenonT(40)
  <2> QED
    BY <1>1, <2>1, Zenon DEF OneChanged
<1>6. refcnt' \in [End -> Nat] /\ \A e \in End : refcnt'[e] = IF e = x THEN refcnt[e] + 1 ELSE refcnt[e]
  BY <1>2, <1>3 DEF EndsType
<1>7. \A e \in End : refcnt[e] \in Nat /\ refcnt[e] = Cardinality(RefsOf(files, e))
  BY RefsAreOf, Zenon DEF ReferencesExact, EndsType
<1>8. \A e \in End : e # "none"
  BY Zenon DEF End
<1>9. ASSUME NEW e \in End PROVE refcnt'[e] = Cardinality(RefsOf(files', e))
  BY <1>5, <1>6, <1>7, <1>8, Zenon
<1>10. \A e \in End : refcnt'[e] = refcnt[e] \/ (refcnt'[e] > 0 /\ open[e])
  <2> SUFFICES ASSUME NEW e \in End PROVE refcnt'[e] = refcnt[e] \/ (refcnt'[e] > 0 /\ open[e])
    BY Zenon
  <2>1. CASE e = x
    <3>1. refcnt'[e] = refcnt[e] + 1 /\ refcnt[e] \in Nat
      BY <1>6, <1>7, <2>1, Zenon
    <3>2. refcnt'[e] > 0
      BY <3>1
    <3> QED
      BY <1>4, <2>1, <3>2, Zenon
  <2>2. CASE e # x
    BY <1>6, <2>2, Zenon
  <2> QED
    BY <2>1, <2>2, Zenon
<1>11. \A u \in Proc, h \in Fd, e \in End : files[u][h] = e => files'[u][h] = e
  BY <1>1, <1>5, <1>8
<1>12. \A u \in Proc : pc'[u] = "unborn" => \A h \in Fd : files'[u][h] = files[u][h]
  BY <1>3, <1>5, Zenon
<1>13. pc' \in [Proc -> PCs] /\ \A u \in Proc : pc'[u] = pc[u]
  BY <1>3, Zenon DEF WaitType
<1>14. GrownFiles
  BY <1>5, <1>11, <1>12, Zenon DEF GrownFiles
<1>15. GrownCounts
  BY <1>6, <1>9, <1>10, Zenon DEF GrownCounts
<1>16. Born
  BY <1>13, Zenon DEF Born
<1> QED
  BY <1>3, <1>14, <1>15, <1>16, GrowInv, ZenonT(40)

LEMMA ForkInv ==
    ASSUME IInv, NEW t \in Proc, NEW u \in Proc, Fork(t, u)
    PROVE  IInv'
<1> USE Given
<1> DEFINE N(e) == Cardinality({f \in Fd : files[t][f] = e})
<1>1. /\ pc[u] = "unborn" /\ files' = [files EXCEPT ![u] = files[t]]
      /\ refcnt' = [e \in End |-> refcnt[e] + N(e)]
      /\ pc' = [pc EXCEPT ![u] = "run"]
      /\ UNCHANGED <<ring, open, exists, waiters, call, outcome>>
  BY Zenon DEF Fork
<1>2. files \in Tables /\ \A f \in Fd : files[u][f] = "none"
  BY <1>1, Zenon DEF UsersHave, EndsType
<1>3. ASSUME NEW e \in End
      PROVE  /\ files' \in Tables
             /\ \A v \in Proc, f \in Fd : files'[v][f] = IF v = u THEN files[t][f] ELSE files[v][f]
             /\ N(e) \in Nat
             /\ N(e) > 0 => Has(t, e)
             /\ Cardinality(RefsOf(files', e)) = Cardinality(RefsOf(files, e)) + N(e)
  <2>1. Copied(files, files', t, u, e)
    BY <1>1, <1>2, RefsOfCopy, Zenon
  <2> QED
    BY <2>1, Zenon DEF Copied, Has
<1> HIDE DEF N
<1>4. \A e \in End : refcnt[e] \in Nat /\ refcnt[e] = Cardinality(RefsOf(files, e))
  BY RefsAreOf, Zenon DEF ReferencesExact, EndsType
<1>5. refcnt' \in [End -> Nat] /\ \A e \in End : refcnt'[e] = refcnt[e] + N(e)
  BY <1>1, <1>3, <1>4
<1>6. \A e \in End : refcnt'[e] = Cardinality(RefsOf(files', e))
  BY <1>3, <1>4, <1>5, Zenon
<1>7. ASSUME NEW e \in End PROVE refcnt'[e] = refcnt[e] \/ (refcnt'[e] > 0 /\ open[e])
  <2>1. CASE N(e) = 0
    BY <1>4, <1>5, <2>1
  <2>2. CASE N(e) > 0
    <3>1. Has(t, e)
      BY <1>3, <2>2, Zenon
    <3>2. open[e] /\ refcnt[e] > 0
      BY <3>1, HasMeansOpen, Zenon
    <3>3. refcnt'[e] = refcnt[e] + N(e) /\ refcnt[e] \in Nat /\ N(e) \in Nat
      BY <1>3, <1>4, <1>5, Zenon
    <3> QED
      BY <3>2, <3>3
  <2>3. N(e) = 0 \/ N(e) > 0
    <3>1. N(e) \in Nat
      BY <1>3, Zenon
    <3> QED
      BY <3>1
  <2> QED
    BY <2>1, <2>2, <2>3, Zenon
<1>8. "read" \in End /\ "none" \notin End
  BY Zenon DEF End
<1>9. /\ files' \in Tables
      /\ \A v \in Proc, f \in Fd, e \in End : files[v][f] = e => files'[v][f] = e
      /\ \A v \in Proc : v # u => \A f \in Fd : files'[v][f] = files[v][f]
  BY <1>2, <1>3, <1>8, Zenon
<1>10. pc' \in [Proc -> PCs] /\ \A v \in Proc : pc'[v] = IF v = u THEN "run" ELSE pc[v]
  BY <1>1, Zenon DEF WaitType, PCs
<1>11. GrownFiles
  BY <1>9, <1>10, Zenon DEF GrownFiles
<1>12. GrownCounts
  BY <1>5, <1>6, <1>7, Zenon DEF GrownCounts
<1>13. Born
  BY <1>1, <1>10, Zenon DEF Born
<1> QED
  BY <1>1, <1>11, <1>12, <1>13, GrowInv, ZenonT(40)


(* A close leaves the end open or closed as the count says, and the thread *)
(* that closed both ends destroys the pipe.                                *)
LEMMA CloseInv ==
    ASSUME IInv, NEW t \in Proc, NEW f \in Fd, Close(t, f)
    PROVE  IInv'
<1> USE Given
<1> DEFINE e == files[t][f]
           other == IF e = "read" THEN "write" ELSE "read"
           last == refcnt[e] = 1
           point == IF last /\ ~open[other] THEN "destroy" ELSE "run"
<1>1. e \in End /\ e # "none" /\ Has(t, e) /\ files \in Tables
  BY DEF Close, EndsType, Tables, Has
<1>2. /\ pc[t] = "run"
      /\ files' = [files EXCEPT ![t][f] = "none"]
      /\ refcnt' = [refcnt EXCEPT ![e] = @ - 1]
      /\ open' = [open EXCEPT ![e] = ~last]
      /\ last => Signal(other, t, IF open[other] THEN "run" ELSE "destroy", waiters)
      /\ ~last => UNCHANGED <<pc, waiters>>
      /\ UNCHANGED <<ring, exists, call, outcome>>
  BY Zenon DEF Close, Running
<1>3. open[e] /\ exists
  <2>1. open[e]
    BY <1>1, HasMeansOpen, ZenonT(40)
  <2> QED
    BY <1>1, <2>1, ZenonT(40) DEF ReferencesExact
<1>4. OneChanged(files, files', t, f, "none")
  BY <1>1, <1>2, RefsOfOne, Zenon
<1>5. other \in End /\ other # e /\ \A x \in End : x = e \/ x = other
  BY <1>1, Zenon DEF End
<1> HIDE DEF e, other, point
<1>6. point \in {"run", "destroy"} /\ (point = "destroy" <=> last /\ ~open[other])
  BY Zenon DEF point
<1>7. SignalDone(other, t, point)
  <2>1. CASE last
    <3>1. point = IF open[other] THEN "run" ELSE "destroy"
      BY <2>1, Zenon DEF point
    <3>2. SignalReady(other, t, point, waiters)
      <4>1. ASSUME NEW x \in End, NEW u \in Range(waiters[x]) PROVE u # t /\ pc[u] \in Waiting(x)
        BY <1>2, Zenon DEF QueuesExact, Waiting
      <4> QED
        BY <1>5, <1>6, <4>1, Zenon DEF SignalReady, WaitType, QueuesExact, PCs
    <3> QED
      BY <1>2, <2>1, <3>1, <3>2, SignalPoints, ZenonT(40)
  <2>2. CASE ~last
    <3>1. UNCHANGED <<pc, waiters>> /\ point = "run"
      BY <1>2, <2>2, Zenon DEF point
    <3> QED
      BY <1>2, <3>1, Zenon DEF SignalDone, WaitType, QueuesExact
  <2> QED
    BY <2>1, <2>2, Zenon
<1>8. /\ WaitType' /\ QueuesExact' /\ pc'[t] = point
      /\ \A u \in Proc : u # t => pc'[u] = pc[u] \/ (pc'[u] = other /\ pc[u] \in Waiting(other))
  BY <1>7, Zenon DEF SignalDone
<1>9. /\ files' \in Tables
      /\ \A u \in Proc, g \in Fd : u # t => files'[u][g] = files[u][g]
      /\ Cardinality(RefsOf(files', e)) = Cardinality(RefsOf(files, e)) - 1
      /\ \A x \in End : x # e => RefsOf(files', x) = RefsOf(files, x)
  <2>1. "none" \notin End
    BY Zenon DEF End
  <2> QED
    BY <1>4, <2>1, Zenon DEF OneChanged, e
<1>10. \A x \in End : refcnt[x] \in Nat /\ refcnt[x] = Cardinality(RefsOf(files, x))
  BY RefsAreOf, Zenon DEF ReferencesExact, EndsType
<1>11. refcnt[e] > 0
  BY <1>1, <1>3, Zenon DEF ReferencesExact
<1>12. /\ refcnt' \in [End -> Nat]
       /\ \A x \in End : refcnt'[x] = IF x = e THEN refcnt[e] - 1 ELSE refcnt[x]
  <2>1. refcnt \in [End -> Nat]
    BY Zenon DEF EndsType
  <2> QED
    BY <1>1, <1>2, <1>11, <2>1
<1>13. open' \in [End -> BOOLEAN] /\ \A x \in End : open'[x] = IF x = e THEN ~last ELSE open[x]
  <2>1. open \in [End -> BOOLEAN]
    BY Zenon DEF EndsType
  <2> QED
    BY <1>1, <1>2, <2>1, Zenon
<1>14. RingType' /\ CallType' /\ OutType'
  BY <1>2, TypesKept, Zenon
<1>15. EndsType'
  BY <1>2, <1>9, <1>12, <1>13, Zenon DEF EndsType
<1>16. UsersHave'
  <2>1. \A u \in Proc, x \in End : u # t => (Has(u, x)' <=> Has(u, x))
    BY <1>9, Zenon DEF Has
  <2>2. ASSUME NEW u \in Proc, NEW x \in End, pc'[u] = x \/ pc'[u] \in Waiting(x)
        PROVE  Has(u, x)'
    <3>1. u # t
      BY <1>6, <1>8, <2>2, Zenon DEF End, Waiting
    <3>2. CASE pc'[u] = pc[u]
      BY <2>1, <2>2, <3>1, <3>2, Zenon DEF UsersHave
    <3>3. CASE pc'[u] = other /\ pc[u] \in Waiting(other)
      <4>1. x = other
        BY <1>5, <2>2, <3>3, Zenon DEF End, Waiting
      <4> QED
        BY <1>5, <2>1, <3>1, <3>3, <4>1, Zenon DEF UsersHave
    <3> QED
      BY <1>8, <3>1, <3>2, <3>3, Zenon
  <2>3. ASSUME NEW u \in Proc, pc'[u] = "unborn" PROVE \A g \in Fd : files'[u][g] = "none"
    <3>1. u # t /\ pc[u] = "unborn"
      BY <1>5, <1>6, <1>8, <2>3, Zenon DEF End
    <3> QED
      BY <1>9, <3>1, ZenonT(40) DEF UsersHave
  <2> QED
    BY <2>2, <2>3, Zenon DEF UsersHave
<1>17. WritersData'
  <2>1. data' = data
    BY <1>2, Zenon DEF call
  <2>2. ASSUME NEW u \in Proc, pc'[u] \notin {"write", "wpre", "wsleep"} PROVE data[u] = <<>>
    <3>1. pc[u] \notin {"write", "wpre", "wsleep"}
      BY <1>2, <1>5, <1>8, <2>2, Zenon DEF End, Waiting
    <3> QED
      BY <3>1, Zenon DEF WritersData
  <2> QED
    BY <2>1, <2>2, Zenon DEF WritersData
<1>18. \A u \in Proc : pc'[u] = "destroy" => u = t
  BY <1>1, <1>3, <1>5, <1>8, Zenon DEF DestroyersClosed, End
<1>19. DestroyersClosed'
  <2>1. ASSUME NEW u \in Proc, pc'[u] = "destroy" PROVE exists' /\ \A x \in End : ~open'[x]
    <3>1. last /\ ~open[other] /\ exists'
      BY <1>2, <1>3, <1>6, <1>8, <1>18, <2>1, ZenonT(40)
    <3> QED
      BY <1>5, <1>13, <3>1, Zenon
  <2> QED
    BY <2>1, Zenon DEF DestroyersClosed
<1>20. ReferencesExact'
  <2>1. ASSUME NEW x \in End PROVE refcnt'[x] = Cardinality(Refs(x)')
    BY <1>9, <1>10, <1>12, RefsAreOf, Zenon
  <2>2. ASSUME NEW x \in End PROVE open'[x] <=> refcnt'[x] > 0
    <3>1. CASE x = e
      BY <1>1, <1>10, <1>11, <1>12, <1>13, <3>1
    <3>2. CASE x # e
      <4>1. open'[x] = open[x] /\ refcnt'[x] = refcnt[x]
        BY <1>12, <1>13, <3>2, Zenon
      <4> QED
        BY <4>1, Zenon DEF ReferencesExact
    <3> QED
      BY <3>1, <3>2, Zenon
  <2>3. exists'
    BY <1>2, <1>3, Zenon
  <2>4. \A u, v \in Proc : pc'[u] = "destroy" /\ pc'[v] = "destroy" => u = v
    BY <1>18, Zenon
  <2> QED
    BY <2>1, <2>2, <2>3, <2>4, ZenonT(40) DEF ReferencesExact
<1>21. EofIsFinal'
  <2>1. eof' = eof /\ Used' = Used
    BY <1>2, Zenon DEF ring, outcome, Used
  <2>2. ASSUME eof PROVE ~open'["write"]
    <3>1. ~open["write"] /\ "write" \in End
      BY <2>2, Zenon DEF EofIsFinal, End
    <3> QED
      BY <1>3, <1>13, <3>1, Zenon
  <2> QED
    BY <2>1, <2>2, Zenon DEF EofIsFinal
<1> QED
  BY <1>8, <1>14, <1>15, <1>16, <1>17, <1>19, <1>20, <1>21, Shown, ZenonT(40)

LEMMA DestroyInv ==
    ASSUME IInv, NEW t \in Proc, Destroy(t)
    PROVE  IInv'
<1> USE Given
<1>1. /\ pc[t] = "destroy" /\ exists' = FALSE /\ pc' = [pc EXCEPT ![t] = "run"]
      /\ UNCHANGED <<ring, open, refcnt, files, waiters, call, outcome>>
  BY Zenon DEF Destroy
<1>2. pc' \in [Proc -> PCs] /\ \A u \in Proc : pc'[u] = IF u = t THEN "run" ELSE pc[u]
  BY <1>1, Zenon DEF WaitType, PCs
<1>3. RingType' /\ CallType' /\ OutType' /\ WaitType' /\ EndsType'
  BY <1>1, <1>2, TypesKept, Zenon DEF WaitType, EndsType
<1>4. \A e \in End : ~open[e] /\ ~open'[e]
  BY <1>1, Zenon DEF DestroyersClosed
<1>5. \A u \in Proc, e \in End : ~Has(u, e)
  BY <1>4, HasMeansOpen, Zenon
<1>6. \A u \in Proc : pc[u] \in {"unborn", "run", "destroy"}
  BY <1>5, Zenon DEF UsersHave, WaitType, PCs, End, Waiting
<1>7. \A u \in Proc : u # t => pc'[u] = pc[u] /\ pc[u] \in {"unborn", "run"}
  BY <1>1, <1>2, <1>6, Zenon DEF ReferencesExact
<1>8. UsersHave' /\ DestroyersClosed' /\ WritersData' /\ QueuesExact'
  <2>1. UsersHave'
    BY <1>1, <1>2, <1>7, Zenon DEF UsersHave, End, Waiting
  <2>2. DestroyersClosed'
    BY <1>2, <1>7, Zenon DEF DestroyersClosed
  <2>3. WritersData'
    BY <1>1, <1>2, <1>7, Zenon DEF WritersData, call
  <2>4. ASSUME NEW e \in End, NEW u \in Range(waiters[e]) PROVE FALSE
    <3>1. u \in Proc /\ pc[u] \in Waiting(e)
      BY DEF QueuesExact, Range, WaitType
    <3> QED
      BY <1>6, <3>1, Zenon DEF Waiting
  <2>5. QueuesExact'
    BY <1>1, <2>4, Zenon DEF QueuesExact
  <2> QED
    BY <2>1, <2>2, <2>3, <2>5, Zenon
<1>9. ReferencesExact'
  <2>1. \A e \in End : refcnt'[e] = Cardinality(Refs(e)') /\ (open'[e] <=> refcnt'[e] > 0)
    BY <1>1, RefsAreOf, Zenon DEF ReferencesExact
  <2>2. \A u \in Proc : pc'[u] \in {"unborn", "run"}
    BY <1>2, <1>7, Zenon
  <2> QED
    BY <1>4, <2>1, <2>2, Zenon DEF ReferencesExact
<1>10. EofIsFinal'
  BY <1>1, Zenon DEF EofIsFinal, ring, outcome, Used
<1> QED
  BY <1>3, <1>8, <1>9, <1>10, Shown, ZenonT(40)


LEMMA StepInv == IInv /\ [Next]_vars => IInv'
<1> SUFFICES ASSUME IInv, [Next]_vars PROVE IInv'
  BY Zenon
<1>1. CASE UNCHANGED vars
  <2>1. UNCHANGED <<ring, ends, waiters, pc, call, out, eof, killed>> /\ halted' = halted
    BY <1>1, Zenon DEF vars, outcome
  <2>2. halted' \in BOOLEAN
    BY <2>1, Given, Zenon DEF OutType
  <2> QED
    BY <2>1, <2>2, PanicInv, Zenon
<1>2. ASSUME NEW t \in Proc, Continue(t) PROVE IInv'
  <2>1. CASE WritePanic(t)
    BY <2>1, PanicInv, Zenon DEF WritePanic
  <2>2. CASE CloseAll(t)
    BY <2>2, CloseInv, Zenon DEF CloseAll
  <2> QED
    BY <1>2, <2>1, <2>2, SleepInv, WriteSectionInv, ReadSectionInv, DestroyInv, ZenonT(40) DEF Continue
<1>3. ASSUME NEW t \in Proc, Start(t) PROVE IInv'
  BY <1>3, BeginWriteInv, BeginReadInv, DupInv, CloseInv, ForkInv, ZenonT(40) DEF Start
<1> QED
  BY <1>1, <1>2, <1>3, Zenon DEF Next

(* The creator's two descriptors are all there are.                        *)
LEMMA InitRefs ==
    ASSUME Init, NEW e \in End
    PROVE  Refs(e) = {<<Creator, IF e = "read" THEN 0 ELSE 1>>}
<1> DEFINE g == IF e = "read" THEN 0 ELSE 1
<1>1. Creator \in Proc /\ 0 \in Fd /\ 1 \in Fd /\ Fd \subseteq Nat
  BY PipeAssumption DEF Fd
<1>2. \A t \in Proc, f \in Fd : files[t][f] = e <=> t = Creator /\ f = g
  BY <1>1 DEF Init, End
<1>3. g \in Fd
  BY <1>1, Zenon
<1> HIDE DEF g
<1>4. Refs(e) = {<<Creator, g>>}
  <2>1. ASSUME NEW p \in Refs(e) PROVE p = <<Creator, g>>
    <3>1. PICK t \in Proc, f \in Fd : p = <<t, f>> /\ files[t][f] = e
      BY DEF Refs
    <3> QED
      BY <1>2, <3>1, Zenon
  <2>2. <<Creator, g>> \in Refs(e)
    BY <1>1, <1>2, <1>3, Zenon DEF Refs
  <2> QED
    BY <2>1, <2>2, Zenon
<1> QED
  BY <1>4, Zenon DEF g

LEMMA InitInv == Init => IInv
<1> SUFFICES ASSUME Init PROVE IInv
  BY Zenon
<1> USE PipeAssumption
<1>1. RingType
  BY PipeSize DEF Init, RingType, Used
<1>2. EndsType
  <2>1. files \in Tables
    BY Zenon DEF Init, Tables, End
  <2> QED
    BY <2>1, Zenon DEF Init, EndsType, End
<1>3. WaitType
  BY DEF Init, WaitType, PCs
<1>4. CallType
  BY DEF Init, CallType
<1>5. OutType
  <2>1. out \in Seq(Byte)
    BY DEF Init
  <2>2. eof \in BOOLEAN /\ halted \in BOOLEAN /\ killed \subseteq Proc
    BY Zenon DEF Init
  <2> QED
    BY <2>1, <2>2, Zenon DEF OutType
<1>6. \A t \in Proc : pc[t] \in {"run", "unborn"} /\ (pc[t] = "unborn" => t # Creator)
  BY Zenon DEF Init
<1>7. QueuesExact
  BY DEF Init, QueuesExact, IsInjective, Range
<1>8. UsersHave
  <2>1. \A t \in Proc : pc[t] = "unborn" => \A f \in Fd : files[t][f] = "none"
    BY <1>6, Zenon DEF Init
  <2> QED
    BY <1>6, <2>1, Zenon DEF UsersHave, End, Waiting
<1>9. WritersData /\ DestroyersClosed
  BY <1>6, Zenon DEF Init, WritersData, DestroyersClosed
<1>10. ReferencesExact
  <2>1. ASSUME NEW e \in End PROVE refcnt[e] = Cardinality(Refs(e))
    BY InitRefs, FS_Singleton, Zenon DEF Init
  <2>2. \A e \in End : open[e] /\ refcnt[e] = 1
    BY Zenon DEF Init
  <2>3. exists
    BY Zenon DEF Init
  <2> QED
    BY <1>6, <2>1, <2>2, <2>3 DEF ReferencesExact
<1>11. EofIsFinal
  BY Zenon DEF Init, EofIsFinal
<1> QED
  BY <1>1, <1>2, <1>3, <1>4, <1>5, <1>7, <1>8, <1>9, <1>10, <1>11, TypeParts, ZenonT(40) DEF IInv, Points

(* The invariant holds however the processes use the pipe.                 *)
THEOREM Invariance == Spec => []IInv
BY InitInv, StepInv, PTL DEF Spec

(* However reads, writes, dups, forks and closes interleave, the counts    *)
(* that Pipe::ref_read, ref_write, close_read and close_write keep are the *)
(* descriptors that exist; close_kind destroys the pipe once, and never    *)
(* under a thread that is still inside an operation on it.                 *)
THEOREM CountsExact == Spec => []ReferencesExact
BY Invariance, PTL DEF IInv

(* Once Pipe::read has returned end of file no byte enters the pipe again. *)
THEOREM EndOfFileIsFinal == Spec => []EofIsFinal
BY Invariance, PTL DEF IInv


-----------------------------------------------------------------------------
(* The channel                                                             *)

(* The bytes in the ring, which are the queue of the channel.              *)
Bytes == Segment(buf, PIPE_SIZE, nread, nwrite)

LEMMA BytesAre ==
    /\ Bytes = [i \in 1..Used |-> buf[(nread + i - 1) % PIPE_SIZE]]
    /\ Bytes' = [i \in 1..Used' |-> buf'[(nread' + i - 1) % PIPE_SIZE]]
BY Zenon DEF Bytes, Segment, Used

LEMMA BytesType ==
    ASSUME TypeOK
    PROVE  Bytes \in Seq(Byte) /\ Len(Bytes) = Used /\ Used \in 0..PIPE_SIZE
<1>1. Bytes \in Seq(Byte) /\ Len(Bytes) = nwrite - nread
  BY BufIsRing, PipeSize, SegmentType, Zenon DEF Bytes
<1> QED
  BY <1>1, Zenon DEF Used, TypeOK

(* What a write copies in follows what is in the ring.                     *)
LEMMA WriteAppends ==
    ASSUME TypeOK, NEW t \in Proc, NEW n \in Nat, n <= Len(data[t]), Used + n <= PIPE_SIZE,
           data[t] \in Seq(Byte), buf' = CopyIn(data[t], n), nwrite' = nwrite + n, nread' = nread
    PROVE  Bytes' = Bytes \o SubSeq(data[t], 1, n)
<1> DEFINE s == SubSeq(data[t], 1, n)
<1>1. n \in 0..Len(data[t])
  OBVIOUS
<1>2. s \in [1..n -> Byte] /\ \A k \in 1..n : s[k] = data[t][k]
  BY <1>1, Pieces, Zenon
<1> HIDE DEF s
<1>3. /\ buf \in Ring(PIPE_SIZE, Byte) /\ nread \in Nat /\ nwrite \in Nat /\ nread <= nwrite
      /\ nwrite + n <= nread + PIPE_SIZE /\ nread \in nread..nwrite
  BY BufIsRing, PipeAssumption DEF Used
<1>4. PutAt(buf, PIPE_SIZE, nwrite, s, n) = PutAt(buf, PIPE_SIZE, nwrite, data[t], n)
  <2>1. SameUpTo(s, data[t], n)
    BY <1>2, Zenon DEF SameUpTo
  <2> QED
    BY <1>3, <2>1, PipeSize, PutAtSame
<1>5. \A i \in nread..nwrite : Segment(PutAt(buf, PIPE_SIZE, nwrite, s, n), PIPE_SIZE, i, nwrite + n)
                                = Segment(buf, PIPE_SIZE, i, nwrite) \o s
  <2>1. PutFollows(buf, PIPE_SIZE, nread, nwrite, s, n)
    BY <1>2, <1>3, PipeSize, SegmentPut, Zenon
  <2> QED
    BY <2>1, Zenon DEF PutFollows
<1>6. buf' = PutAt(buf, PIPE_SIZE, nwrite, s, n)
  BY <1>4, BufIsRing, Zenon
<1>7. Bytes' = Segment(PutAt(buf, PIPE_SIZE, nwrite, s, n), PIPE_SIZE, nread, nwrite + n)
  BY <1>6, Zenon DEF Bytes
<1> QED
  BY <1>3, <1>5, <1>7, Zenon DEF Bytes, s

LEMMA WriteRefines ==
    ASSUME IInv, NEW t \in Proc, WriteSection(t)
    PROVE  C!Send(t) \/ C!SendLast(t) \/ (UNCHANGED data /\ Bytes' = Bytes /\ out' = out)
<1> USE Given
<1> DEFINE d == data[t]
           n == Min({Len(d), PIPE_SIZE - Used})
           rest == SubSeq(d, n + 1, Len(d))
<1>1. /\ ~Overflows(t) /\ buf' = CopyIn(d, n) /\ nwrite' = nwrite + n
      /\ nread' = nread /\ out' = out
  BY Zenon DEF WriteSection
<1>2. /\ n \in Nat /\ n <= Len(d) /\ Used + n <= PIPE_SIZE
      /\ n = Len(d) \/ Used + n = PIPE_SIZE
      /\ d \in Seq(Byte) /\ Used \in Nat
  BY <1>1, WriteAmount, Zenon
<1>3. \/ rest = <<>> /\ data' = [data EXCEPT ![t] = <<>>]
      \/ rest # <<>> /\ data' = [data EXCEPT ![t] = <<>>]
      \/ rest # <<>> /\ data' = [data EXCEPT ![t] = rest]
  BY Zenon DEF WriteSection
<1> HIDE DEF n
<1>4. n \in 0..Len(d) /\ Len(d) \in Nat
  BY <1>2
<1>5. /\ SubSeq(d, 1, n) \in [1..n -> Byte]
      /\ rest = <<>> <=> n = Len(d)
      /\ n = 0 => rest = d
  BY <1>2, <1>4, Pieces, Zenon
<1>6. Bytes' = Bytes \o SubSeq(d, 1, n)
  BY <1>1, <1>2, WriteAppends, Zenon
<1>7. Bytes \in Seq(Byte) /\ Len(Bytes) = Used
  BY BytesType, Zenon
<1> HIDE DEF d, rest
<1>8. CASE data' = [data EXCEPT ![t] = rest]
  <2>1. CASE n > 0
    <3>1. n \in 1..Len(data[t]) /\ Len(Bytes) + n <= PIPE_SIZE
      BY <1>2, <1>4, <1>7, <2>1 DEF d
    <3>2. data' = [data EXCEPT ![t] = SubSeq(@, n + 1, Len(@))]
      BY <1>8, Zenon DEF rest, d
    <3> QED
      BY <1>1, <1>6, <3>1, <3>2, BytesAre, Zenon DEF d, C!Send
  <2>2. CASE n = 0
    <3>1. data' = data
      BY <1>5, <1>8, <2>2, Zenon DEF d, CallType
    <3>2. Bytes' = Bytes
      BY <1>5, <1>6, <1>7, <2>2
    <3> QED
      BY <1>1, <3>1, <3>2, Zenon
  <2> QED
    BY <1>2, <2>1, <2>2
<1>9. CASE rest # <<>> /\ data' = [data EXCEPT ![t] = <<>>]
  <2>1. n \in 0..Len(data[t]) /\ Len(Bytes) + n = PIPE_SIZE
    BY <1>2, <1>4, <1>5, <1>7, <1>9, ZenonT(40) DEF d
  <2> QED
    BY <1>1, <1>6, <1>9, <2>1, BytesAre, ZenonT(40) DEF d, C!SendLast
<1> QED
  BY <1>3, <1>8, <1>9, Zenon

LEMMA ReadRefines ==
    ASSUME IInv, NEW t \in Proc, ReadSection(t)
    PROVE  C!Receive \/ (UNCHANGED data /\ Bytes' = Bytes /\ out' = out)
<1> USE Given
<1> DEFINE n == Min({want[t], Used})
<1>1. data' = data /\ buf' = buf /\ nwrite' = nwrite
  BY Zenon DEF ReadSection
<1>2. CASE nread' = nread /\ out' = out
  BY <1>1, <1>2, Zenon DEF Bytes
<1>3. CASE /\ Used > 0 /\ nread' = nread + n
           /\ out' = [i \in 1..n |-> buf[(nread + i - 1) % PIPE_SIZE]]
  <2>1. want[t] \in Int /\ want[t] >= 0 /\ Used \in Int
    BY BytesType, PipeAssumption DEF CallType
  <2>2. n \in 0..Used
    <3> DEFINE a == want[t]
    <3>1. a \in Int /\ Used \in Int /\ a >= 0 /\ n = Min({a, Used})
      BY <2>1, Zenon
    <3> HIDE DEF a, n
    <3>2. (n = a \/ n = Used) /\ n <= a /\ n <= Used
      BY <3>1, MinOfTwo, Zenon
    <3> QED
      BY <1>3, <3>1, <3>2
  <2> HIDE DEF n
  <2>3. nread \in Nat /\ nwrite \in Nat /\ Used = nwrite - nread /\ nread + n \in nread..nwrite
    BY <2>2, BufIsRing DEF Used
  <2>4. /\ Segment(buf, PIPE_SIZE, nread, nread + n) = SubSeq(Bytes, 1, (nread + n) - nread)
        /\ Segment(buf, PIPE_SIZE, nread + n, nwrite)
             = SubSeq(Bytes, (nread + n) - nread + 1, nwrite - nread)
    <3>1. buf \in Ring(PIPE_SIZE, Byte)
      BY BufIsRing, Zenon
    <3>2. \A i, j \in Nat : \A l \in i..j :
             Segment(buf, PIPE_SIZE, i, l) = SubSeq(Segment(buf, PIPE_SIZE, i, j), 1, l - i)
      BY <3>1, PipeSize, SegmentPrefix
    <3>3. \A i, j \in Nat : \A l \in i..j :
             Segment(buf, PIPE_SIZE, l, j)
               = SubSeq(Segment(buf, PIPE_SIZE, i, j), l - i + 1, j - i)
      BY <3>1, PipeSize, SegmentSuffix, Zenon
    <3> QED
      BY <2>3, <3>2, <3>3, Zenon DEF Bytes
  <2>5. (nread + n) - nread = n /\ Len(Bytes) = nwrite - nread
    BY <2>2, <2>3, BytesType
  <2>6. out' = Segment(buf, PIPE_SIZE, nread, nread + n)
    BY <1>3, <2>5, Zenon DEF Segment
  <2>7. Bytes' = Segment(buf, PIPE_SIZE, nread + n, nwrite)
    BY <1>1, <1>3, Zenon DEF Bytes
  <2>8. n \in 0..Len(Bytes) /\ out' = SubSeq(Bytes, 1, n) /\ Bytes' = SubSeq(Bytes, n + 1, Len(Bytes))
    BY <2>2, <2>3, <2>4, <2>5, <2>6, <2>7, ZenonT(40)
  <2> QED
    BY <1>1, <2>8, BytesAre, Zenon DEF C!Receive
<1> QED
  BY <1>2, <1>3, Zenon DEF ReadSection

LEMMA StepRefines ==
    ASSUME IInv, [Next]_vars
    PROVE  C!Next \/ (UNCHANGED data /\ Bytes' = Bytes /\ out' = out)
<1>1. ASSUME UNCHANGED <<ring, call, out>> PROVE UNCHANGED data /\ Bytes' = Bytes /\ out' = out
  BY <1>1, Zenon DEF ring, call, Bytes
<1>2. CASE UNCHANGED vars
  BY <1>1, <1>2, Zenon DEF vars, outcome
<1>3. ASSUME NEW t \in Proc, Continue(t)
      PROVE  C!Next \/ (UNCHANGED data /\ Bytes' = Bytes /\ out' = out)
  <2>1. CASE WriteSection(t)
    BY <2>1, WriteRefines, Zenon DEF C!Next
  <2>2. CASE ReadSection(t)
    BY <2>2, ReadRefines, Zenon DEF C!Next
  <2>3. CASE Sleep(t) \/ WritePanic(t) \/ CloseAll(t) \/ Destroy(t)
    BY <1>1, <2>3, Zenon DEF Sleep, WritePanic, CloseAll, Close, Destroy, outcome
  <2> QED
    BY <1>3, <2>1, <2>2, <2>3, Zenon DEF Continue
<1>4. ASSUME NEW t \in Proc, NEW b \in Inputs, BeginWrite(t, b) PROVE C!Next
  <2>1. data[t] = <<>> /\ b \in Seq(Byte) /\ data \in [Proc -> Seq(Byte)]
    <3>1. pc[t] = "run"
      BY <1>4, Zenon DEF BeginWrite, InUser, Running
    <3>2. b \in Seq(Byte)
      BY DEF Inputs
    <3> QED
      BY <3>1, <3>2, Given, ZenonT(40) DEF WritersData, CallType
  <2>2. data' = [data EXCEPT ![t] = b] /\ UNCHANGED <<ring, out>>
    BY <1>4, Zenon DEF BeginWrite, outcome
  <2>3. data'[t] = b
    BY <2>1, <2>2, Zenon
  <2>4. Bytes' = Bytes
    BY <2>2, Zenon DEF ring, Bytes
  <2> QED
    BY <2>1, <2>2, <2>3, <2>4, BytesAre, ZenonT(40) DEF C!Next, C!Begin
<1>5. ASSUME NEW t \in Proc, Start(t)
      PROVE  C!Next \/ (UNCHANGED data /\ Bytes' = Bytes /\ out' = out)
  <2>1. CASE \E n \in 0..MaxLen : BeginRead(t, n)
    BY <2>1, Zenon DEF BeginRead, ring, outcome, Bytes
  <2>2. CASE \E f \in Fd : Dup(t, f) \/ Close(t, f)
    BY <1>1, <2>2, Zenon DEF Dup, Close, outcome
  <2>3. CASE \E u \in Proc : Fork(t, u)
    BY <1>1, <2>3, Zenon DEF Fork, outcome
  <2> QED
    BY <1>4, <1>5, <2>1, <2>2, <2>3, Zenon DEF Start
<1> QED
  BY <1>2, <1>3, <1>5, Zenon DEF Next

(* The ring, its waits and its wake-ups implement Channel: readers get the *)
(* bytes of each write once and in order, and bytes are dropped only by a  *)
(* write that finds the reading end closed.                                *)
THEOREM RingIsChannel == Spec => ImplementsChannel
<1> DEFINE Q == [i \in 1..Used |-> buf[(nread + i - 1) % PIPE_SIZE]]
<1>1. Init => C!Init
  <2>1. Init => Bytes = <<>>
    BY SegmentEmpty DEF Init, Bytes
  <2> QED
    BY <2>1, BytesAre, Zenon DEF Init, C!Init
<1>2. IInv /\ [Next]_vars => [C!Next]_<<Q, data, out>>
  BY StepRefines, BytesAre, Zenon
<1> QED
  BY <1>1, <1>2, Invariance, PTL DEF Spec, ImplementsChannel, C!Spec

=============================================================================
