----------------------------- MODULE BioProofs -----------------------------
(* The buffer cache, for every number of threads, sectors and buffers:     *)
(* one valid buffer per sector, exact reference counts, write-through, no  *)
(* panic while there are no more threads than buffers, and the cache seen  *)
(* as a store of sectors.                                                  *)
EXTENDS Bio, FiniteSetTheorems, WellFoundedInduction, TLAPS

Valid(b) == "valid" \in flags[b]

\* Two valid buffers have different sectors.
UniqueValid ==
    \A b, c \in Buf : Valid(b) /\ Valid(c) /\ sector[b] = sector[c] => b = c

\* A miss between its eviction and the disk's answer.
Loading ==
    \A t \in Thread : pc[t] = "load" =>
        /\ lock = {t} /\ ~Valid(buf[t])
        /\ \A b \in Buf : Valid(b) => sector[b] # sector[buf[t]]

Holding == \A t \in Thread : pc[t] \in {"hold", "dirty"} => Valid(buf[t])

Saved == \A t \in Thread : pc[t] # "dirty" => part[t] = {}

Counted == \A b \in Buf : refcnt[b] = Cardinality(Holders(b))

(* The inductive invariant.  OneBufferPerSector and RefcntExact are not    *)
(* inductive without Loading: a miss renames its buffer before the buffer  *)
(* is valid.                                                               *)
CacheInv ==
    /\ TypeOK /\ UniqueValid /\ Loading /\ Holding /\ Saved /\ Counted
    /\ WriteThrough /\ BuffersSuffice

-----------------------------------------------------------------------------
(* Lemmas *)

(* bread's scan finds a buffer of any set that has one.                    *)
LEMMA FirstIn ==
    ASSUME NEW B \in SUBSET Buf, B # {}
    PROVE  First(B) \in B
<1>1. B \subseteq Nat
  BY NBUFNat DEF Buf
<1>2. \E x \in B : \A y \in B : ~(<<y, x>> \in OpToRel(<, Nat))
  BY <1>1, NatLessThanWellFounded, WFMin
<1>3. \A x, y \in Nat : y < x => <<y, x>> \in OpToRel(<, Nat)
  BY DEF OpToRel
<1>4. PICK x \in B : \A y \in B : ~(<<y, x>> \in OpToRel(<, Nat))
  BY <1>2
<1>5. \A y \in B : ~(y < x)
  BY <1>1, <1>3, <1>4
<1>6. \A y \in B : x <= y
  BY <1>1, <1>5
<1> QED
  BY <1>6 DEF First

LEMMA ZeroNotBuf == \A b \in Buf : b # NoBuf
  BY NBUFNat DEF Buf, NoBuf

(* The holders of a buffer are finitely many.                              *)
LEMMA HoldersFinite == \A b \in Buf : IsFiniteSet(Holders(b))
<1> TAKE b \in Buf
<1>1. Holders(b) \in SUBSET Thread
  BY DEF Holders
<1> QED
  BY <1>1, ThreadFinite, FS_Subset

(* bread of b adds its caller to the holders of b and to no others.        *)
LEMMA Joins ==
    ASSUME TypeOK, NEW t \in Thread, buf[t] = NoBuf, NEW b \in Buf,
           buf' = [buf EXCEPT ![t] = b]
    PROVE  /\ Cardinality(Holders(b)') = Cardinality(Holders(b)) + 1
           /\ \A c \in Buf : c # b => Holders(c)' = Holders(c)
<1>1. b # NoBuf /\ \A c \in Buf : c # NoBuf
  BY NBUFNat DEF Buf, NoBuf
<1>2. Holders(b)' = Holders(b) \cup {t} /\ t \notin Holders(b)
  BY <1>1 DEF Holders, TypeOK
<1>3. Cardinality(Holders(b)') = Cardinality(Holders(b)) + 1
  BY <1>2, HoldersFinite, FS_AddElement, Zenon
<1>4. \A c \in Buf : c # b => Holders(c)' = Holders(c)
  BY <1>1 DEF Holders, TypeOK
<1> QED
  BY <1>3, <1>4

(* brelse removes its caller from the holders of its buffer.               *)
LEMMA Leaves ==
    ASSUME TypeOK, NEW t \in Thread, NEW b \in Buf, buf[t] = b,
           buf' = [buf EXCEPT ![t] = NoBuf]
    PROVE  /\ Cardinality(Holders(b)') = Cardinality(Holders(b)) - 1
           /\ Holders(b)' = Holders(b) \ {t}
           /\ \A c \in Buf : c # b => Holders(c)' = Holders(c)
<1>1. \A c \in Buf : c # NoBuf
  BY NBUFNat DEF Buf, NoBuf
<1>2. Holders(b)' = Holders(b) \ {t} /\ t \in Holders(b)
  BY <1>1 DEF Holders, TypeOK
<1>3. Cardinality(Holders(b)') = Cardinality(Holders(b)) - 1
  BY <1>2, HoldersFinite, FS_RemoveElement, Zenon
<1>4. \A c \in Buf : c # b => Holders(c)' = Holders(c)
  BY <1>1 DEF Holders, TypeOK
<1> QED
  BY <1>2, <1>3, <1>4

(* A buffer with refcnt 0 has no holder.                                   *)
LEMMA UnusedUnheld ==
    ASSUME CacheInv, NEW b \in Unused
    PROVE  Holders(b) = {}
<1>1. b \in Buf /\ Cardinality(Holders(b)) = 0
  BY DEF CacheInv, Counted, Unused
<1> QED
  BY <1>1, HoldersFinite, FS_EmptySet

(* What no holder is changing is on the disk.                              *)
LEMMA UnheldSaved ==
    ASSUME CacheInv, NEW b \in Buf, Valid(b), Holders(b) = {}
    PROVE  disk[sector[b]] = data[b]
<1>1. \A p \in Part : disk[sector[b]][p] = data[b][p]
  BY DEF CacheInv, WriteThrough, Valid
<1>2. disk[sector[b]] \in Content /\ data[b] \in Content
  BY DEF CacheInv, TypeOK
<1> QED
  BY <1>1, <1>2 DEF Content
-----------------------------------------------------------------------------
(* Every action keeps the invariant *)

LEMMA InitCacheInv == Init => CacheInv
<1> SUFFICES ASSUME Init PROVE CacheInv
  OBVIOUS
<1>1. TypeOK
  BY SectorZero, ValueZero, Zenon DEF Init, TypeOK, Content, NoBuf
<1>2. Counted
  <2> SUFFICES ASSUME NEW b \in Buf PROVE refcnt[b] = Cardinality(Holders(b))
    BY DEF Counted
  <2>1. Holders(b) = {}
    BY NBUFNat DEF Init, Holders, Buf, NoBuf
  <2> QED
    BY <2>1, FS_EmptySet DEF Init
<1> QED
  BY <1>1, <1>2 DEF Init, CacheInv, UniqueValid, Loading, Holding, Saved,
     WriteThrough, BuffersSuffice, Valid

LEMMA BreadHitInv ==
    ASSUME CacheInv, NEW t \in Thread, NEW s \in Sector, BreadHit(t, s)
    PROVE  CacheInv'
<1>1. PICK b \in Buf : b = First(Cached(s)) /\ Valid(b) /\ b # NoBuf
  <2>1. Cached(s) \in SUBSET Buf /\ Cached(s) # {}
    BY DEF BreadHit, Cached
  <2>2. First(Cached(s)) \in Cached(s)
    BY <2>1, FirstIn
  <2> QED
    BY <2>1, <2>2, ZeroNotBuf, Zenon DEF Cached, Valid
<1>2. buf[t] = NoBuf
  BY DEF CacheInv, TypeOK, BreadHit
<1>3. /\ refcnt' = [refcnt EXCEPT ![b] = @ + 1]
      /\ buf' = [buf EXCEPT ![t] = b]
      /\ pc' = [pc EXCEPT ![t] = "hold"]
      /\ pc[t] = "idle" /\ lock = {}
      /\ UNCHANGED <<disk, sector, flags, data, lock, part, got, panicked>>
  BY <1>1 DEF BreadHit
<1>4. TypeOK'
  <2>1. refcnt' \in [Buf -> Nat]
    BY <1>1, <1>3 DEF CacheInv, TypeOK
  <2>2. buf' \in [Thread -> Buf \cup {NoBuf}]
    BY <1>1, <1>3 DEF CacheInv, TypeOK
  <2>3. pc' \in [Thread -> {"idle", "load", "hold", "dirty"}]
    BY <1>1, <1>3 DEF CacheInv, TypeOK
  <2>4. \A u \in Thread : pc'[u] = "idle" <=> buf'[u] = NoBuf
    BY <1>1, <1>3 DEF CacheInv, TypeOK
  <2> QED
    BY <1>3, <2>1, <2>2, <2>3, <2>4 DEF CacheInv, TypeOK
<1>5. Counted'
  BY <1>1, <1>2, <1>3, Joins, Zenon DEF CacheInv, Counted, TypeOK
<1>6. UniqueValid' /\ Loading' /\ Holding' /\ Saved'
  BY <1>1, <1>3 DEF CacheInv, TypeOK, UniqueValid, Loading, Holding, Saved, Valid
<1>7. WriteThrough'
  <2>1. \A c \in Buf : \A u \in Holders(c) : pc[u] = "dirty" => u \in Holders(c)' /\ pc'[u] = "dirty"
    BY <1>2, <1>3, NBUFNat DEF Holders, CacheInv, TypeOK, Buf, NoBuf
  <2> QED
    BY <1>3, <2>1 DEF CacheInv, WriteThrough
<1>8. BuffersSuffice'
  BY <1>3 DEF CacheInv, BuffersSuffice
<1> QED
  BY <1>4, <1>5, <1>6, <1>7, <1>8 DEF CacheInv

LEMMA BreadMissInv ==
    ASSUME CacheInv, NEW t \in Thread, NEW s \in Sector, BreadMiss(t, s)
    PROVE  CacheInv'
<1>1. PICK b \in Buf : b = First(Unused) /\ b \in Unused /\ b # NoBuf
  <2>1. Unused \in SUBSET Buf /\ Unused # {}
    BY DEF BreadMiss, Unused
  <2>2. First(Unused) \in Unused
    BY <2>1, FirstIn
  <2> QED
    BY <2>1, <2>2, ZeroNotBuf
<1>2. buf[t] = NoBuf /\ Holders(b) = {} /\ "dirty" \notin flags[b]
  BY <1>1, UnusedUnheld DEF CacheInv, TypeOK, BreadMiss
<1>3. /\ sector' = [sector EXCEPT ![b] = s]
      /\ flags' = [flags EXCEPT ![b] = {}]
      /\ refcnt' = [refcnt EXCEPT ![b] = 1]
      /\ buf' = [buf EXCEPT ![t] = b]
      /\ pc' = [pc EXCEPT ![t] = "load"]
      /\ pc[t] = "idle" /\ lock = {} /\ lock' = {t}
      /\ UNCHANGED <<disk, data, part, got, panicked>>
  BY <1>1, <1>2 DEF BreadMiss
<1>4. TypeOK'
  BY <1>1, <1>3, Zenon DEF CacheInv, TypeOK, Content
<1>5. Counted'
  <2>1. Cardinality(Holders(b)) = 0
    BY <1>2, FS_EmptySet
  <2>2. TypeOK /\ buf' = [buf EXCEPT ![t] = b]
    BY <1>3 DEF CacheInv
  <2>3. /\ Cardinality(Holders(b)') = Cardinality(Holders(b)) + 1
        /\ \A c \in Buf : c # b => Holders(c)' = Holders(c)
    BY <1>2, <2>2, Joins, Zenon
  <2> SUFFICES ASSUME NEW c \in Buf PROVE refcnt'[c] = Cardinality(Holders(c)')
    BY DEF Counted
  <2>4. CASE c = b
    BY <1>3, <2>1, <2>3, <2>4 DEF CacheInv, TypeOK
  <2>5. CASE c # b
    BY <1>3, <2>3, <2>5 DEF CacheInv, Counted, TypeOK
  <2> QED
    BY <2>4, <2>5
<1>6. \A u \in Thread : u # t => pc'[u] # "load" /\ buf[u] # b
  BY <1>2, <1>3 DEF CacheInv, Loading, TypeOK, Holders
<1>7. \A c \in Buf : Valid(c)' => c # b /\ Valid(c) /\ sector'[c] = sector[c] /\ sector[c] # s
  BY <1>1, <1>3 DEF Valid, CacheInv, TypeOK, BreadMiss, Cached
<1>8. \A c \in Buf : c # b => Valid(c)' = Valid(c)
  BY <1>1, <1>3 DEF Valid, CacheInv, TypeOK
<1>9. UniqueValid'
  BY <1>7 DEF CacheInv, UniqueValid
<1>10. Loading'
  BY <1>1, <1>3, <1>6, <1>7 DEF CacheInv, Loading, TypeOK
<1>11. Holding' /\ Saved'
  BY <1>1, <1>3, <1>6, <1>8, NBUFNat, Zenon DEF CacheInv, Holding, Saved, TypeOK, Buf, NoBuf
<1>12. WriteThrough'
  <2>1. \A c \in Buf : \A u \in Holders(c) : c # b /\ pc[u] = "dirty" => u \in Holders(c)' /\ pc'[u] = "dirty"
    BY <1>1, <1>2, <1>3, NBUFNat DEF Holders, CacheInv, TypeOK, Buf, NoBuf
  <2> QED
    BY <1>3, <1>7, <2>1 DEF CacheInv, WriteThrough, Valid
<1>13. BuffersSuffice'
  BY <1>3 DEF CacheInv, BuffersSuffice
<1> QED
  BY <1>4, <1>5, <1>9, <1>10, <1>11, <1>12, <1>13 DEF CacheInv
LEMMA BreadLoadedInv ==
    ASSUME CacheInv, NEW t \in Thread, BreadLoaded(t)
    PROVE  CacheInv'
<1>1. PICK b \in Buf : b = buf[t] /\ b # NoBuf
  BY ZeroNotBuf DEF CacheInv, TypeOK, BreadLoaded
<1>2. /\ data' = [data EXCEPT ![b] = disk[sector[b]]]
      /\ flags' = [flags EXCEPT ![b] = @ \cup {"valid"}]
      /\ pc' = [pc EXCEPT ![t] = "hold"]
      /\ pc[t] = "load" /\ lock' = {}
      /\ UNCHANGED <<disk, sector, refcnt, buf, part, got, panicked>>
  BY <1>1 DEF BreadLoaded
<1>3. TypeOK'
  <2>1. flags' \in [Buf -> {{}, {"valid"}}]
    BY <1>2 DEF CacheInv, TypeOK
  <2>2. data' \in [Buf -> Content]
    BY <1>2 DEF CacheInv, TypeOK
  <2> QED
    BY <1>2, <2>1, <2>2 DEF CacheInv, TypeOK
<1>4. Counted' /\ BuffersSuffice'
  BY <1>2 DEF CacheInv, Counted, Holders, BuffersSuffice
<1>5. lock = {t} /\ \A c \in Buf : Valid(c) => sector[c] # sector[b]
  BY <1>1, <1>2 DEF CacheInv, Loading
<1>6. \A c \in Buf : Valid(c)' <=> c = b \/ Valid(c)
  BY <1>2 DEF CacheInv, TypeOK, Valid
<1>7. UniqueValid'
  BY <1>2, <1>5, <1>6 DEF CacheInv, UniqueValid
<1>8. \A u \in Thread : pc'[u] # "load"
  BY <1>2, <1>5, Zenon DEF CacheInv, TypeOK, Loading
<1>9. Loading' /\ Saved'
  BY <1>2, <1>8 DEF Loading, CacheInv, Saved, TypeOK
<1>10. Holding'
  BY <1>1, <1>2, <1>6, ZeroNotBuf DEF CacheInv, Holding, TypeOK
<1>11. WriteThrough'
  <2> SUFFICES ASSUME NEW c \in Buf, NEW p \in Part,
                      Valid(c)', disk[sector[c]][p] # data'[c][p]
               PROVE  \E u \in Holders(c)' : pc'[u] = "dirty" /\ p \in part'[u]
    BY <1>2 DEF WriteThrough, Valid
  <2>1. c # b /\ Valid(c) /\ data'[c] = data[c]
    BY <1>2, <1>6 DEF CacheInv, TypeOK
  <2>2. \E u \in Holders(c) : pc[u] = "dirty" /\ p \in part[u]
    BY <2>1 DEF CacheInv, WriteThrough, Valid
  <2> QED
    BY <1>2, <2>2 DEF Holders, CacheInv, TypeOK
<1> QED
  BY <1>3, <1>4, <1>7, <1>9, <1>10, <1>11 DEF CacheInv

(* If no buffer is free, each has a holder of its own, and the caller of   *)
(* bread, who holds none, is one thread more.                              *)
LEMMA BreadPanicInv ==
    ASSUME CacheInv, NEW t \in Thread, NEW s \in Sector, BreadPanic(t, s)
    PROVE  CacheInv'
<1>1. \A b \in Buf : \E u \in Thread : buf[u] = b
  <2> SUFFICES ASSUME NEW b \in Buf, Holders(b) = {} PROVE FALSE
    BY DEF Holders
  <2>1. Cardinality(Holders(b)) = 0
    BY FS_EmptySet
  <2> QED
    BY <2>1 DEF CacheInv, Counted, BreadPanic, Unused
<1>2. buf[t] = NoBuf
  BY DEF CacheInv, TypeOK, BreadPanic
<1> DEFINE h == [b \in Buf |-> CHOOSE u \in Thread : buf[u] = b]
<1>3. \A b \in Buf : h[b] \in Thread \ {t} /\ buf[h[b]] = b
  BY <1>1, <1>2, ZeroNotBuf
<1> HIDE DEF h
<1>4. h \in Injection(Buf, Thread \ {t})
  <2>1. h \in [Buf -> Thread \ {t}]
    BY <1>3 DEF h
  <2>2. \A b, c \in Buf : h[b] = h[c] => b = c
    BY <1>3
  <2> QED
    BY <2>1, <2>2, Zenon DEF Injection, IsInjective
<1>5. /\ IsFiniteSet(Thread \ {t})
      /\ Cardinality(Thread \ {t}) = Cardinality(Thread) - 1
      /\ Cardinality(Thread) \in Nat
  BY ThreadFinite, FS_RemoveElement, FS_CardinalityType
<1>6. Cardinality(Buf) <= Cardinality(Thread \ {t})
  BY <1>4, <1>5, FS_Injection
<1>7. Cardinality(Buf) = NBUF
  BY NBUFNat, FS_Interval DEF Buf
<1>8. BuffersSuffice'
  BY <1>5, <1>6, <1>7, NBUFNat DEF BuffersSuffice
<1> QED
  BY <1>8 DEF BreadPanic, bufVars, CacheInv, TypeOK, UniqueValid, Loading,
     Holding, Saved, Counted, Holders, WriteThrough, Valid
LEMMA CopyOutInv ==
    ASSUME CacheInv, NEW t \in Thread, CopyOut(t)
    PROVE  CacheInv'
<1>1. buf[t] \in Buf
  BY DEF CacheInv, TypeOK, CopyOut
<1>2. got' \in [Thread -> Content]
  BY <1>1 DEF CacheInv, TypeOK, CopyOut
<1> QED
  BY <1>2 DEF CopyOut, bufVars, CacheInv, TypeOK, UniqueValid, Loading, Holding,
     Saved, Counted, Holders, WriteThrough, BuffersSuffice, Valid

LEMMA CopyInInv ==
    ASSUME CacheInv, NEW t \in Thread, NEW P \in SUBSET Part, NEW v \in Value,
           CopyIn(t, P, v)
    PROVE  CacheInv'
<1>1. PICK b \in Buf : b = buf[t]
  BY DEF CacheInv, TypeOK, CopyIn
<1>2. /\ data' = [data EXCEPT ![b] = [p \in Part |-> IF p \in P THEN v ELSE data[b][p]]]
      /\ part' = [part EXCEPT ![t] = P]
      /\ pc' = [pc EXCEPT ![t] = "dirty"]
      /\ pc[t] = "hold"
      /\ UNCHANGED <<disk, sector, flags, refcnt, lock, buf, got, panicked>>
  BY <1>1 DEF CopyIn, CacheInv, TypeOK
<1>3. TypeOK'
  <2>1. data' \in [Buf -> Content]
    BY <1>2 DEF CacheInv, TypeOK, Content
  <2>2. part' \in [Thread -> SUBSET Part]
    BY <1>2 DEF CacheInv, TypeOK
  <2>3. pc' \in [Thread -> {"idle", "load", "hold", "dirty"}]
    BY <1>2 DEF CacheInv, TypeOK
  <2>4. \A u \in Thread : pc'[u] = "idle" <=> buf'[u] = NoBuf
    BY <1>2 DEF CacheInv, TypeOK
  <2> QED
    BY <1>2, <2>1, <2>2, <2>3, <2>4 DEF CacheInv, TypeOK
<1>4. Counted' /\ BuffersSuffice' /\ UniqueValid'
  BY <1>2 DEF CacheInv, Counted, Holders, BuffersSuffice, UniqueValid, Valid
<1>5. Loading' /\ Holding' /\ Saved'
  BY <1>2 DEF CacheInv, TypeOK, Loading, Holding, Saved, Valid
<1>6. WriteThrough'
  <2> SUFFICES ASSUME NEW c \in Buf, NEW p \in Part,
                      Valid(c), disk[sector[c]][p] # data'[c][p]
               PROVE  \E u \in Holders(c) : pc'[u] = "dirty" /\ p \in part'[u]
    BY <1>2 DEF WriteThrough, Valid, Holders
  <2>1. CASE c = b /\ p \in P
    BY <1>1, <1>2, <2>1 DEF Holders, CacheInv, TypeOK
  <2>2. CASE c # b \/ p \notin P
    <3>1. data'[c][p] = data[c][p]
      BY <1>2, <2>2 DEF CacheInv, TypeOK, Content
    <3>2. PICK u \in Holders(c) : pc[u] = "dirty" /\ p \in part[u]
      BY <3>1 DEF CacheInv, WriteThrough, Valid
    <3> QED
      BY <1>2, <3>2 DEF Holders, CacheInv, TypeOK
  <2> QED
    BY <2>1, <2>2
<1> QED
  BY <1>3, <1>4, <1>5, <1>6 DEF CacheInv

LEMMA BwriteInv ==
    ASSUME CacheInv, NEW t \in Thread, Bwrite(t)
    PROVE  CacheInv'
<1>1. PICK b \in Buf : b = buf[t]
  BY DEF CacheInv, TypeOK, Bwrite
<1>2. flags[b] \ {"dirty"} = flags[b] /\ Valid(b)
  BY <1>1 DEF CacheInv, TypeOK, Holding, Bwrite
<1>3. /\ disk' = [disk EXCEPT ![sector[b]] = data[b]]
      /\ part' = [part EXCEPT ![t] = {}]
      /\ pc' = [pc EXCEPT ![t] = "hold"]
      /\ pc[t] = "dirty"
      /\ UNCHANGED <<sector, flags, refcnt, data, lock, buf, got, panicked>>
  BY <1>1, <1>2 DEF Bwrite, CacheInv, TypeOK
<1>4. TypeOK'
  <2>1. disk' \in [Sector -> Content]
    BY <1>3 DEF CacheInv, TypeOK
  <2>2. part' \in [Thread -> SUBSET Part]
    BY <1>3 DEF CacheInv, TypeOK
  <2>3. pc' \in [Thread -> {"idle", "load", "hold", "dirty"}]
    BY <1>3 DEF CacheInv, TypeOK
  <2>4. \A u \in Thread : pc'[u] = "idle" <=> buf'[u] = NoBuf
    BY <1>3 DEF CacheInv, TypeOK
  <2> QED
    BY <1>3, <2>1, <2>2, <2>3, <2>4 DEF CacheInv, TypeOK
<1>5. Counted' /\ BuffersSuffice' /\ UniqueValid'
  BY <1>3 DEF CacheInv, Counted, Holders, BuffersSuffice, UniqueValid, Valid
<1>6. Loading' /\ Holding' /\ Saved'
  BY <1>3 DEF CacheInv, TypeOK, Loading, Holding, Saved, Valid
<1>7. WriteThrough'
  <2> SUFFICES ASSUME NEW c \in Buf, NEW p \in Part,
                      Valid(c), disk'[sector[c]][p] # data[c][p]
               PROVE  \E u \in Holders(c) : pc'[u] = "dirty" /\ p \in part'[u]
    BY <1>3 DEF WriteThrough, Valid, Holders
  <2>1. c # b
    BY <1>3 DEF CacheInv, TypeOK
  <2>2. sector[c] # sector[b]
    BY <1>2, <2>1 DEF CacheInv, UniqueValid
  <2>3. disk'[sector[c]] = disk[sector[c]]
    BY <1>3, <2>2 DEF CacheInv, TypeOK
  <2>4. PICK u \in Holders(c) : pc[u] = "dirty" /\ p \in part[u]
    BY <2>3 DEF CacheInv, WriteThrough, Valid
  <2>5. u # t
    BY <1>1, <2>1, <2>4 DEF Holders
  <2> QED
    BY <1>3, <2>4, <2>5 DEF Holders, CacheInv, TypeOK
<1> QED
  BY <1>4, <1>5, <1>6, <1>7 DEF CacheInv

LEMMA BrelseInv ==
    ASSUME CacheInv, NEW t \in Thread, Brelse(t)
    PROVE  CacheInv'
<1>1. PICK b \in Buf : b = buf[t]
  BY DEF CacheInv, TypeOK, Brelse
<1>2. /\ refcnt' = [refcnt EXCEPT ![b] = @ - 1]
      /\ buf' = [buf EXCEPT ![t] = NoBuf]
      /\ pc' = [pc EXCEPT ![t] = "idle"]
      /\ pc[t] = "hold" /\ lock = {}
      /\ UNCHANGED <<disk, sector, flags, data, lock, part, got, panicked>>
  BY <1>1 DEF Brelse
<1>3. /\ Cardinality(Holders(b)') = Cardinality(Holders(b)) - 1
      /\ Holders(b)' = Holders(b) \ {t}
      /\ \A c \in Buf : c # b => Holders(c)' = Holders(c)
  BY <1>1, <1>2, Leaves, Zenon DEF CacheInv
<1>4. Counted'
  <2> SUFFICES ASSUME NEW c \in Buf PROVE refcnt'[c] = Cardinality(Holders(c)')
    BY DEF Counted
  <2>1. CASE c = b
    BY <1>2, <1>3, <2>1, Zenon DEF CacheInv, Counted, TypeOK
  <2>2. CASE c # b
    BY <1>2, <1>3, <2>2 DEF CacheInv, Counted, TypeOK
  <2> QED
    BY <2>1, <2>2
<1>5. TypeOK'
  <2>1. refcnt' \in [Buf -> Nat]
    <3>1. t \in Holders(b)
      BY <1>1 DEF Holders
    <3>2. refcnt[b] # 0
      BY <3>1, HoldersFinite, FS_EmptySet DEF CacheInv, Counted
    <3> QED
      BY <1>2, <3>2 DEF CacheInv, TypeOK
  <2>2. buf' \in [Thread -> Buf \cup {NoBuf}]
    BY <1>2 DEF CacheInv, TypeOK
  <2>3. pc' \in [Thread -> {"idle", "load", "hold", "dirty"}]
    BY <1>2 DEF CacheInv, TypeOK
  <2>4. \A u \in Thread : pc'[u] = "idle" <=> buf'[u] = NoBuf
    BY <1>2 DEF CacheInv, TypeOK
  <2> QED
    BY <1>2, <2>1, <2>2, <2>3, <2>4 DEF CacheInv, TypeOK
<1>6. BuffersSuffice' /\ UniqueValid' /\ Loading' /\ Holding' /\ Saved'
  BY <1>2 DEF CacheInv, TypeOK, BuffersSuffice, UniqueValid, Loading, Holding, Saved, Valid
<1>7. WriteThrough'
  <2>1. \A c \in Buf : \A u \in Holders(c) : pc[u] = "dirty" => u \in Holders(c)' /\ pc'[u] = "dirty"
    BY <1>2, <1>3 DEF Holders, CacheInv, TypeOK
  <2> QED
    BY <1>2, <2>1 DEF CacheInv, WriteThrough
<1> QED
  BY <1>4, <1>5, <1>6, <1>7 DEF CacheInv
(* No buffer is dirty, so sync has nothing to write.                       *)
LEMMA SyncIdle ==
    ASSUME CacheInv, Sync
    PROVE  UNCHANGED vars
<1>1. \A b \in Buf : "dirty" \notin flags[b]
  BY DEF CacheInv, TypeOK
<1>2. disk' = disk
  BY <1>1 DEF Sync, CacheInv, TypeOK, Cached
<1>3. flags' = flags
  BY <1>1 DEF Sync, CacheInv, TypeOK
<1> QED
  BY <1>2, <1>3 DEF Sync, vars, bufVars

LEMMA StutterInv == CacheInv /\ UNCHANGED vars => CacheInv'
  BY DEF vars, bufVars, CacheInv, TypeOK, UniqueValid, Loading, Holding, Saved,
     Counted, Holders, WriteThrough, BuffersSuffice, Valid

LEMMA StepCacheInv == CacheInv /\ [Next]_vars => CacheInv'
<1> SUFFICES ASSUME CacheInv, Next PROVE CacheInv'
  BY StutterInv
<1>1. ASSUME NEW t \in Thread, ThreadStep(t) PROVE CacheInv'
  BY <1>1, BreadHitInv, BreadMissInv, BreadPanicInv, BreadLoadedInv, CopyOutInv,
     BwriteInv, BrelseInv, CopyInInv DEF ThreadStep
<1>2. CASE Sync
  BY <1>2, SyncIdle, StutterInv
<1> QED
  BY <1>1, <1>2 DEF Next

(* Every step of bread, bwrite and brelse keeps the cache in order: its    *)
(* counts, contents and owners are those that CacheInv describes.          *)
THEOREM CacheInvariant == Spec => []CacheInv
<1> QED
  BY InitCacheInv, StepCacheInv, PTL DEF Spec

-----------------------------------------------------------------------------
(* What follows from the invariant *)

(* bread never leaves two valid buffers for one sector, for any number of  *)
(* threads and buffers.                                                    *)
THEOREM OneBuffer == Spec => []OneBufferPerSector
<1>1. CacheInv => OneBufferPerSector
  <2> SUFFICES ASSUME CacheInv, NEW s \in Sector PROVE Cardinality(Cached(s)) <= 1
    BY DEF OneBufferPerSector
  <2>1. \A b, c \in Cached(s) : b = c
    BY DEF CacheInv, UniqueValid, Valid, Cached
  <2>2. CASE Cached(s) = {}
    BY <2>2, FS_EmptySet
  <2>3. CASE Cached(s) # {}
    <3>1. PICK b : Cached(s) = {b}
      BY <2>1, <2>3
    <3>2. Cardinality({b}) = 1
      BY FS_Singleton
    <3> QED
      BY <3>1, <3>2
  <2> QED
    BY <2>2, <2>3
<1> QED
  BY <1>1, CacheInvariant, PTL

(* refcnt is the number of threads between bread and brelse, and what they *)
(* use is valid.                                                           *)
THEOREM CountsAreExact == Spec => []RefcntExact
<1>1. CacheInv => RefcntExact
  <2> SUFFICES ASSUME CacheInv, NEW b \in Buf, NEW t \in Holders(b)
               PROVE  "valid" \in flags[b] \/ pc[t] = "load"
    BY DEF RefcntExact, CacheInv, Counted
  <2>1. t \in Thread /\ buf[t] = b /\ buf[t] # NoBuf
    BY ZeroNotBuf DEF Holders
  <2> QED
    BY <2>1 DEF CacheInv, TypeOK, Holding, Valid
<1> QED
  BY <1>1, CacheInvariant, PTL

(* A byte range that differs from the disk has a writer that has still to  *)
(* call bwrite.                                                            *)
THEOREM WritesGoThrough == Spec => []WriteThrough
<1>1. CacheInv => WriteThrough
  BY DEF CacheInv
<1> QED
  BY <1>1, CacheInvariant, PTL

(* With at least as many buffers as threads, bread does not panic.         *)
THEOREM NeverOutOfBuffers == Spec => []BuffersSuffice
<1>1. CacheInv => BuffersSuffice
  BY DEF CacheInv
<1> QED
  BY <1>1, CacheInvariant, PTL
(* Eviction never renames a buffer that a thread holds.                    *)
THEOREM HeldBuffersStay == Spec => HeldStays
<1> DEFINE Stays == \A t \in Thread : buf[t] # NoBuf /\ buf'[t] = buf[t]
                        => sector'[buf[t]] = sector[buf[t]]
<1>1. CacheInv /\ [Next]_vars => [Stays]_vars
  <2> SUFFICES ASSUME CacheInv, Next PROVE Stays \/ UNCHANGED vars
    OBVIOUS
  <2>1. ASSUME NEW u \in Thread, NEW s \in Sector, BreadMiss(u, s) PROVE Stays
    <3> SUFFICES ASSUME NEW t \in Thread, buf[t] # NoBuf
                 PROVE  sector'[buf[t]] = sector[buf[t]]
      OBVIOUS
    <3>1. First(Unused) \in Unused
      <4>1. Unused \in SUBSET Buf /\ Unused # {}
        BY <2>1 DEF BreadMiss, Unused
      <4> QED
        BY <4>1, FirstIn
    <3>2. buf[t] # First(Unused)
      BY <3>1, UnusedUnheld DEF Holders
    <3> QED
      BY <2>1, <3>2 DEF BreadMiss, CacheInv, TypeOK
  <2>2. CASE UNCHANGED sector
    BY <2>2
  <2>3. CASE Sync
    BY <2>3, SyncIdle
  <2> QED
    BY <2>1, <2>2, <2>3, Zenon DEF Next, ThreadStep, BreadHit, BreadPanic, BreadLoaded,
       CopyOut, CopyIn, Bwrite, Brelse, bufVars
<1> QED
  BY <1>1, CacheInvariant, PTL DEF Spec, HeldStays

-----------------------------------------------------------------------------
(* The cache as a store of sectors *)

\* A sector's contents are in its valid buffer, or else on the disk.
ContentsOK ==
    /\ Contents \in [Sector -> Content]
    /\ \A b \in Buf : Valid(b) => Contents[sector[b]] = data[b]
    /\ \A s \in Sector : (\A b \in Buf : Valid(b) => sector[b] # s)
                            => Contents[s] = disk[s]

LEMMA ContentsAre == CacheInv => ContentsOK
<1> SUFFICES ASSUME CacheInv PROVE ContentsOK
  OBVIOUS
<1>1. \A s \in Sector : Cached(s) # {} => First(Cached(s)) \in Cached(s)
  <2> TAKE s \in Sector
  <2>1. Cached(s) \in SUBSET Buf
    BY DEF Cached
  <2> QED
    BY <2>1, FirstIn
<1>2. Contents \in [Sector -> Content]
  BY <1>1 DEF Contents, CacheInv, TypeOK, Cached
<1>3. \A b \in Buf : Valid(b) => Contents[sector[b]] = data[b]
  <2> SUFFICES ASSUME NEW b \in Buf, Valid(b) PROVE Contents[sector[b]] = data[b]
    OBVIOUS
  <2>1. sector[b] \in Sector /\ b \in Cached(sector[b])
    BY DEF CacheInv, TypeOK, Cached, Valid
  <2>2. First(Cached(sector[b])) = b
    BY <1>1, <2>1 DEF CacheInv, UniqueValid, Cached, Valid
  <2> QED
    BY <2>1, <2>2 DEF Contents
<1>4. \A s \in Sector : (\A b \in Buf : Valid(b) => sector[b] # s)
                            => Contents[s] = disk[s]
  BY DEF Contents, Cached, Valid
<1> QED
  BY <1>2, <1>3, <1>4 DEF ContentsOK

LEMMA ContentsAreNext == CacheInv' => ContentsOK'
<1> QED
  BY ContentsAre, PTL

(* A step after which every valid buffer has the bytes the store had, and  *)
(* every other sector its disk, changes nothing in the store.              *)
LEMMA SameContents ==
    ASSUME CacheInv, CacheInv',
           \A b \in Buf : Valid(b)' => data'[b] = Contents[sector'[b]],
           \A s \in Sector : (\A b \in Buf : Valid(b)' => sector'[b] # s)
                                => disk'[s] = Contents[s]
    PROVE  Contents' = Contents
<1>1. \A s \in Sector : Contents'[s] = Contents[s]
  <2> TAKE s \in Sector
  <2>1. CASE \A b \in Buf : Valid(b)' => sector'[b] # s
    BY <2>1, ContentsAreNext DEF ContentsOK
  <2>2. CASE \E b \in Buf : Valid(b)' /\ sector'[b] = s
    BY <2>2, ContentsAreNext DEF ContentsOK
  <2> QED
    BY <2>1, <2>2
<1> QED
  BY <1>1, ContentsAre, ContentsAreNext DEF ContentsOK
(* A hit, a release, a copy out and the panic touch no bytes.              *)
LEMMA SameBytes ==
    ASSUME UNCHANGED <<disk, sector, flags, data>>
    PROVE  Contents' = Contents
  BY DEF Contents, Cached

(* Eviction loses nothing: what it evicts is on the disk.                  *)
LEMMA BreadMissKeeps ==
    ASSUME CacheInv, CacheInv', NEW t \in Thread, NEW s \in Sector, BreadMiss(t, s)
    PROVE  Contents' = Contents
<1>1. PICK b \in Buf : b = First(Unused) /\ Holders(b) = {}
  <2>1. Unused \in SUBSET Buf /\ Unused # {}
    BY DEF BreadMiss, Unused
  <2> QED
    BY <2>1, FirstIn, UnusedUnheld
<1>2. /\ sector' = [sector EXCEPT ![b] = s]
      /\ flags' = [flags EXCEPT ![b] = {}]
      /\ UNCHANGED <<disk, data>>
  BY <1>1 DEF BreadMiss, CacheInv, TypeOK
<1>3. \A c \in Buf : Valid(c)' <=> c # b /\ Valid(c)
  BY <1>2 DEF Valid, CacheInv, TypeOK
<1>4. \A c \in Buf : c # b => sector'[c] = sector[c]
  BY <1>2 DEF CacheInv, TypeOK
<1>5. \A c \in Buf : Valid(c)' => data'[c] = Contents[sector'[c]]
  BY <1>2, <1>3, <1>4, ContentsAre DEF ContentsOK
<1>6. \A r \in Sector : (\A c \in Buf : Valid(c)' => sector'[c] # r) => disk'[r] = Contents[r]
  <2> SUFFICES ASSUME NEW r \in Sector, \A c \in Buf : Valid(c)' => sector'[c] # r
               PROVE  disk[r] = Contents[r]
    BY <1>2
  <2>1. CASE Valid(b) /\ sector[b] = r
    BY <1>1, <2>1, UnheldSaved, ContentsAre DEF ContentsOK
  <2>2. CASE ~(Valid(b) /\ sector[b] = r)
    <3>1. \A c \in Buf : Valid(c) => sector[c] # r
      BY <1>3, <1>4, <2>2
    <3> QED
      BY <3>1, ContentsAre DEF ContentsOK
  <2> QED
    BY <2>1, <2>2
<1> QED
  BY <1>5, <1>6, SameContents

(* A loaded buffer has what the disk had.                                  *)
LEMMA BreadLoadedKeeps ==
    ASSUME CacheInv, CacheInv', NEW t \in Thread, BreadLoaded(t)
    PROVE  Contents' = Contents
<1>1. PICK b \in Buf : b = buf[t]
  BY ZeroNotBuf DEF CacheInv, TypeOK, BreadLoaded
<1>2. /\ data' = [data EXCEPT ![b] = disk[sector[b]]]
      /\ flags' = [flags EXCEPT ![b] = @ \cup {"valid"}]
      /\ UNCHANGED <<disk, sector>>
  BY <1>1 DEF BreadLoaded
<1>3. \A c \in Buf : Valid(c) => sector[c] # sector[b]
  BY <1>1 DEF CacheInv, Loading, BreadLoaded
<1>4. \A c \in Buf : Valid(c)' <=> c = b \/ Valid(c)
  BY <1>2 DEF CacheInv, TypeOK, Valid
<1>5. data'[b] = Contents[sector[b]]
  BY <1>2, <1>3, ContentsAre DEF ContentsOK, CacheInv, TypeOK
<1>6. \A c \in Buf : Valid(c)' => data'[c] = Contents[sector'[c]]
  BY <1>2, <1>4, <1>5, ContentsAre DEF ContentsOK, CacheInv, TypeOK
<1>7. \A r \in Sector : (\A c \in Buf : Valid(c)' => sector'[c] # r) => disk'[r] = Contents[r]
  BY <1>2, <1>4, ContentsAre DEF ContentsOK
<1> QED
  BY <1>6, <1>7, SameContents

(* bwrite changes the disk under a valid buffer only.                      *)
LEMMA BwriteKeeps ==
    ASSUME CacheInv, CacheInv', NEW t \in Thread, Bwrite(t)
    PROVE  Contents' = Contents
<1>1. PICK b \in Buf : b = buf[t]
  BY DEF CacheInv, TypeOK, Bwrite
<1>2. /\ disk' = [disk EXCEPT ![sector[b]] = data[b]]
      /\ flags' = [flags EXCEPT ![b] = @ \ {"dirty"}]
      /\ UNCHANGED <<data, sector>>
      /\ Valid(b)
  BY <1>1 DEF Bwrite, CacheInv, Holding
<1>3. \A c \in Buf : Valid(c)' <=> Valid(c)
  BY <1>2 DEF CacheInv, TypeOK, Valid
<1>4. \A c \in Buf : Valid(c)' => data'[c] = Contents[sector'[c]]
  BY <1>2, <1>3, ContentsAre DEF ContentsOK
<1>5. \A r \in Sector : (\A c \in Buf : Valid(c)' => sector'[c] # r) => disk'[r] = Contents[r]
  BY <1>2, <1>3, ContentsAre DEF ContentsOK, CacheInv, TypeOK
<1> QED
  BY <1>4, <1>5, SameContents

(* A copy into a buffer is the store's change of that sector.              *)
LEMMA CopyInChanges ==
    ASSUME CacheInv, CacheInv', NEW t \in Thread, NEW P \in SUBSET Part,
           NEW v \in Value, CopyIn(t, P, v)
    PROVE  \E s \in Sector : Store!Change(t, s, P, v)
<1>1. PICK b \in Buf : b = buf[t]
  BY DEF CacheInv, TypeOK, CopyIn
<1> DEFINE New == [p \in Part |-> IF p \in P THEN v ELSE data[b][p]]
<1>2. /\ data' = [data EXCEPT ![b] = New]
      /\ part[t] = {} /\ part' = [part EXCEPT ![t] = P]
      /\ UNCHANGED <<disk, sector, flags, got>>
      /\ Valid(b)
  BY <1>1 DEF CopyIn, CacheInv, TypeOK, Holding, Saved
<1>3. PICK s \in Sector : s = sector[b]
  BY DEF CacheInv, TypeOK
<1> HIDE DEF New
<1>4. \A c \in Buf : (Valid(c)' <=> Valid(c)) /\ (Valid(c) /\ c # b => sector[c] # s)
  BY <1>2, <1>3 DEF Valid, CacheInv, UniqueValid
<1>5. Contents[s] = data[b] /\ Contents'[s] = New
  <2>1. Contents[s] = data[b]
    BY <1>2, <1>3, ContentsAre DEF ContentsOK
  <2>2. Contents'[sector'[b]] = data'[b]
    BY <1>2, <1>4, ContentsAreNext, Zenon DEF ContentsOK
  <2> QED
    BY <1>2, <1>3, <2>1, <2>2 DEF CacheInv, TypeOK
<1>6. \A r \in Sector : r # s => Contents'[r] = Contents[r]
  <2> SUFFICES ASSUME NEW r \in Sector, r # s PROVE Contents'[r] = Contents[r]
    OBVIOUS
  <2>1. CASE \E c \in Buf : Valid(c) /\ sector[c] = r
    <3>1. PICK c \in Buf : Valid(c) /\ sector[c] = r
      BY <2>1
    <3>2. data'[c] = data[c]
      BY <1>2, <1>3, <3>1 DEF CacheInv, TypeOK
    <3> QED
      BY <1>2, <1>4, <3>1, <3>2, ContentsAre, ContentsAreNext DEF ContentsOK
  <2>2. CASE \A c \in Buf : Valid(c) => sector[c] # r
    BY <1>2, <1>4, <2>2, ContentsAre, ContentsAreNext, Zenon DEF ContentsOK
  <2> QED
    BY <2>1, <2>2
<1>7. Contents' = [Contents EXCEPT ![s] = New]
  BY <1>5, <1>6, ContentsAre, ContentsAreNext DEF ContentsOK
<1>8. New = [p \in Part |-> IF p \in P THEN v ELSE Contents[s][p]]
  BY <1>5 DEF New
<1>9. Contents' = [Contents EXCEPT ![s] = [p \in Part |-> IF p \in P THEN v ELSE @[p]]]
  BY <1>7, <1>8, ContentsAre DEF ContentsOK
<1> QED
  BY <1>2, <1>9, Zenon DEF Store!Change
LEMMA StepRefines ==
    CacheInv /\ CacheInv' /\ [Next]_vars => [Store!Next]_<<Contents, part, got>>
<1> SUFFICES ASSUME CacheInv, CacheInv', [Next]_vars
             PROVE  Store!Next \/ UNCHANGED <<Contents, part, got>>
  OBVIOUS
<1>1. ASSUME NEW t \in Thread, NEW s \in Sector,
             BreadHit(t, s) \/ BreadPanic(t, s) \/ BreadMiss(t, s)
      PROVE  UNCHANGED <<Contents, part, got>>
  BY <1>1, SameBytes, BreadMissKeeps DEF BreadHit, BreadPanic, BreadMiss, bufVars
<1>2. ASSUME NEW t \in Thread, BreadLoaded(t) \/ Brelse(t)
      PROVE  UNCHANGED <<Contents, part, got>>
  BY <1>2, SameBytes, BreadLoadedKeeps, ZenonT(40) DEF BreadLoaded, Brelse
<1>3. ASSUME NEW t \in Thread, CopyOut(t) PROVE Store!Next
  <2>1. Contents' = Contents
    BY <1>3, SameBytes DEF CopyOut, bufVars
  <2>2. buf[t] \in Buf /\ Valid(buf[t])
    BY <1>3 DEF CacheInv, TypeOK, Holding, CopyOut
  <2>3. sector[buf[t]] \in Sector /\ Contents[sector[buf[t]]] = data[buf[t]]
    BY <2>2, ContentsAre DEF ContentsOK, CacheInv, TypeOK
  <2>4. Store!Look(t, sector[buf[t]])
    BY <1>3, <2>1, <2>3 DEF Store!Look, CopyOut
  <2> QED
    BY <2>3, <2>4, Zenon DEF Store!Next
<1>4. ASSUME NEW t \in Thread, NEW P \in SUBSET Part, NEW v \in Value, CopyIn(t, P, v)
      PROVE  Store!Next
  BY <1>4, CopyInChanges DEF Store!Next
<1>5. ASSUME NEW t \in Thread, Bwrite(t) PROVE Store!Next
  <2>1. Store!Save(t)
    BY <1>5, BwriteKeeps, Zenon DEF Store!Save, Bwrite
  <2> QED
    BY <2>1 DEF Store!Next
<1>6. CASE UNCHANGED vars
  BY <1>6, SameBytes DEF vars, bufVars
<1>7. CASE Sync
  BY <1>6, <1>7, SyncIdle
<1> QED
  BY <1>1, <1>2, <1>3, <1>4, <1>5, <1>6, <1>7 DEF Next, ThreadStep

(* Whatever is evicted and read again, the users of the cache see one copy *)
(* of every sector, which only their own writes change.                    *)
THEOREM CacheImplementsStore == Spec => ImplementsStore
<1>1. Init => Store!Init
  <2> SUFFICES ASSUME Init PROVE Store!Init
    OBVIOUS
  <2>1. Contents \in [Sector -> Content]
    BY InitCacheInv, ContentsAre DEF ContentsOK
  <2> QED
    BY <2>1, ValueZero DEF Init, Store!Init, Content, Store!Content
<1> QED
  BY <1>1, InitCacheInv, StepCacheInv, StepRefines, PTL
     DEF Spec, ImplementsStore, Store!Spec
=============================================================================
