-------------------------------- MODULE Bio --------------------------------
(* The buffer cache (filesys/bio.rs) and its users, which are the inode,   *)
(* directory and free-map layers.  A user calls bread, copies bytes out of *)
(* the buffer or into it, calls bwrite after each change, and brelse.  The *)
(* lock of the cache covers the search and a miss's disk read; the bytes   *)
(* of a buffer, and bwrite, are outside it.                                *)
(*                                                                         *)
(* A sector's bytes are a function on Part, the ranges that users tell     *)
(* apart.  A user holds one buffer at a time: no caller of bread calls it  *)
(* again before brelse.                                                    *)
EXTENDS Integers, FiniteSets

CONSTANTS Thread,  \* threads that use the file system
          Sector,  \* sectors of the disk
          Part,    \* byte ranges of a sector
          Value,   \* what a byte range may hold
          NBUF     \* buffers of the cache, 30 in the code

ASSUME ThreadFinite == IsFiniteSet(Thread)
ASSUME NBUFNat == NBUF \in Nat
ASSUME SectorZero == 0 \in Sector
ASSUME ValueZero == 0 \in Value

VARIABLES disk,      \* the sectors on the device
          sector, flags, refcnt, data,  \* the fields of the buffers
          lock,      \* the holder of BCACHE.lock, as a set
          pc,        \* where each thread is
          buf,       \* the buffer it got from bread
          part,      \* the ranges it has changed since its last bwrite
          got,       \* the bytes it copied out last
          panicked

bufVars == <<sector, flags, refcnt, data>>
vars == <<disk, bufVars, lock, pc, buf, part, got, panicked>>

Buf == 1..NBUF
NoBuf == 0
Content == [Part -> Value]

Init ==
    /\ disk \in [Sector -> Content]
    /\ sector = [b \in Buf |-> 0]
    /\ flags = [b \in Buf |-> {}]
    /\ refcnt = [b \in Buf |-> 0]
    /\ data = [b \in Buf |-> [p \in Part |-> 0]]
    /\ lock = {}
    /\ pc = [t \in Thread |-> "idle"]
    /\ buf = [t \in Thread |-> NoBuf]
    /\ part = [t \in Thread |-> {}]
    /\ got = [t \in Thread |-> [p \in Part |-> 0]]
    /\ panicked = FALSE

Cached(s) == {b \in Buf : sector[b] = s /\ "valid" \in flags[b]}
Unused == {b \in Buf : refcnt[b] = 0}
First(B) == CHOOSE b \in B : \A c \in B : b <= c

-----------------------------------------------------------------------------
(* Faulty variants *)

\* bread that does not count a user who finds the sector cached.
BreadHitUncounted(t, s) ==
    /\ pc[t] = "idle" /\ lock = {} /\ Cached(s) # {}
    /\ buf' = [buf EXCEPT ![t] = First(Cached(s))]
    /\ pc' = [pc EXCEPT ![t] = "hold"]
    /\ UNCHANGED <<disk, sector, flags, refcnt, data, lock, part, got, panicked>>

\* bread that gives up the lock while it waits for the disk.
BreadMissUnlocked(t, s) ==
    /\ pc[t] = "idle" /\ lock = {} /\ Cached(s) = {} /\ Unused # {}
    /\ LET b == First(Unused)
       IN  /\ sector' = [sector EXCEPT ![b] = s]
           /\ flags' = [flags EXCEPT ![b] = {}]
           /\ refcnt' = [refcnt EXCEPT ![b] = 1]
           /\ buf' = [buf EXCEPT ![t] = b]
    /\ pc' = [pc EXCEPT ![t] = "load"]
    /\ UNCHANGED <<disk, data, lock, part, got, panicked>>

\* bread that keeps what the buffer held before.
BreadLoadedStale(t) ==
    /\ pc[t] = "load"
    /\ flags' = [flags EXCEPT ![buf[t]] = @ \cup {"valid"}]
    /\ lock' = {}
    /\ pc' = [pc EXCEPT ![t] = "hold"]
    /\ UNCHANGED <<disk, sector, refcnt, data, buf, part, got, panicked>>

\* A cache that writes back later, but whose bwrite forgets to set B_DIRTY.
BwriteBack(t) ==
    /\ pc[t] = "dirty"
    /\ part' = [part EXCEPT ![t] = {}]
    /\ pc' = [pc EXCEPT ![t] = "hold"]
    /\ UNCHANGED <<disk, bufVars, lock, buf, got, panicked>>

-----------------------------------------------------------------------------
(* bread *)

BreadHit(t, s) ==
    /\ pc[t] = "idle" /\ lock = {} /\ Cached(s) # {}
    /\ LET b == First(Cached(s))
       IN  /\ refcnt' = [refcnt EXCEPT ![b] = @ + 1]
           /\ buf' = [buf EXCEPT ![t] = b]
    /\ pc' = [pc EXCEPT ![t] = "hold"]
    /\ UNCHANGED <<disk, sector, flags, data, lock, part, got, panicked>>

\* The first unreferenced buffer is taken; a dirty one would be written back.
BreadMiss(t, s) ==
    /\ pc[t] = "idle" /\ lock = {} /\ Cached(s) = {} /\ Unused # {}
    /\ LET b == First(Unused)
       IN  /\ disk' = IF "dirty" \in flags[b]
                      THEN [disk EXCEPT ![sector[b]] = data[b]] ELSE disk
           /\ sector' = [sector EXCEPT ![b] = s]
           /\ flags' = [flags EXCEPT ![b] = {}]
           /\ refcnt' = [refcnt EXCEPT ![b] = 1]
           /\ buf' = [buf EXCEPT ![t] = b]
    /\ lock' = {t}
    /\ pc' = [pc EXCEPT ![t] = "load"]
    /\ UNCHANGED <<data, part, got, panicked>>

\* The disk has answered the read of a miss.
BreadLoaded(t) ==
    /\ pc[t] = "load"
    /\ data' = [data EXCEPT ![buf[t]] = disk[sector[buf[t]]]]
    /\ flags' = [flags EXCEPT ![buf[t]] = @ \cup {"valid"}]
    /\ lock' = {}
    /\ pc' = [pc EXCEPT ![t] = "hold"]
    /\ UNCHANGED <<disk, sector, refcnt, buf, part, got, panicked>>

BreadPanic(t, s) ==
    /\ pc[t] = "idle" /\ lock = {} /\ Cached(s) = {} /\ Unused = {}
    /\ panicked' = TRUE
    /\ UNCHANGED <<disk, bufVars, lock, pc, buf, part, got>>

-----------------------------------------------------------------------------
(* The caller's use of the buffer *)

CopyOut(t) ==
    /\ pc[t] = "hold"
    /\ got' = [got EXCEPT ![t] = data[buf[t]]]
    /\ UNCHANGED <<disk, bufVars, lock, pc, buf, part, panicked>>

CopyIn(t, P, v) ==
    /\ pc[t] = "hold"
    /\ data' = [data EXCEPT ![buf[t]] = [p \in Part |-> IF p \in P THEN v ELSE @[p]]]
    /\ part' = [part EXCEPT ![t] = P]
    /\ pc' = [pc EXCEPT ![t] = "dirty"]
    /\ UNCHANGED <<disk, sector, flags, refcnt, lock, buf, got, panicked>>

-----------------------------------------------------------------------------
(* bwrite, brelse, sync *)

Bwrite(t) ==
    /\ pc[t] = "dirty"
    /\ disk' = [disk EXCEPT ![sector[buf[t]]] = data[buf[t]]]
    /\ flags' = [flags EXCEPT ![buf[t]] = @ \ {"dirty"}]
    /\ part' = [part EXCEPT ![t] = {}]
    /\ pc' = [pc EXCEPT ![t] = "hold"]
    /\ UNCHANGED <<sector, refcnt, data, lock, buf, got, panicked>>

Brelse(t) ==
    /\ pc[t] = "hold" /\ lock = {}
    /\ refcnt' = [refcnt EXCEPT ![buf[t]] = @ - 1]
    /\ buf' = [buf EXCEPT ![t] = NoBuf]
    /\ pc' = [pc EXCEPT ![t] = "idle"]
    /\ UNCHANGED <<disk, sector, flags, data, lock, part, got, panicked>>

Sync ==
    /\ lock = {}
    /\ disk' = [s \in Sector |->
                  LET B == {b \in Cached(s) : "dirty" \in flags[b]}
                  IN  IF B = {} THEN disk[s] ELSE data[First(B)]]
    /\ flags' = [b \in Buf |-> IF {"valid", "dirty"} \subseteq flags[b]
                               THEN flags[b] \ {"dirty"} ELSE flags[b]]
    /\ UNCHANGED <<sector, refcnt, data, lock, pc, buf, part, got, panicked>>

ThreadStep(t) ==
    \/ \E s \in Sector : BreadHit(t, s) \/ BreadMiss(t, s) \/ BreadPanic(t, s)
    \/ BreadLoaded(t) \/ CopyOut(t) \/ Bwrite(t) \/ Brelse(t)
    \/ \E P \in SUBSET Part, v \in Value : CopyIn(t, P, v)

Next == ~panicked /\ ((\E t \in Thread : ThreadStep(t)) \/ Sync)

Spec == Init /\ [][Next]_vars

-----------------------------------------------------------------------------
(* Properties *)

\* The threads that hold buffer b.
Holders(b) == {t \in Thread : buf[t] = b}

\* Fields and local variables stay in range, a thread has a buffer just when
\* it is inside bread's result, and no buffer is ever marked B_DIRTY.
TypeOK ==
    /\ disk \in [Sector -> Content]
    /\ sector \in [Buf -> Sector]
    /\ flags \in [Buf -> {{}, {"valid"}}]
    /\ refcnt \in [Buf -> Nat]
    /\ data \in [Buf -> Content]
    /\ lock \in SUBSET Thread
    /\ pc \in [Thread -> {"idle", "load", "hold", "dirty"}]
    /\ buf \in [Thread -> Buf \cup {NoBuf}]
    /\ \A t \in Thread : pc[t] = "idle" <=> buf[t] = NoBuf
    /\ part \in [Thread -> SUBSET Part]
    /\ got \in [Thread -> Content]
    /\ panicked \in BOOLEAN

\* bread never leaves two valid buffers for one sector, although a miss
\* waits for the disk before it marks its buffer valid.
OneBufferPerSector == \A s \in Sector : Cardinality(Cached(s)) <= 1

\* refcnt counts the threads between bread and brelse, and a buffer that
\* one of them uses is valid, unless its holder still waits for the disk.
RefcntExact ==
    \A b \in Buf :
        /\ refcnt[b] = Cardinality(Holders(b))
        /\ \A t \in Holders(b) : "valid" \in flags[b] \/ pc[t] = "load"

\* bwrite writes through: a byte range whose contents are not on the device
\* was changed by a thread that has not called bwrite yet.
WriteThrough ==
    \A b \in Buf, p \in Part :
        "valid" \in flags[b] /\ disk[sector[b]][p] # data[b][p]
            => \E t \in Holders(b) : pc[t] = "dirty" /\ p \in part[t]

\* bread does not run out of buffers when there are no more threads than
\* buffers, since every caller holds one at a time.
BuffersSuffice == Cardinality(Thread) <= NBUF => ~panicked

\* A buffer keeps its sector while a thread holds it: eviction never takes
\* a buffer away from its user.
HeldStays ==
    [][\A t \in Thread : buf[t] # NoBuf /\ buf'[t] = buf[t]
                            => sector'[buf[t]] = sector[buf[t]]]_vars

\* Through the cache, the sectors are a store: every copy out of a buffer
\* sees every copy into one that happened before it, whatever was evicted
\* and read again in between.
Contents ==
    [s \in Sector |-> IF Cached(s) = {} THEN disk[s] ELSE data[First(Cached(s))]]
Store == INSTANCE SectorStore WITH content <- Contents
ImplementsStore == Store!Spec

\* "Get a locked buffer for `sector`" (bread): while a thread uses a buffer
\* no other thread has it.
ExclusiveAccess == \A b \in Buf : Cardinality(Holders(b)) <= 1
=============================================================================
