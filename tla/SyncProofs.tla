------------------------------ MODULE SyncProofs ------------------------------
(***************************************************************************)
(* Mutual exclusion of the sleeping locks, and the exactness of the ready  *)
(* list and of the wait queues, for any number of threads, locks, events   *)
(* and priorities.                                                         *)
(***************************************************************************)
EXTENDS Sync, QueueLemmas

-----------------------------------------------------------------------------
(* block, unblock and yield_current keep READY_LIST exact: each primitive  *)
(* changes who is Blocked as its name says, and whatever the priorities    *)
(* are, the ready list afterwards holds each Ready thread once.            *)

SchedOK == SchedTypeOK /\ ReadyListExact

(* The dispatcher is in order when its current thread, its statuses and    *)
(* READY_LIST are, now and after a step.                                   *)
LEMMA SchedOKMeans ==
    /\ SchedOK <=> DispatcherOK(Thread, Idle, cur, status, ready)
    /\ SchedOK' <=> DispatcherOK(Thread, Idle, cur', status', ready')
<1>1. SchedOK <=> DispatcherOK(Thread, Idle, cur, status, ready)
  BY IdleAssumption, Zenon
     DEF SchedOK, SchedTypeOK, ReadyListExact, DispatcherOK, QueueExact, Everyone, Statuses
<1>2. SchedOK' <=> DispatcherOK(Thread, Idle, cur', status', ready')
  BY IdleAssumption, Zenon
     DEF SchedOK, SchedTypeOK, ReadyListExact, DispatcherOK, QueueExact, Everyone, Statuses
<1> QED
  BY <1>1, <1>2

(* schedule() takes the thread at some position of READY_LIST, or idle.    *)
LEMMA ScheduleMeans ==
    ASSUME NEW st, NEW q, NEW pri, Schedule(st, q, pri)
    PROVE  Dispatched(Idle, st, q, cur', status', ready')
BY Zenon DEF Schedule, FirstHighest, Dispatched

(* block() makes the caller, and nobody else, Blocked.                     *)
LEMMA BlockExact ==
    ASSUME SchedOK, Block
    PROVE  /\ SchedOK'
           /\ \A t \in Thread : status'[t] = "Blocked" <=> status[t] = "Blocked" \/ t = cur
<1>1. PICK s : Marked(status, cur, "Blocked", s)
  BY DEF Marked
<1>2. Dispatched(Idle, s, ready, cur', status', ready')
  BY <1>1, ScheduleMeans DEF Block, Marked
<1> QED
  BY <1>1, <1>2, SchedOKMeans, DispatchBlocked

(* yield_current(), from any ready list that is exact, changes no thread's *)
(* being Blocked.                                                          *)
LEMMA YieldExact ==
    ASSUME NEW st \in [Everyone -> Statuses], NEW q \in Seq(Thread), NEW pri,
           cur \in Everyone,
           IsInjective(q),
           \A t \in Everyone : st[t] = "Running" <=> t = cur,
           \A t \in Thread : st[t] = "Ready" <=> t \in Range(q),
           YieldFrom(st, q, pri)
    PROVE  /\ SchedOK'
           /\ \A t \in Thread : status'[t] = "Blocked" <=> st[t] = "Blocked"
<1>1. DispatcherOK(Thread, Idle, cur, st, q)
  BY IdleAssumption, Zenon DEF DispatcherOK, QueueExact, Everyone
<1>2. PICK s, p : Marked(st, cur, "Ready", s) /\ IF cur = Idle THEN p = q ELSE Queued(q, cur, p)
  BY DEF Marked, Queued
<1>3. Dispatched(Idle, s, p, cur', status', ready')
  BY <1>2, ScheduleMeans DEF YieldFrom, Marked, Queued
<1> QED
  BY <1>1, <1>2, <1>3, SchedOKMeans, DispatchYielded DEF SameBlocked

(* unblock(w) makes w, and nobody else, no longer Blocked: in an interrupt *)
(* handler,                                                                *)
LEMMA MakeReadyExact ==
    ASSUME SchedOK, NEW w \in Thread, status[w] = "Blocked", MakeReady(w)
    PROVE  /\ SchedOK'
           /\ \A t \in Thread : status'[t] = "Blocked" <=> status[t] = "Blocked" /\ t # w
<1>1. Marked(status, w, "Ready", status') /\ Queued(ready, w, ready') /\ cur' = cur
  BY DEF MakeReady, Marked, Queued
<1> QED
  BY <1>1, SchedOKMeans, DispatchReady

(* and in a thread, where it may yield to w.                               *)
LEMMA UnblockExact ==
    ASSUME SchedOK, NEW w \in Thread, status[w] = "Blocked", Unblock(w)
    PROVE  /\ SchedOK'
           /\ \A t \in Thread : status'[t] = "Blocked" <=> status[t] = "Blocked" /\ t # w
<1>1. CASE MakeReady(w)
  BY <1>1, MakeReadyExact
<1>2. CASE YieldFrom([status EXCEPT ![w] = "Ready"], Append(ready, w), priority)
  <2>1. PICK st, q : Marked(status, w, "Ready", st) /\ Queued(ready, w, q)
    BY DEF Marked, Queued
  <2>2. /\ DispatcherOK(Thread, Idle, cur, st, q)
        /\ \A t \in Thread : st[t] = "Blocked" <=> status[t] = "Blocked" /\ t # w
    <3>1. DispatcherOK(Thread, Idle, cur, st, q)
      BY <2>1, SchedOKMeans, DispatchReady
    <3>2. \A t \in Thread : st[t] = "Blocked" <=> status[t] = "Blocked" /\ t # w
      BY <2>1 DEF Marked, SchedOK, SchedTypeOK, Everyone
    <3> QED
      BY <3>1, <3>2
  <2>3. /\ st \in [Everyone -> Statuses] /\ q \in Seq(Thread) /\ IsInjective(q)
        /\ cur \in Everyone /\ \A t \in Everyone : st[t] = "Running" <=> t = cur
        /\ \A t \in Thread : st[t] = "Ready" <=> t \in Range(q)
    BY <2>2, Zenon DEF DispatcherOK, QueueExact, Everyone
  <2>4. YieldFrom(st, q, priority)
    BY <1>2, <2>1 DEF Marked, Queued
  <2>5. SchedOK' /\ \A t \in Thread : status'[t] = "Blocked" <=> st[t] = "Blocked"
    BY <2>3, <2>4, YieldExact
  <2> QED
    BY <2>2, <2>5
<1> QED
  BY <1>1, <1>2 DEF Unblock

-----------------------------------------------------------------------------
(* The inductive invariant.  Neither half stands alone: the queues tell    *)
(* that the thread an up wakes is Blocked, the program points which thread *)
(* gives a lock's token back.                                              *)
IInv == /\ TypeOK
        /\ ReadyListExact
        /\ WaitQueuesExact
        /\ ProgramPoints
        /\ LockToken

(* The dispatcher's part of the invariant.                                 *)
LEMMA IInvSched == IInv => SchedOK
BY DEF IInv, TypeOK, SchedOK

LEMMA InitIInv == Init => IInv
<1> SUFFICES ASSUME Init PROVE IInv
  OBVIOUS
<1>1. Cardinality(Thread) - 1 \in Nat
  <2>1. Cardinality(Thread) \in Nat
    BY SyncAssumption, FS_CardinalityType
  <2>2. Cardinality(Thread) # 0
    BY SyncAssumption, FS_EmptySet DEF Init
  <2> QED
    BY <2>1, <2>2
<1>2. ready \in Seq(Thread) /\ IsInjective(ready) /\ Range(ready) = Thread \ {cur}
  <2>1. /\ ready \in [1..(Cardinality(Thread) - 1) -> Thread]
        /\ IsInjective(ready) /\ Range(ready) = Thread \ {cur}
    BY DEF Init
  <2> DEFINE n == Cardinality(Thread) - 1
  <2>2. n \in Nat /\ ready \in [1..n -> Thread]
    BY <1>1, <2>1
  <2> HIDE DEF n
  <2>3. ready \in Seq(Thread)
    BY <2>2
  <2> QED
    BY <2>1, <2>3
<1>3. TypeOK
  <2>1. SchedTypeOK
    BY <1>2 DEF Init, SchedTypeOK, Everyone
  <2>2. priority \in [Everyone -> Int] /\ original \in [Everyone -> Int]
    BY SyncAssumption DEF Init
  <2>3. waitingOn \in [Everyone -> Lock \cup {Null}] /\ holder \in [Lock -> Thread \cup {Null}]
    BY DEF Init
  <2>4. value \in [Sema -> Nat] /\ waiters \in [Sema -> Seq(Thread)]
    BY DEF Init
  <2>5. pc \in [Everyone -> PCs] /\ arg \in [Everyone -> Sema \cup {Null}]
    BY DEF Init, PCs
  <2> QED
    BY <2>1, <2>2, <2>3, <2>4, <2>5 DEF TypeOK
<1>4. ReadyListExact
  BY <1>2, IdleAssumption DEF Init, ReadyListExact, Everyone
<1>5. WaitQueuesExact
  <2>1. \A t \in Thread : status[t] # "Blocked"
    BY IdleAssumption DEF Init, Everyone
  <2>2. \A s \in Sema : IsInjective(waiters[s]) /\ Range(waiters[s]) = {}
    BY DEF Init, IsInjective, Range
  <2> QED
    BY <2>1, <2>2 DEF WaitQueuesExact
<1>6. ProgramPoints
  BY IdleAssumption DEF Init, ProgramPoints, Everyone
<1>7. LockToken
  BY SyncAssumption DEF Init, LockToken, HasToken, Everyone, Sema
<1> QED
  BY <1>3, <1>4, <1>5, <1>6, <1>7 DEF IInv

(* A step of the dispatcher alone, that blocks and wakes no thread.        *)
LEMMA SchedulingStep ==
    ASSUME IInv, SchedOK',
           \A t \in Thread : status'[t] = "Blocked" <=> status[t] = "Blocked",
           priority' \in [Everyone -> Int], original' \in [Everyone -> Int],
           UNCHANGED <<waitingOn, holder, value, waiters, pc, arg>>
    PROVE  IInv'
<1>1. TypeOK' /\ ReadyListExact'
  BY DEF IInv, TypeOK, SchedOK
<1>2. WaitQueuesExact'
  BY DEF IInv, WaitQueuesExact
<1>3. ProgramPoints'
  BY DEF IInv, ProgramPoints
<1>4. LockToken'
  BY DEF IInv, LockToken, HasToken, Owners
<1> QED
  BY <1>1, <1>2, <1>3, <1>4 DEF IInv

(* yield_current() from where the invariant holds.                         *)
LEMMA PlainYield ==
    ASSUME IInv, NEW pri, YieldFrom(status, ready, pri)
    PROVE  /\ SchedOK'
           /\ \A t \in Thread : status'[t] = "Blocked" <=> status[t] = "Blocked"
BY YieldExact, Zenon DEF IInv, TypeOK, SchedTypeOK, ReadyListExact, Statuses

(* A step that only moves the running thread on in its program: the        *)
(* queues stay exact, because that thread is in none of them.              *)
LEMMA RunningStep ==
    ASSUME IInv, cur \in Thread,
           NEW l \in PCs, NEW s \in Sema \cup {Null}, Goto(l, s),
           UNCHANGED <<schedVars, waiters>>
    PROVE  /\ SchedTypeOK' /\ ReadyListExact' /\ WaitQueuesExact'
           /\ pc' \in [Everyone -> PCs]
           /\ arg' \in [Everyone -> Sema \cup {Null}]
           /\ \A t \in Thread : pc'[t] = IF t = cur THEN l ELSE pc[t]
           /\ \A t \in Thread : arg'[t] = IF t = cur THEN s ELSE arg[t]
           /\ status'[cur] # "Blocked"
<1>1. SchedTypeOK' /\ ReadyListExact'
  BY DEF IInv, TypeOK, SchedTypeOK, ReadyListExact, schedVars
<1>2. /\ pc' \in [Everyone -> PCs]
      /\ arg' \in [Everyone -> Sema \cup {Null}]
      /\ \A t \in Thread : pc'[t] = IF t = cur THEN l ELSE pc[t]
      /\ \A t \in Thread : arg'[t] = IF t = cur THEN s ELSE arg[t]
  BY DEF IInv, TypeOK, Goto, Everyone
<1>3. status[cur] # "Blocked"
  BY DEF IInv, ReadyListExact, Everyone
<1>4. WaitQueuesExact'
  BY <1>2, <1>3 DEF IInv, WaitQueuesExact, schedVars
<1> QED
  BY <1>1, <1>2, <1>3, <1>4 DEF schedVars

(* LockToken, spelled out for the thread that has the token.               *)
LEMMA TokenUnique ==
    ASSUME IInv, NEW l \in Lock, NEW t \in Thread, HasToken(t, l)
    PROVE  value[l] = 0 /\ \A u \in Thread : HasToken(u, l) <=> u = t
BY DEF IInv, LockToken, Owners

(* A decrement that finds the value positive takes the lock's token.       *)
LEMMA TakeTokenStep ==
    ASSUME IInv, cur \in Thread, NEW s \in Sema, NEW after \in {"clear", "set"},
           pc[cur] \in {"run", "down", "loop"},
           value[s] > 0,
           value' = [value EXCEPT ![s] = @ - 1],
           IF s \in Lock THEN Goto(after, s) ELSE Return,
           UNCHANGED <<schedVars, priority, original, waitingOn, holder, waiters>>
    PROVE  IInv'
<1>0. PICK l \in PCs, r \in Sema \cup {Null} :
         /\ Goto(l, r)
         /\ s \in Lock => l = after /\ r = s
         /\ s \notin Lock => l = "run" /\ r = Null
  BY DEF Return, PCs
<1>1. /\ SchedTypeOK' /\ ReadyListExact' /\ WaitQueuesExact'
      /\ pc' \in [Everyone -> PCs]
      /\ arg' \in [Everyone -> Sema \cup {Null}]
      /\ \A t \in Thread : pc'[t] = IF t = cur THEN l ELSE pc[t]
      /\ \A t \in Thread : arg'[t] = IF t = cur THEN r ELSE arg[t]
      /\ status'[cur] # "Blocked"
  BY <1>0, RunningStep
<1>2. /\ value' \in [Sema -> Nat]
      /\ \A x \in Sema : value'[x] = IF x = s THEN value[s] - 1 ELSE value[x]
  BY DEF IInv, TypeOK
<1>3. TypeOK'
  BY <1>1, <1>2 DEF IInv, TypeOK
<1>4. ProgramPoints'
  BY <1>0, <1>1 DEF IInv, ProgramPoints, schedVars
<1>5. LockToken'
  <2> SUFFICES ASSUME NEW m \in Lock
               PROVE  \/ value'[m] = 1 /\ \A t \in Thread : ~HasToken(t, m)'
                      \/ value'[m] = 0 /\ \E t \in Thread : Owners(m)' = {t}
    BY DEF LockToken
  <2>0. m \in Sema /\ m # Null /\ holder' = holder
    BY SyncAssumption DEF Sema
  <2>1. CASE m = s
    <3>1. value[m] = 1 /\ value'[m] = 0 /\ \A t \in Thread : ~HasToken(t, m)
      BY <1>2, <2>0, <2>1 DEF IInv, LockToken
    <3>2. \A t \in Thread : HasToken(t, m)' <=> t = cur
      BY <1>0, <1>1, <2>0, <2>1, <3>1 DEF HasToken
    <3> QED
      BY <3>1, <3>2 DEF Owners
  <2>2. CASE m # s
    <3>1. \A t \in Thread : HasToken(t, m)' <=> HasToken(t, m)
      BY <1>0, <1>1, <2>0, <2>2 DEF HasToken
    <3> QED
      BY <1>2, <2>0, <2>2, <3>1 DEF IInv, LockToken, Owners
  <2> QED
    BY <2>1, <2>2
<1> QED
  BY <1>1, <1>3, <1>4, <1>5 DEF IInv

(* Semaphore::down.                                                        *)
LEMMA DownStep ==
    ASSUME IInv, cur \in Thread, NEW s \in Sema, Down(s),
           pc[cur] \in {"run", "down", "loop"}
    PROVE  IInv'
<1>1. CASE /\ value[s] = 0
           /\ waiters' = [waiters EXCEPT ![s] = Append(@, cur)]
           /\ Block
           /\ Goto("loop", s)
           /\ UNCHANGED value
  <2>1. /\ SchedOK'
        /\ \A t \in Thread : status'[t] = "Blocked" <=> status[t] = "Blocked" \/ t = cur
    BY <1>1, IInvSched, BlockExact
  <2>2. /\ pc' \in [Everyone -> PCs]
        /\ arg' \in [Everyone -> Sema \cup {Null}]
        /\ \A t \in Thread : pc'[t] = IF t = cur THEN "loop" ELSE pc[t]
        /\ \A t \in Thread : arg'[t] = IF t = cur THEN s ELSE arg[t]
    BY <1>1 DEF IInv, TypeOK, Goto, Everyone, PCs
  <2>3. status[cur] # "Blocked"
    BY DEF IInv, ReadyListExact, Everyone
  <2>4. /\ waiters' \in [Sema -> Seq(Thread)]
        /\ \A r \in Sema : r # s => waiters'[r] = waiters[r]
        /\ waiters'[s] = Append(waiters[s], cur)
    BY <1>1 DEF IInv, TypeOK
  <2>5. IsInjective(waiters'[s]) /\ Range(waiters'[s]) = Range(waiters[s]) \cup {cur}
    <3>1. waiters[s] \in Seq(Thread) /\ IsInjective(waiters[s]) /\ cur \notin Range(waiters[s])
      BY <2>3 DEF IInv, TypeOK, WaitQueuesExact
    <3> QED
      BY <2>4, <3>1, AppendQueue
  <2>6. TypeOK' /\ ReadyListExact'
    BY <1>1, <2>1, <2>2, <2>4 DEF IInv, TypeOK, SchedOK, Down
  <2>7. WaitQueuesExact'
    <3>1. \A t \in Thread : status'[t] = "Blocked" => arg'[t] \in Sema
      BY <2>1, <2>2 DEF IInv, WaitQueuesExact
    <3>2. ASSUME NEW r \in Sema
          PROVE  /\ IsInjective(waiters'[r])
                 /\ \A t \in Thread : t \in Range(waiters'[r])
                                         <=> status'[t] = "Blocked" /\ arg'[t] = r
      <4>1. CASE r = s
        BY <2>1, <2>2, <2>3, <2>5, <4>1 DEF IInv, WaitQueuesExact
      <4>2. CASE r # s
        <5>1. /\ IsInjective(waiters[r])
              /\ \A t \in Thread : t \in Range(waiters[r])
                                      <=> status[t] = "Blocked" /\ arg[t] = r
          BY DEF IInv, WaitQueuesExact
        <5>2. waiters'[r] = waiters[r]
          BY <2>4, <4>2
        <5>3. \A t \in Thread : status'[t] = "Blocked" /\ arg'[t] = r
                                   <=> status[t] = "Blocked" /\ arg[t] = r
          BY <2>1, <2>2, <2>3, <4>2
        <5> QED
          BY <5>1, <5>2, <5>3
      <4> QED
        BY <4>1, <4>2
    <3> QED
      BY <3>1, <3>2 DEF WaitQueuesExact
  <2>8. ProgramPoints'
    BY <2>1, <2>2 DEF IInv, ProgramPoints, Down
  <2>9. LockToken'
    BY <1>1, <2>2 DEF IInv, LockToken, HasToken, Owners, Down
  <2> QED
    BY <2>6, <2>7, <2>8, <2>9 DEF IInv
<1>2. CASE /\ value[s] > 0
           /\ value' = [value EXCEPT ![s] = @ - 1]
           /\ IF s \in Lock THEN Goto("clear", s) ELSE Return
           /\ UNCHANGED <<waiters, schedVars>>
  BY <1>2, TakeTokenStep, Zenon DEF Down
<1> QED
  BY <1>1, <1>2 DEF Down

(* The thread that an up takes from the queue is Blocked, and with it      *)
(* awake the queues are exact again.                                       *)
LEMMA WakeStep ==
    ASSUME IInv, NEW s \in Sema, NEW i \in DOMAIN waiters[s],
           waiters' = [waiters EXCEPT ![s] = RemoveAt(@, i)]
    PROVE  /\ waiters[s][i] \in Thread
           /\ status[waiters[s][i]] = "Blocked"
           /\ waiters' \in [Sema -> Seq(Thread)]
           /\ (\A t \in Thread : /\ status'[t] = "Blocked"
                                     <=> status[t] = "Blocked" /\ t # waiters[s][i]
                                 /\ status[t] = "Blocked" => arg'[t] = arg[t])
              => WaitQueuesExact'
<1> DEFINE w == waiters[s][i]
<1>1. waiters[s] \in Seq(Thread) /\ IsInjective(waiters[s])
  BY DEF IInv, TypeOK, WaitQueuesExact
<1>2. w \in Thread /\ w \in Range(waiters[s])
  BY <1>1, ElementOfSeq, LenProperties DEF Range
<1>3. status[w] = "Blocked" /\ arg[w] = s
  BY <1>2 DEF IInv, WaitQueuesExact
<1>4. /\ RemoveAt(waiters[s], i) \in Seq(Thread)
      /\ IsInjective(RemoveAt(waiters[s], i))
      /\ Range(RemoveAt(waiters[s], i)) = Range(waiters[s]) \ {w}
  BY <1>1, RemoveAtQueue
<1>5. /\ waiters' \in [Sema -> Seq(Thread)]
      /\ \A r \in Sema : waiters'[r] = IF r = s THEN RemoveAt(waiters[s], i) ELSE waiters[r]
  BY <1>4 DEF IInv, TypeOK
<1>6. ASSUME \A t \in Thread : /\ status'[t] = "Blocked" <=> status[t] = "Blocked" /\ t # w
                               /\ status[t] = "Blocked" => arg'[t] = arg[t]
      PROVE  WaitQueuesExact'
  <2>1. \A t \in Thread : status'[t] = "Blocked" => arg'[t] \in Sema
    BY <1>6 DEF IInv, WaitQueuesExact
  <2>2. ASSUME NEW r \in Sema
        PROVE  /\ IsInjective(waiters'[r])
               /\ \A t \in Thread : t \in Range(waiters'[r])
                                       <=> status'[t] = "Blocked" /\ arg'[t] = r
    <3>1. \A t \in Thread : t \in Range(waiters[r]) <=> status[t] = "Blocked" /\ arg[t] = r
      BY DEF IInv, WaitQueuesExact
    <3>2. IsInjective(waiters'[r])
      BY <1>4, <1>5 DEF IInv, WaitQueuesExact
    <3>3. \A t \in Thread : t \in Range(waiters'[r]) <=> t \in Range(waiters[r]) /\ t # w
      <4>1. CASE r = s
        BY <1>4, <1>5, <4>1
      <4>2. CASE r # s
        <5>1. waiters'[r] = waiters[r]
          BY <1>5, <4>2
        <5>2. w \notin Range(waiters[r])
          BY <1>2, <1>3, <3>1, <4>2
        <5> QED
          BY <5>1, <5>2
      <4> QED
        BY <4>1, <4>2
    <3> QED
      BY <1>6, <3>1, <3>2, <3>3
  <2> QED
    BY <2>1, <2>2 DEF WaitQueuesExact
<1> QED
  BY <1>2, <1>3, <1>5, <1>6

(* The token of a lock goes back with the increment, whenever it happens.  *)
LEMMA UpToken ==
    ASSUME IInv, cur \in Thread, NEW s \in Sema,
           \/ pc[cur] \in {"up", "incr"} /\ arg[cur] = s
           \/ pc[cur] = "run" /\ s \notin Lock,
           \/ value' = [value EXCEPT ![s] = @ + 1] /\ Return
           \/ value' = value /\ Goto("incr", s),
           holder' = holder
    PROVE  /\ value' \in [Sema -> Nat]
           /\ pc' \in [Everyone -> PCs]
           /\ arg' \in [Everyone -> Sema \cup {Null}]
           /\ \A t \in Thread : t # cur => pc'[t] = pc[t] /\ arg'[t] = arg[t]
           /\ LockToken'
           /\ (\A t \in Thread : status'[t] = "Blocked" => status[t] = "Blocked")
              => ProgramPoints'
<1>1. PICK l \in {"run", "incr"}, r \in {Null, s} :
         /\ Goto(l, r)
         /\ l = "run" => r = Null /\ value' = [value EXCEPT ![s] = @ + 1]
         /\ l = "incr" => r = s /\ value' = value
  BY DEF Return
<1>2. /\ pc' \in [Everyone -> PCs]
      /\ arg' \in [Everyone -> Sema \cup {Null}]
      /\ \A t \in Thread : pc'[t] = IF t = cur THEN l ELSE pc[t]
      /\ \A t \in Thread : arg'[t] = IF t = cur THEN r ELSE arg[t]
  BY <1>1 DEF IInv, TypeOK, Goto, Everyone, PCs
<1>3. /\ value' \in [Sema -> Nat]
      /\ \A x \in Sema : value'[x] = IF x = s /\ l = "run" THEN value[x] + 1 ELSE value[x]
  <2> value \in [Sema -> Nat]
    BY DEF IInv, TypeOK
  <2>1. CASE l = "run"
    BY <1>1, <2>1
  <2>2. CASE l = "incr"
    BY <1>1, <2>2
  <2> QED
    BY <2>1, <2>2
<1>4. status[cur] # "Blocked"
  BY DEF IInv, ReadyListExact, Everyone
<1>5. s \in Lock => holder[s] = Null
  BY DEF IInv, ProgramPoints
<1>6. LockToken'
  <2> SUFFICES ASSUME NEW m \in Lock
               PROVE  \/ value'[m] = 1 /\ \A t \in Thread : ~HasToken(t, m)'
                      \/ value'[m] = 0 /\ \E t \in Thread : Owners(m)' = {t}
    BY DEF LockToken
  <2>0. m \in Sema /\ m # Null /\ Null \notin Thread
    BY SyncAssumption DEF Sema, Everyone
  <2>1. CASE m = s
    <3>1. HasToken(cur, m)
      BY <2>1 DEF HasToken
    <3>2. value[m] = 0 /\ \A t \in Thread : HasToken(t, m) <=> t = cur
      BY <3>1, TokenUnique
    <3>3. \A t \in Thread : t # cur => ~HasToken(t, m)'
      BY <1>2, <3>2 DEF HasToken
    <3>4. CASE l = "run"
      <4>1. value'[m] = 1
        BY <1>3, <2>0, <2>1, <3>2, <3>4
      <4>2. \A t \in Thread : t = cur => ~HasToken(t, m)'
        BY <1>2, <1>5, <2>0, <2>1, <3>4 DEF HasToken
      <4> QED
        BY <3>3, <4>1, <4>2
    <3>5. CASE l = "incr"
      <4>1. value'[m] = 0
        BY <1>3, <2>0, <2>1, <3>2, <3>5
      <4>2. \A t \in Thread : t = cur => HasToken(t, m)'
        BY <1>1, <1>2, <2>1, <3>5 DEF HasToken
      <4> QED
        BY <3>3, <4>1, <4>2 DEF Owners
    <3> QED
      BY <3>4, <3>5
  <2>2. CASE m # s
    <3>1. \A t \in Thread : HasToken(t, m)' <=> HasToken(t, m)
      BY <1>1, <1>2, <2>0, <2>2 DEF HasToken
    <3> QED
      BY <1>3, <2>0, <2>2, <3>1 DEF IInv, LockToken, Owners
  <2> QED
    BY <2>1, <2>2
<1>7. ASSUME \A t \in Thread : status'[t] = "Blocked" => status[t] = "Blocked"
      PROVE  ProgramPoints'
  BY <1>1, <1>2, <1>4, <1>5, <1>7 DEF IInv, ProgramPoints
<1> QED
  BY <1>2, <1>3, <1>6, <1>7

(* Semaphore::up called by a thread.                                       *)
LEMMA UpStep ==
    ASSUME IInv, cur \in Thread, NEW s \in Sema, Up(s),
           \/ pc[cur] = "up" /\ arg[cur] = s
           \/ pc[cur] = "run" /\ s \notin Lock
    PROVE  IInv'
<1>1. UNCHANGED <<priority, original, waitingOn, holder>>
  BY DEF Up
<1>2. status[cur] # "Blocked"
  BY DEF IInv, ReadyListExact, Everyone
<1>3. CASE /\ waiters[s] = <<>>
           /\ value' = [value EXCEPT ![s] = @ + 1]
           /\ Return
           /\ UNCHANGED <<waiters, schedVars>>
  <2>1. /\ value' \in [Sema -> Nat]
        /\ LockToken'
        /\ (\A t \in Thread : status'[t] = "Blocked" => status[t] = "Blocked")
           => ProgramPoints'
    BY <1>1, <1>3, UpToken, Zenon
  <2>2. /\ SchedTypeOK' /\ ReadyListExact' /\ WaitQueuesExact'
        /\ pc' \in [Everyone -> PCs]
        /\ arg' \in [Everyone -> Sema \cup {Null}]
    BY <1>3, RunningStep DEF Return, PCs
  <2>3. TypeOK'
    BY <1>1, <1>3, <2>1, <2>2 DEF IInv, TypeOK
  <2> QED
    BY <1>3, <2>1, <2>2, <2>3 DEF IInv, schedVars
<1>4. ASSUME NEW i \in DOMAIN waiters[s],
             waiters' = [waiters EXCEPT ![s] = RemoveAt(@, i)],
             Unblock(waiters[s][i]),
             \/ value' = [value EXCEPT ![s] = @ + 1] /\ Return
             \/ value' = value /\ Goto("incr", s)
      PROVE  IInv'
  <2> DEFINE w == waiters[s][i]
  <2>1. /\ w \in Thread /\ status[w] = "Blocked"
        /\ waiters' \in [Sema -> Seq(Thread)]
    BY <1>4, WakeStep, Zenon
  <2>2. /\ SchedOK'
        /\ \A t \in Thread : status'[t] = "Blocked" <=> status[t] = "Blocked" /\ t # w
    BY <1>4, <2>1, IInvSched, UnblockExact
  <2>3. /\ value' \in [Sema -> Nat]
        /\ pc' \in [Everyone -> PCs]
        /\ arg' \in [Everyone -> Sema \cup {Null}]
        /\ \A t \in Thread : t # cur => pc'[t] = pc[t] /\ arg'[t] = arg[t]
        /\ LockToken'
        /\ (\A t \in Thread : status'[t] = "Blocked" => status[t] = "Blocked")
           => ProgramPoints'
    BY <1>1, <1>4, UpToken
  <2>4. WaitQueuesExact'
    <3>1. \A t \in Thread : /\ status'[t] = "Blocked" <=> status[t] = "Blocked" /\ t # w
                            /\ status[t] = "Blocked" => arg'[t] = arg[t]
      BY <1>2, <2>2, <2>3
    <3> QED
      BY <1>4, <3>1, WakeStep, ZenonT(40)
  <2>5. TypeOK' /\ ReadyListExact'
    BY <1>1, <2>1, <2>2, <2>3 DEF IInv, TypeOK, SchedOK
  <2> QED
    BY <2>2, <2>3, <2>4, <2>5 DEF IInv
<1>5. ASSUME NEW i \in FirstHighest(waiters[s], priority),
             LET w == waiters[s][i]
                 yields == priority[w] > priority[cur]
             IN  /\ waiters' = [waiters EXCEPT ![s] = RemoveAt(@, i)]
                 /\ Unblock(w)
                 /\ value' = IF yields THEN value ELSE [value EXCEPT ![s] = @ + 1]
                 /\ IF yields THEN Goto("incr", s) ELSE Return
      PROVE  IInv'
  <2>1. i \in DOMAIN waiters[s]
    BY DEF FirstHighest
  <2>2. CASE priority[waiters[s][i]] > priority[cur]
    BY <1>4, <1>5, <2>1, <2>2, Zenon
  <2>3. CASE ~(priority[waiters[s][i]] > priority[cur])
    BY <1>4, <1>5, <2>1, <2>3, Zenon
  <2> QED
    BY <2>2, <2>3
<1> QED
  BY <1>3, <1>5 DEF Up

(* Semaphore::up called by an interrupt handler, on an event.              *)
LEMMA IrqUpStep ==
    ASSUME IInv, NEW s \in Event, IrqUp(s)
    PROVE  IInv'
<1>0. s \in Sema /\ s \notin Lock
  BY SyncAssumption DEF Sema
<1>1. /\ value' = [value EXCEPT ![s] = @ + 1]
      /\ UNCHANGED <<priority, original, waitingOn, holder, pc, arg>>
  BY DEF IrqUp
<1>2. /\ value' \in [Sema -> Nat]
      /\ \A l \in Lock : value'[l] = value[l]
  BY <1>0, <1>1 DEF IInv, TypeOK, Sema
<1>3. LockToken'
  BY <1>1, <1>2 DEF IInv, LockToken, HasToken, Owners
<1>4. CASE waiters[s] = <<>> /\ UNCHANGED <<waiters, schedVars>>
  <2>1. TypeOK'
    BY <1>1, <1>2, <1>4 DEF IInv, TypeOK, SchedTypeOK, schedVars
  <2>2. ReadyListExact' /\ WaitQueuesExact' /\ ProgramPoints'
    BY <1>1, <1>4 DEF IInv, ReadyListExact, WaitQueuesExact, ProgramPoints, schedVars
  <2> QED
    BY <1>3, <2>1, <2>2 DEF IInv
<1>5. CASE \E i \in FirstHighest(waiters[s], priority) :
             /\ waiters' = [waiters EXCEPT ![s] = RemoveAt(@, i)]
             /\ MakeReady(waiters[s][i])
  <2>1. PICK i \in DOMAIN waiters[s] :
           /\ waiters' = [waiters EXCEPT ![s] = RemoveAt(@, i)]
           /\ MakeReady(waiters[s][i])
    BY <1>5, Zenon DEF FirstHighest
  <2> DEFINE w == waiters[s][i]
  <2>2. /\ w \in Thread /\ status[w] = "Blocked"
        /\ waiters' \in [Sema -> Seq(Thread)]
    BY <1>0, <2>1, WakeStep, Zenon
  <2>3. /\ SchedOK'
        /\ \A t \in Thread : status'[t] = "Blocked" <=> status[t] = "Blocked" /\ t # w
    BY <2>1, <2>2, IInvSched, MakeReadyExact
  <2>4. WaitQueuesExact'
    BY <1>0, <1>1, <2>1, <2>3, WakeStep, ZenonT(40)
  <2>5. TypeOK' /\ ReadyListExact'
    BY <1>1, <1>2, <2>2, <2>3 DEF IInv, TypeOK, SchedOK
  <2>6. ProgramPoints'
    BY <1>1, <2>3 DEF IInv, ProgramPoints
  <2> QED
    BY <1>3, <2>4, <2>5, <2>6 DEF IInv
<1> QED
  BY <1>4, <1>5 DEF IrqUp

(* A step of acquire or release that leaves the semaphore alone and keeps  *)
(* every token where it is.                                                *)
LEMMA KeepTokenStep ==
    ASSUME IInv, cur \in Thread,
           NEW l \in PCs, NEW s \in Lock \cup {Null}, Goto(l, s),
           l = "run" <=> s = Null,
           l \in {"up", "incr"} => s \in Lock /\ holder'[s] = Null,
           \A t \in Thread, m \in Lock : HasToken(t, m)' <=> HasToken(t, m),
           \A t \in Thread : t # cur /\ pc[t] \in {"up", "incr"} /\ arg[t] \in Lock
                                => holder'[arg[t]] = Null,
           priority' \in [Everyone -> Int],
           waitingOn' \in [Everyone -> Lock \cup {Null}],
           holder' \in [Lock -> Thread \cup {Null}],
           UNCHANGED <<schedVars, original, value, waiters>>
    PROVE  IInv'
<1>1. /\ SchedTypeOK' /\ ReadyListExact' /\ WaitQueuesExact'
      /\ pc' \in [Everyone -> PCs]
      /\ arg' \in [Everyone -> Sema \cup {Null}]
      /\ \A t \in Thread : pc'[t] = IF t = cur THEN l ELSE pc[t]
      /\ \A t \in Thread : arg'[t] = IF t = cur THEN s ELSE arg[t]
      /\ status'[cur] # "Blocked"
  BY RunningStep DEF Sema
<1>2. TypeOK'
  BY <1>1 DEF IInv, TypeOK
<1>3. ProgramPoints'
  <2> SUFFICES ASSUME NEW t \in Thread
               PROVE  /\ status'[t] = "Blocked" => pc'[t] = "loop"
                      /\ pc'[t] \in {"down", "clear", "set", "unhold", "up"} => arg'[t] \in Lock
                      /\ pc'[t] \in {"loop", "incr"} => arg'[t] \in Sema
                      /\ pc'[t] \in {"up", "incr"} /\ arg'[t] \in Lock => holder'[arg'[t]] = Null
    BY DEF ProgramPoints
  <2>1. CASE t = cur
    BY <1>1, <2>1 DEF Sema
  <2>2. CASE t # cur
    BY <1>1, <2>2 DEF IInv, ProgramPoints, schedVars
  <2> QED
    BY <2>1, <2>2
<1>4. LockToken'
  BY DEF IInv, LockToken, Owners
<1> QED
  BY <1>1, <1>2, <1>3, <1>4 DEF IInv

(* Every step keeps the invariant.                                         *)
LEMMA NextIInv == IInv /\ [Next]_vars => IInv'
<1> SUFFICES ASSUME IInv, [Next]_vars PROVE IInv'
  OBVIOUS
<1> USE DEF PCs
<1>0. Null \notin Thread /\ Null \notin Lock /\ Lock \subseteq Sema /\ Event \subseteq Sema
  BY SyncAssumption DEF Everyone, Sema
<1>1. CASE DownAgain
  BY <1>1, DownStep DEF DownAgain, At, IInv, ProgramPoints
<1>2. CASE UpIncrement
  <2>1. cur \in Thread /\ arg[cur] \in Sema
    BY <1>2 DEF UpIncrement, At, IInv, ProgramPoints
  <2>2. /\ value' \in [Sema -> Nat]
        /\ LockToken'
        /\ (\A t \in Thread : status'[t] = "Blocked" => status[t] = "Blocked")
           => ProgramPoints'
    BY <1>2, <2>1, UpToken, ZenonT(40) DEF UpIncrement, At
  <2>3. /\ SchedTypeOK' /\ ReadyListExact' /\ WaitQueuesExact'
        /\ pc' \in [Everyone -> PCs]
        /\ arg' \in [Everyone -> Sema \cup {Null}]
    BY <1>2, <2>1, RunningStep DEF UpIncrement, Return
  <2>4. TypeOK'
    BY <1>2, <2>2, <2>3 DEF IInv, TypeOK, UpIncrement
  <2> QED
    BY <1>2, <2>2, <2>3, <2>4 DEF IInv, UpIncrement, schedVars
<1>3. CASE AcquireDown
  BY <1>0, <1>3, DownStep DEF AcquireDown, At, IInv, ProgramPoints
<1>4. CASE AcquireClear
  <2>1. cur \in Thread /\ pc[cur] = "clear" /\ arg[cur] \in Lock
    BY <1>4, Zenon DEF AcquireClear, At, IInv, ProgramPoints
  <2>2. /\ Goto("set", arg[cur])
        /\ UNCHANGED <<schedVars, priority, original, holder, value, waiters>>
    BY <1>4 DEF AcquireClear
  <2>3. \A t \in Thread, m \in Lock : HasToken(t, m)' <=> HasToken(t, m)
    BY <2>1, <2>2 DEF HasToken, Goto, IInv, TypeOK, Everyone
  <2>4. waitingOn' \in [Everyone -> Lock \cup {Null}]
    BY <1>4, ZenonT(40) DEF AcquireClear, IInv, TypeOK
  <2> QED
    BY <1>0, <2>1, <2>2, <2>3, <2>4, KeepTokenStep, ZenonT(40) DEF IInv, TypeOK, ProgramPoints
<1>5. CASE AcquireSet
  <2>1. cur \in Thread /\ pc[cur] = "set" /\ arg[cur] \in Lock
    BY <1>5, Zenon DEF AcquireSet, At, IInv, ProgramPoints
  <2>2. /\ Goto("run", Null)
        /\ holder' = [holder EXCEPT ![arg[cur]] = cur]
        /\ UNCHANGED <<schedVars, priority, original, waitingOn, value, waiters>>
    BY <1>5 DEF AcquireSet, Return
  <2>3. \A t \in Thread : HasToken(t, arg[cur]) <=> t = cur
    BY <2>1, TokenUnique DEF HasToken
  <2>4. /\ holder' \in [Lock -> Thread \cup {Null}]
        /\ \A m \in Lock : holder'[m] = IF m = arg[cur] THEN cur ELSE holder[m]
    BY <2>1, <2>2 DEF IInv, TypeOK
  <2>5. \A t \in Thread, m \in Lock : HasToken(t, m)' <=> HasToken(t, m)
    BY <1>0, <2>1, <2>2, <2>3, <2>4 DEF HasToken, Goto, IInv, TypeOK, Everyone
  <2>6. ASSUME NEW t \in Thread, t # cur, pc[t] \in {"up", "incr"}, arg[t] \in Lock
        PROVE  holder'[arg[t]] = Null
    <3>1. arg[t] # arg[cur]
      BY <2>1, <2>3, <2>6 DEF HasToken
    <3> QED
      BY <2>4, <2>6, <3>1 DEF IInv, ProgramPoints
  <2> QED
    BY <1>0, <2>1, <2>2, <2>4, <2>5, <2>6, KeepTokenStep, Zenon DEF IInv, TypeOK
<1>6. CASE ReleaseUnhold
  <2>1. cur \in Thread /\ pc[cur] = "unhold" /\ arg[cur] \in Lock
    BY <1>6, Zenon DEF ReleaseUnhold, At, IInv, ProgramPoints
  <2>2. /\ Goto("up", arg[cur])
        /\ holder' = [holder EXCEPT ![arg[cur]] = Null]
        /\ UNCHANGED <<schedVars, priority, original, waitingOn, value, waiters>>
    BY <1>6 DEF ReleaseUnhold
  <2>3. \A t \in Thread : HasToken(t, arg[cur]) <=> t = cur
    BY <2>1, TokenUnique DEF HasToken
  <2>4. /\ holder' \in [Lock -> Thread \cup {Null}]
        /\ \A m \in Lock : holder'[m] = IF m = arg[cur] THEN Null ELSE holder[m]
    BY <2>1, <2>2 DEF IInv, TypeOK
  <2>5. \A t \in Thread, m \in Lock : HasToken(t, m)' <=> HasToken(t, m)
    BY <1>0, <2>1, <2>2, <2>3, <2>4 DEF HasToken, Goto, IInv, TypeOK, Everyone
  <2>6. \A t \in Thread : t # cur /\ pc[t] \in {"up", "incr"} /\ arg[t] \in Lock
                             => holder'[arg[t]] = Null
    BY <2>4 DEF IInv, ProgramPoints
  <2> QED
    BY <1>0, <2>1, <2>2, <2>4, <2>5, <2>6, KeepTokenStep, Zenon DEF IInv, TypeOK
<1>7. CASE ReleaseUp
  BY <1>0, <1>7, UpStep DEF ReleaseUp, At, IInv, ProgramPoints
<1>8. ASSUME NEW s \in Event, EventDown(s) PROVE IInv'
  BY <1>0, <1>8, DownStep DEF EventDown, At
<1>9. ASSUME NEW s \in Event, EventUp(s) PROVE IInv'
  BY <1>0, <1>9, SyncAssumption, UpStep DEF EventUp, At
<1>10. ASSUME NEW s \in Event, IrqUp(s) PROVE IInv'
  BY <1>10, IrqUpStep
<1>11. ASSUME NEW s \in Sema, TryDown(s) PROVE IInv'
  BY <1>11, TakeTokenStep, Zenon DEF TryDown, At
<1>12. ASSUME NEW l \in Lock, Acquire(l) PROVE IInv'
  <2>1. cur \in Thread /\ pc[cur] = "run"
    BY <1>12 DEF Acquire, At
  <2>2. /\ Goto("down", l)
        /\ UNCHANGED <<schedVars, original, holder, value, waiters>>
    BY <1>12, Zenon DEF Acquire
  <2>3. priority' \in [Everyone -> Int] /\ waitingOn' \in [Everyone -> Lock \cup {Null}]
    <3>1. priority[cur] \in Int
      BY <2>1 DEF IInv, TypeOK, Everyone
    <3> QED
      BY <1>12, <3>1, ZenonT(40) DEF Acquire, Donate, IInv, TypeOK
  <2>4. \A t \in Thread, m \in Lock : HasToken(t, m)' <=> HasToken(t, m)
    BY <2>1, <2>2 DEF HasToken, Goto, IInv, TypeOK, Everyone
  <2> QED
    BY <1>0, <2>1, <2>2, <2>3, <2>4, KeepTokenStep, Zenon DEF IInv, TypeOK, ProgramPoints
<1>13. ASSUME NEW l \in Lock, Release(l) PROVE IInv'
  <2>1. cur \in Thread /\ pc[cur] = "run" /\ holder[l] = cur
    BY <1>13 DEF Release, At
  <2>2. /\ Goto("unhold", l)
        /\ UNCHANGED <<schedVars, original, waitingOn, holder, value, waiters>>
    BY <1>13 DEF Release
  <2>3. priority' \in [Everyone -> Int]
    BY <1>13 DEF Release, IInv, TypeOK, SchedTypeOK
  <2>4. \A t \in Thread, m \in Lock : HasToken(t, m)' <=> HasToken(t, m)
    BY <2>1, <2>2 DEF HasToken, Goto, IInv, TypeOK, Everyone
  <2> QED
    BY <1>0, <2>1, <2>2, <2>3, <2>4, KeepTokenStep, ZenonT(40) DEF IInv, TypeOK, ProgramPoints
<1>14. ASSUME NEW p \in NewPri, SetPriority(p) PROVE IInv'
  <2>1. cur \in Everyone /\ p \in Int
    BY SyncAssumption DEF IInv, TypeOK, SchedTypeOK
  <2>2. /\ priority' \in [Everyone -> Int] /\ original' \in [Everyone -> Int]
        /\ UNCHANGED <<waitingOn, holder, value, waiters, pc, arg>>
    BY <1>14, <2>1 DEF SetPriority, IInv, TypeOK
  <2>3. CASE YieldFrom(status, ready, priority')
    BY <2>2, <2>3, PlainYield, SchedulingStep
  <2>4. CASE UNCHANGED schedVars
    BY <2>2, <2>4, SchedulingStep DEF schedVars, IInv, TypeOK, SchedOK, SchedTypeOK, ReadyListExact
  <2> QED
    BY <1>14, <2>3, <2>4 DEF SetPriority
<1>15. CASE Preempt
  BY <1>15, PlainYield, SchedulingStep, ZenonT(40) DEF Preempt, IInv, TypeOK
<1>16. CASE IdleBlock
  <2>1. /\ SchedOK'
        /\ \A t \in Thread : status'[t] = "Blocked" <=> status[t] = "Blocked" \/ t = cur
    BY <1>16, IInvSched, BlockExact DEF IdleBlock
  <2>2. \A t \in Thread : t # cur
    BY <1>16, IdleAssumption DEF IdleBlock
  <2> QED
    BY <1>16, <2>1, <2>2, SchedulingStep DEF IdleBlock, IInv, TypeOK
<1>17. CASE UNCHANGED vars
  BY <1>17, SchedulingStep
     DEF vars, IInv, TypeOK, SchedOK, SchedTypeOK, ReadyListExact
<1> QED
  BY <1>1, <1>2, <1>3, <1>4, <1>5, <1>6, <1>7, <1>8, <1>9, <1>10, <1>11, <1>12,
     <1>13, <1>14, <1>15, <1>16, <1>17 DEF Next, Continue, Start

-----------------------------------------------------------------------------

LEMMA Invariance == Spec => []IInv
BY InitIInv, NextIInv, PTL DEF Spec

(* The semaphores, locks and dispatcher keep every variable in its type.   *)
THEOREM TypeCorrect == Spec => []TypeOK
BY Invariance, PTL DEF IInv

(* Mutual exclusion of Lock: its semaphore and the windows of acquire and  *)
(* release never let two threads between down and up, whatever the         *)
(* priorities and the donations.                                           *)
THEOREM MutualExclusion == Spec => []LockToken
BY Invariance, PTL DEF IInv

(* READY_LIST holds exactly the Ready threads, each once.                  *)
THEOREM ReadyListStaysExact == Spec => []ReadyListExact
BY Invariance, PTL DEF IInv

(* Each Blocked thread is on the wait queue of the semaphore it waits for, *)
(* once, and no other thread is on any: unblock() asserts that its thread  *)
(* is Blocked, and the assertion holds at every call from Semaphore::up.   *)
THEOREM WaitQueuesStayExact == Spec => []WaitQueuesExact
BY Invariance, PTL DEF IInv

-----------------------------------------------------------------------------

(* A step gives or takes at most one token, and it is the running thread's.*)
LEMMA OneToken ==
    ASSUME IInv, Next
    PROVE  \E s \in Sema \cup {Null} : \A t \in Thread, m \in Lock :
              t # cur \/ m # s => (HasToken(t, m)' <=> HasToken(t, m))
<1> DEFINE Frame(s) == \A t \in Thread, m \in Lock :
                          t # cur \/ m # s => (HasToken(t, m)' <=> HasToken(t, m))
<1> SUFFICES \E s \in Sema \cup {Null} : Frame(s)
  OBVIOUS
<1>0. Null \notin Thread /\ Null \notin Lock /\ Lock \subseteq Sema /\ Event \subseteq Sema
  BY SyncAssumption DEF Everyone, Sema
<1>1. ASSUME cur \in Thread, NEW l, NEW s \in Sema \cup {Null}, NEW r \in Sema \cup {Null},
             Goto(l, r), holder' = holder, r \in {s, Null},
             pc[cur] = "run" \/ arg[cur] = s
      PROVE  \E x \in Sema \cup {Null} : Frame(x)
  <2>1. \A t \in Thread : t # cur => pc'[t] = pc[t] /\ arg'[t] = arg[t]
    BY <1>1 DEF Goto, IInv, TypeOK, Everyone
  <2>2. arg'[cur] = r
    BY <1>1 DEF Goto, IInv, TypeOK, Everyone
  <2>3. Frame(s)
    BY <1>0, <1>1, <2>1, <2>2 DEF HasToken
  <2> QED
    BY <2>3
<1>2. ASSUME UNCHANGED <<holder, pc, arg>> PROVE \E x \in Sema \cup {Null} : Frame(x)
  <2>1. Frame(Null)
    BY <1>2 DEF HasToken
  <2> QED
    BY <2>1
<1>3. ASSUME At("set") \/ At("unhold"), NEW l, NEW r \in {arg[cur], Null}, Goto(l, r),
             NEW h \in {cur, Null}, holder' = [holder EXCEPT ![arg[cur]] = h]
      PROVE  \E x \in Sema \cup {Null} : Frame(x)
  <2>1. cur \in Thread /\ pc[cur] \in {"set", "unhold"} /\ arg[cur] \in Lock
    BY <1>3 DEF At, IInv, ProgramPoints
  <2>2. \A t \in Thread : HasToken(t, arg[cur]) <=> t = cur
    BY <2>1, TokenUnique DEF HasToken
  <2>3. \A t \in Thread : t # cur => pc'[t] = pc[t] /\ arg'[t] = arg[t]
    BY <1>3, <2>1 DEF Goto, IInv, TypeOK, Everyone
  <2>4. arg'[cur] \in {arg[cur], Null}
    BY <1>3, <2>1 DEF Goto, IInv, TypeOK, Everyone
  <2>5. \A m \in Lock : holder'[m] = IF m = arg[cur] THEN h ELSE holder[m]
    BY <1>3, <2>1 DEF IInv, TypeOK
  <2>6. Frame(arg[cur])
    BY <1>0, <2>1, <2>2, <2>3, <2>4, <2>5 DEF HasToken
  <2> QED
    BY <1>0, <2>1, <2>6
<1> HIDE DEF Frame
<1>4. ASSUME NEW s \in Sema, Down(s), cur \in Thread, pc[cur] = "run" \/ arg[cur] = s
      PROVE  \E x \in Sema \cup {Null} : Frame(x)
  BY <1>1, <1>4 DEF Down, Return
<1>5. ASSUME NEW s \in Sema, Up(s), cur \in Thread, pc[cur] = "run" \/ arg[cur] = s
      PROVE  \E x \in Sema \cup {Null} : Frame(x)
  <2>1. holder' = holder /\ (Goto("incr", s) \/ Goto("run", Null))
    BY <1>5 DEF Up, Return
  <2> QED
    BY <1>1, <1>5, <2>1
<1>6. ASSUME cur \in Thread, pc[cur] \in {"down", "loop", "clear", "up", "incr"}
      PROVE  arg[cur] \in Sema
  BY <1>0, <1>6 DEF IInv, ProgramPoints
<1>7. CASE Continue
  <2>1. CASE DownAgain
    BY <1>4, <1>6, <2>1 DEF DownAgain, At
  <2>2. CASE UpIncrement
    BY <1>1, <1>6, <2>2 DEF UpIncrement, At, Return
  <2>3. CASE AcquireDown
    BY <1>4, <1>6, <2>3 DEF AcquireDown, At
  <2>4. CASE AcquireClear
    BY <1>1, <1>6, <2>4 DEF AcquireClear, At
  <2>5. CASE AcquireSet
    BY <1>3, <2>5 DEF AcquireSet, Return
  <2>6. CASE ReleaseUnhold
    BY <1>3, <2>6 DEF ReleaseUnhold
  <2>7. CASE ReleaseUp
    BY <1>5, <1>6, <2>7 DEF ReleaseUp, At
  <2> QED
    BY <1>7, <2>1, <2>2, <2>3, <2>4, <2>5, <2>6, <2>7 DEF Continue
<1>8. CASE Start
  <2>1. ASSUME NEW s \in Event, EventDown(s) \/ EventUp(s)
        PROVE  \E x \in Sema \cup {Null} : Frame(x)
    BY <1>0, <1>4, <1>5, <2>1 DEF EventDown, EventUp, At
  <2>2. ASSUME NEW s \in Sema, TryDown(s) PROVE \E x \in Sema \cup {Null} : Frame(x)
    BY <1>1, <2>2 DEF TryDown, At, Return
  <2>3. ASSUME NEW l \in Lock, Acquire(l) \/ Release(l)
        PROVE  \E x \in Sema \cup {Null} : Frame(x)
    BY <1>0, <1>1, <2>3 DEF Acquire, Release, At
  <2>4. ASSUME NEW p \in NewPri, SetPriority(p) PROVE \E x \in Sema \cup {Null} : Frame(x)
    BY <1>2, <2>4 DEF SetPriority
  <2> QED
    BY <1>8, <2>1, <2>2, <2>3, <2>4 DEF Start
<1>9. CASE (\E s \in Event : IrqUp(s)) \/ Preempt \/ IdleBlock
  BY <1>2, <1>9 DEF IrqUp, Preempt, IdleBlock
<1> QED
  BY <1>7, <1>8, <1>9 DEF Next

(* The owner of a lock is the thread that has its token.                   *)
OwnerMatches ==
    \A l \in Lock : /\ Owner(l) \in Thread \cup {Null}
                    /\ \A t \in Thread : Owner(l) = t <=> HasToken(t, l)

LEMMA OwnerHasToken == IInv => OwnerMatches
<1> SUFFICES ASSUME IInv, NEW l \in Lock
             PROVE  /\ Owner(l) \in Thread \cup {Null}
                    /\ \A t \in Thread : Owner(l) = t <=> HasToken(t, l)
  BY DEF OwnerMatches
<1>0. Null \notin Thread
  BY SyncAssumption DEF Everyone
<1>1. CASE \A t \in Thread : ~HasToken(t, l)
  BY <1>0, <1>1 DEF Owner, Owners
<1>2. ASSUME NEW t \in Thread, HasToken(t, l)
      PROVE  Owner(l) = t /\ \A u \in Thread : HasToken(u, l) <=> u = t
  <2>1. \A u \in Thread : HasToken(u, l) <=> u = t
    BY <1>2, TokenUnique
  <2>2. Owners(l) = {t}
    BY <2>1 DEF Owners
  <2> QED
    BY <2>1, <2>2 DEF Owner
<1> QED
  BY <1>1, <1>2

(* The initial locks are free.                                             *)
LEMMA InitRefines == Init => M!Init
<1> SUFFICES ASSUME Init PROVE M!Init
  OBVIOUS
<1>1. IInv
  BY InitIInv
<1>2. \A l \in Lock : Owner(l) = Null
  BY SyncAssumption, <1>1 DEF Init, Owner, Owners, HasToken, Everyone
<1> QED
  BY <1>2 DEF M!Init

(* Each step takes a free lock, gives one of the running thread's back, or *)
(* leaves the owners alone.                                                *)
LEMMA NextRefines ==
    IInv /\ IInv' /\ [Next]_vars => [M!Next]_([l \in Lock |-> Owner(l)])
<1> DEFINE own == [l \in Lock |-> Owner(l)]
<1> SUFFICES ASSUME IInv, IInv', [Next]_vars PROVE [M!Next]_own
  OBVIOUS
<1>1. OwnerMatches /\ OwnerMatches'
  <2>1. IInv' => OwnerMatches'
    BY OwnerHasToken, PTL
  <2> QED
    BY <2>1, OwnerHasToken
<1>2. CASE UNCHANGED vars
  <2>1. \A l \in Lock : Owner(l)' = Owner(l)
    BY <1>2 DEF vars, Owner, Owners, HasToken
  <2> QED
    BY <2>1
<1>3. CASE Next
  <2>0. Null \notin Thread
    BY SyncAssumption DEF Everyone
  <2>1. PICK s \in Sema \cup {Null} : \A t \in Thread, m \in Lock :
           t # cur \/ m # s => (HasToken(t, m)' <=> HasToken(t, m))
    BY <1>3, OneToken
  <2>2. \A m \in Lock : m # s => Owner(m)' = Owner(m)
    BY <1>1, <2>0, <2>1 DEF OwnerMatches
  <2>3. CASE s \notin Lock \/ Owner(s)' = Owner(s)
    <3>1. \A m \in Lock : Owner(m)' = Owner(m)
      BY <2>2, <2>3
    <3> QED
      BY <3>1
  <2>4. CASE s \in Lock /\ Owner(s)' # Owner(s)
    <3>1. \A t \in Thread : t # cur => (Owner(s)' = t <=> Owner(s) = t)
      BY <1>1, <2>1, <2>4 DEF OwnerMatches
    <3>2. \/ Owner(s) = Null /\ Owner(s)' = cur /\ cur \in Thread
          \/ Owner(s) = cur /\ Owner(s)' = Null
      BY <1>1, <2>4, <3>1 DEF OwnerMatches
    <3>3. own' = [own EXCEPT ![s] = Owner(s)']
      BY <2>2, <2>4, Zenon
    <3>4. own[s] = Owner(s)
      BY <2>4
    <3>5. M!Take(s) \/ M!Give(s)
      BY <3>2, <3>3, <3>4, Zenon DEF M!Take, M!Give
    <3> QED
      BY <2>4, <3>5 DEF M!Next
  <2> QED
    BY <2>3, <2>4
<1> QED
  BY <1>2, <1>3

(* The locks of this kernel implement Mutex, for any threads and any       *)
(* priorities: only the running thread changes an owner, one lock a step,  *)
(* taking what is free and giving back what is its own.                    *)
THEOREM LocksImplementMutex == Spec => ImplementsMutex
<1>1. IInv /\ IInv' /\ [Next]_vars => [M!Next]_([l \in Lock |-> Owner(l)])
  BY NextRefines
<1> QED
  BY InitRefines, Invariance, <1>1, PTL DEF Spec, ImplementsMutex, M!Spec

-----------------------------------------------------------------------------

(* No donation lowers a priority below the base priority of its thread.    *)
FloorInv == \A t \in Everyone : priority[t] >= original[t]

LEMMA NextFloor == IInv /\ FloorInv /\ [Next]_vars => FloorInv'
<1> SUFFICES ASSUME IInv, FloorInv, [Next]_vars PROVE FloorInv'
  OBVIOUS
<1>0. /\ cur \in Everyone
      /\ priority \in [Everyone -> Int] /\ original \in [Everyone -> Int]
  BY DEF IInv, TypeOK, SchedTypeOK
<1>1. CASE UNCHANGED <<priority, original>>
  BY <1>1 DEF FloorInv
<1>2. ASSUME NEW h, priority' = Donate(h, priority[cur]), original' = original
      PROVE  FloorInv'
  BY <1>0, <1>2 DEF FloorInv, Donate
<1>3. ASSUME NEW l \in Lock, Release(l) PROVE FloorInv'
  BY <1>0, <1>3 DEF Release, FloorInv
<1>4. ASSUME NEW p \in NewPri, SetPriority(p) PROVE FloorInv'
  BY <1>0, <1>4, SyncAssumption DEF SetPriority, FloorInv
<1>5. ASSUME NEW l \in Lock, Acquire(l) PROVE FloorInv'
  BY <1>1, <1>2, <1>5 DEF Acquire
<1>6. ASSUME NEW s, Down(s) \/ Up(s) \/ IrqUp(s) \/ TryDown(s) PROVE FloorInv'
  BY <1>1, <1>6 DEF Down, Up, IrqUp, TryDown
<1>7. CASE Continue
  BY <1>1, <1>6, <1>7 DEF Continue, DownAgain, UpIncrement, AcquireDown, AcquireClear,
     AcquireSet, ReleaseUnhold, ReleaseUp
<1>8. CASE Preempt \/ IdleBlock \/ UNCHANGED vars
  BY <1>1, <1>8 DEF Preempt, IdleBlock, vars
<1> QED
  BY <1>3, <1>4, <1>5, <1>6, <1>7, <1>8 DEF Next, Start, EventDown, EventUp

(* donate_priority only raises and restore_priority stops at the base: no  *)
(* thread ever runs below the priority it was created with or set itself.  *)
THEOREM BaseStaysFloor == Spec => []BaseIsFloor
<1>1. Init => FloorInv
  BY SyncAssumption DEF Init, FloorInv
<1>2. FloorInv => BaseIsFloor
  BY DEF FloorInv, BaseIsFloor, Everyone
<1> QED
  BY <1>1, <1>2, Invariance, NextFloor, PTL DEF Spec

-----------------------------------------------------------------------------
(* Waking up.  When all threads have one priority, Semaphore::up does not  *)
(* yield between unblock and the increment, and no wakeup is lost.         *)

(* The threads start with one priority and set no other.                   *)
Uniform ==
    \A t \in Thread : NewPri \subseteq {InitPri[t]} /\ \A u \in Thread : InitPri[u] = InitPri[t]

Level ==
    \A t, u \in Thread : priority[t] = InitPri[u] /\ original[t] = InitPri[u]

Awake(s) == waiters[s] # <<>> => value[s] <= Cardinality(Woken(s))

(* Between two equal priorities nobody is left inside unblock.             *)
NoIncr == \A t \in Thread : pc[t] # "incr"

WInv ==
    /\ Level
    /\ NoIncr
    /\ \A s \in Sema : Awake(s)

LEMMA NextLevel ==
    ASSUME IInv, Uniform, Level, Next
    PROVE  Level'
<1>0. /\ cur \in Everyone
      /\ priority \in [Everyone -> Int] /\ original \in [Everyone -> Int]
  BY DEF IInv, TypeOK, SchedTypeOK
<1>1. CASE UNCHANGED <<priority, original>>
  BY <1>1 DEF Level
<1>2. ASSUME NEW h, priority' = Donate(h, priority[cur]), original' = original, cur \in Thread
      PROVE  Level'
  <2>1. \A t \in Thread : ~(priority[t] < priority[cur])
    BY <1>0, <1>2 DEF Level, Everyone
  <2>2. \A t \in Thread : priority'[t] = priority[t]
    BY <1>2, <2>1 DEF Donate, Everyone
  <2> QED
    BY <1>2, <2>2 DEF Level
<1>3. ASSUME NEW l \in Lock, Release(l) PROVE Level'
  BY <1>0, <1>3 DEF Release, At, Level, Everyone
<1>4. ASSUME NEW p \in NewPri, SetPriority(p) PROVE Level'
  <2>1. \A u \in Thread : p = InitPri[u]
    BY DEF Uniform
  <2> QED
    BY <1>0, <1>4, <2>1 DEF SetPriority, At, Level, Everyone
<1>5. ASSUME NEW l \in Lock, Acquire(l) PROVE Level'
  BY <1>1, <1>2, <1>5 DEF Acquire, At
<1>6. ASSUME NEW s, Down(s) \/ Up(s) \/ IrqUp(s) \/ TryDown(s) PROVE Level'
  BY <1>1, <1>6 DEF Down, Up, IrqUp, TryDown
<1>7. CASE Continue
  BY <1>1, <1>6, <1>7 DEF Continue, DownAgain, UpIncrement, AcquireDown, AcquireClear,
     AcquireSet, ReleaseUnhold, ReleaseUp
<1>8. CASE Preempt \/ IdleBlock
  BY <1>1, <1>8 DEF Preempt, IdleBlock
<1> QED
  BY <1>3, <1>4, <1>5, <1>6, <1>7, <1>8 DEF Next, Start, EventDown, EventUp

LEMMA WokenFinite ==
    ASSUME NEW s
    PROVE  /\ IsFiniteSet(Woken(s)) /\ Cardinality(Woken(s)) \in Nat
           /\ IsFiniteSet(Woken(s)') /\ Cardinality(Woken(s)') \in Nat
<1>1. Woken(s) \subseteq Thread /\ Woken(s)' \subseteq Thread
  BY DEF Woken
<1> QED
  BY <1>1, SyncAssumption, FS_Subset, FS_CardinalityType

(* Three ways in which a semaphore stays awake: nothing is added to it, a  *)
(* woken thread takes a unit, or a unit comes with a thread to take it.    *)
LEMMA AwakeKept ==
    ASSUME NEW s \in Sema, Awake(s), value[s] \in Nat, value'[s] \in Nat,
           value'[s] <= value[s], waiters'[s] = waiters[s], Woken(s) \subseteq Woken(s)'
    PROVE  Awake(s)'
<1>1. Cardinality(Woken(s)) <= Cardinality(Woken(s)')
  BY WokenFinite, FS_Subset
<1> QED
  BY <1>1, WokenFinite DEF Awake

LEMMA CardinalityWithout ==
    ASSUME NEW S, IsFiniteSet(S), NEW t
    PROVE  Cardinality(S \ {t}) \in Nat /\ Cardinality(S) <= Cardinality(S \ {t}) + 1
<1>1. Cardinality(S) \in Nat
  BY FS_CardinalityType
<1>2. Cardinality(S \ {t}) = IF t \in S THEN Cardinality(S) - 1 ELSE Cardinality(S)
  BY FS_RemoveElement
<1>3. Cardinality(S \ {t}) \in Nat
  BY FS_RemoveElement, FS_CardinalityType
<1> QED
  BY <1>1, <1>2, <1>3

LEMMA AwakeTaken ==
    ASSUME NEW s \in Sema, Awake(s), value[s] \in Nat, NEW t,
           value'[s] = value[s] - 1, waiters'[s] = waiters[s], Woken(s) \ {t} \subseteq Woken(s)'
    PROVE  Awake(s)'
<1>1. Cardinality(Woken(s) \ {t}) <= Cardinality(Woken(s)')
  BY WokenFinite, FS_Subset
<1>2. /\ Cardinality(Woken(s) \ {t}) \in Nat
      /\ Cardinality(Woken(s)) <= Cardinality(Woken(s) \ {t}) + 1
  BY WokenFinite, CardinalityWithout, ZenonT(40)
<1> QED
  BY <1>1, <1>2, WokenFinite DEF Awake

LEMMA AwakeGiven ==
    ASSUME NEW s \in Sema, Awake(s), value[s] \in Nat, NEW t,
           value'[s] = value[s] + 1, waiters[s] # <<>>,
           t \notin Woken(s), t \in Woken(s)', Woken(s) \subseteq Woken(s)'
    PROVE  Awake(s)'
<1>1. Cardinality(Woken(s) \cup {t}) <= Cardinality(Woken(s)')
  <2>1. Woken(s) \cup {t} \subseteq Woken(s)'
    OBVIOUS
  <2> QED
    BY <2>1, WokenFinite, FS_Subset
<1>2. Cardinality(Woken(s) \cup {t}) = Cardinality(Woken(s)) + 1
  BY WokenFinite, FS_AddElement, Zenon
<1> QED
  BY <1>1, <1>2, WokenFinite DEF Awake

(* No thread but r goes on in its operation.                               *)
Steps(r) == \A t \in Thread : t # r => pc'[t] = pc[t] /\ arg'[t] = arg[t]

(* The threads that were woken and do not run stay so.                     *)
LEMMA StillWoken ==
    ASSUME NEW s, NEW r,
           \A t \in Thread : t # r => pc'[t] = pc[t] /\ arg'[t] = arg[t],
           \A t \in Thread : t # r /\ status'[t] = "Blocked" => status[t] = "Blocked"
    PROVE  Woken(s) \ {r} \subseteq Woken(s)'
BY DEF Woken

LEMMA DownAwake ==
    ASSUME IInv, WInv, cur \in Thread, NEW s \in Sema, Down(s),
           pc[cur] = "loop" => arg[cur] = s
    PROVE  \A x \in Sema : Awake(x)'
<1>1. /\ value \in [Sema -> Nat] /\ waiters \in [Sema -> Seq(Thread)]
      /\ pc \in [Everyone -> PCs] /\ arg \in [Everyone -> Sema \cup {Null}]
  BY DEF IInv, TypeOK
<1>2. \A x \in Sema : x # s => cur \notin Woken(x)
  BY DEF Woken
<1>3. CASE /\ value[s] = 0
           /\ waiters' = [waiters EXCEPT ![s] = Append(@, cur)]
           /\ Block /\ Goto("loop", s) /\ UNCHANGED value
  <2>1. \A t \in Thread : t # cur /\ status'[t] = "Blocked" => status[t] = "Blocked"
    BY <1>3, IInvSched, BlockExact
  <2>2. \A t \in Thread : t # cur => pc'[t] = pc[t] /\ arg'[t] = arg[t]
    BY <1>1, <1>3 DEF Goto, Everyone
  <2>3. ASSUME NEW x \in Sema, x # s PROVE Awake(x)'
    <3>1. Woken(x) \subseteq Woken(x)'
      BY <1>2, <2>1, <2>2, <2>3, StillWoken
    <3>2. /\ value[x] \in Nat /\ value'[x] = value[x] /\ waiters'[x] = waiters[x] /\ Awake(x)
      BY <1>1, <1>3, <2>3 DEF WInv
    <3> QED
      BY <3>1, <3>2, AwakeKept
  <2>4. Awake(s)'
    BY <1>3, WokenFinite DEF Awake
  <2> QED
    BY <2>3, <2>4
<1>4. CASE /\ value[s] > 0 /\ value' = [value EXCEPT ![s] = @ - 1]
           /\ IF s \in Lock THEN Goto("clear", s) ELSE Return
           /\ UNCHANGED <<waiters, schedVars>>
  <2>1. \A t \in Thread : t # cur /\ status'[t] = "Blocked" => status[t] = "Blocked"
    BY <1>4 DEF schedVars
  <2>2. \A t \in Thread : t # cur => pc'[t] = pc[t] /\ arg'[t] = arg[t]
    BY <1>1, <1>4 DEF Goto, Return, Everyone
  <2>3. ASSUME NEW x \in Sema PROVE Awake(x)'
    <3>1. Woken(x) \ {cur} \subseteq Woken(x)'
      BY <2>1, <2>2, StillWoken, Zenon
    <3>2. value[x] \in Nat /\ waiters'[x] = waiters[x] /\ Awake(x)
      BY <1>1, <1>4 DEF WInv
    <3>3. CASE x = s
      <4>1. value'[x] = value[x] - 1
        BY <1>1, <1>4, <3>3
      <4> QED
        BY <3>1, <3>2, <4>1, AwakeTaken
    <3>4. CASE x # s
      <4>1. value'[x] = value[x] /\ Woken(x) \subseteq Woken(x)'
        BY <1>1, <1>2, <1>4, <3>1, <3>4
      <4>2. value[x] \in Nat /\ value'[x] \in Nat /\ value'[x] <= value[x] /\ waiters'[x] = waiters[x]
        BY <3>2, <4>1
      <4> QED
        BY <3>2, <4>1, <4>2, AwakeKept, Zenon
    <3> QED
      BY <3>3, <3>4
  <2> QED
    BY <2>3
<1> QED
  BY <1>3, <1>4 DEF Down

(* An up that finds waiter w: the queue of s was not empty, and w, which   *)
(* sleeps in down, will look at the value again.                           *)
LEMMA WakeAwake ==
    ASSUME IInv, WInv, NEW s \in Sema, NEW i \in DOMAIN waiters[s], NEW r,
           waiters' = [waiters EXCEPT ![s] = RemoveAt(@, i)],
           value' = [value EXCEPT ![s] = @ + 1],
           \A t \in Thread : status'[t] = "Blocked"
                                <=> status[t] = "Blocked" /\ t # waiters[s][i],
           Steps(r),
           r \in Thread => pc[r] # "loop"
    PROVE  \A x \in Sema : Awake(x)'
<1> DEFINE w == waiters[s][i]
<1>1. value \in [Sema -> Nat] /\ waiters \in [Sema -> Seq(Thread)]
  BY DEF IInv, TypeOK
<1>2. w \in Thread /\ w \in Range(waiters[s]) /\ waiters[s] # <<>>
  <2>1. waiters[s] \in Seq(Thread)
    BY <1>1
  <2> QED
    BY <2>1, LenProperties, ElementOfSeq DEF Range
<1>3. status[w] = "Blocked" /\ arg[w] = s /\ pc[w] = "loop"
  BY <1>2 DEF IInv, WaitQueuesExact, ProgramPoints
<1> HIDE DEF w
<1>4. \A t \in Thread : t # r /\ status'[t] = "Blocked" => status[t] = "Blocked"
  OBVIOUS
<1>5. \A x \in Sema : r \notin Woken(x)
  BY DEF Woken
<1>6. \A x \in Sema : Woken(x) \subseteq Woken(x)'
  <2> SUFFICES ASSUME NEW x \in Sema PROVE Woken(x) \subseteq Woken(x)'
    OBVIOUS
  <2>1. Woken(x) \ {r} \subseteq Woken(x)'
    BY <1>4, StillWoken, Zenon DEF Steps
  <2> QED
    BY <1>5, <2>1
<1>7. w \notin Woken(s)
  BY <1>3 DEF Woken
<1>8. w \in Woken(s)'
  <2>1. w # r
    BY <1>2, <1>3
  <2>2. pc'[w] = "loop" /\ arg'[w] = s /\ status'[w] # "Blocked"
    BY <1>2, <1>3, <2>1 DEF w, Steps
  <2> QED
    BY <1>2, <2>2 DEF Woken
<1>9. ASSUME NEW x \in Sema PROVE Awake(x)'
  <2>1. value[x] \in Nat /\ Awake(x)
    BY <1>1 DEF WInv
  <2>2. CASE x = s
    <3>1. value'[x] = value[x] + 1
      BY <1>1, <2>2
    <3> QED
      BY <1>2, <1>6, <1>7, <1>8, <2>1, <2>2, <3>1, AwakeGiven
  <2>3. CASE x # s
    <3>1. value'[x] = value[x] /\ waiters'[x] = waiters[x] /\ Woken(x) \subseteq Woken(x)'
      BY <1>1, <1>6, <2>3
    <3> QED
      BY <2>1, <3>1, AwakeKept
  <2> QED
    BY <2>2, <2>3
<1> QED
  BY <1>9

(* An up that finds nobody.                                                *)
LEMMA RaiseAwake ==
    ASSUME IInv, WInv, NEW s \in Sema, NEW r, waiters[s] = <<>>, waiters' = waiters,
           value' = [value EXCEPT ![s] = @ + 1], status' = status,
           Steps(r),
           r \in Thread => pc[r] # "loop"
    PROVE  \A x \in Sema : Awake(x)'
<1>1. value \in [Sema -> Nat]
  BY DEF IInv, TypeOK
<1>2. ASSUME NEW x \in Sema, x # s PROVE Awake(x)'
  <2>1. r \notin Woken(x) /\ Woken(x) \ {r} \subseteq Woken(x)'
    BY StillWoken DEF Woken, Steps
  <2>2. value[x] \in Nat /\ value'[x] = value[x] /\ waiters'[x] = waiters[x] /\ Awake(x)
    BY <1>1, <1>2 DEF WInv
  <2> QED
    BY <2>1, <2>2, AwakeKept
<1>3. Awake(s)'
  BY DEF Awake
<1> QED
  BY <1>2, <1>3

LEMMA UpAwake ==
    ASSUME IInv, WInv, cur \in Thread, NEW s \in Sema, Up(s), pc[cur] # "loop"
    PROVE  Return /\ \A x \in Sema : Awake(x)'
<1>1. /\ pc \in [Everyone -> PCs] /\ arg \in [Everyone -> Sema \cup {Null}]
      /\ waiters[s] \in Seq(Thread)
  BY DEF IInv, TypeOK
<1>2. ASSUME Return
      PROVE  Steps(cur)
  BY <1>1, <1>2 DEF Return, Goto, Everyone, Steps
<1>3. CASE /\ waiters[s] = <<>> /\ value' = [value EXCEPT ![s] = @ + 1] /\ Return
           /\ UNCHANGED <<waiters, schedVars>>
  <2>1. Steps(cur)
    BY <1>2, <1>3
  <2>2. status' = status /\ waiters' = waiters
    BY <1>3 DEF schedVars
  <2> QED
    BY <1>3, <2>1, <2>2, RaiseAwake, Zenon
<1>4. ASSUME NEW i \in FirstHighest(waiters[s], priority),
             waiters' = [waiters EXCEPT ![s] = RemoveAt(@, i)],
             Unblock(waiters[s][i]),
             priority[waiters[s][i]] > priority[cur] \/
                (value' = [value EXCEPT ![s] = @ + 1] /\ Return)
      PROVE  Return /\ \A x \in Sema : Awake(x)'
  <2> DEFINE w == waiters[s][i]
  <2>1. i \in DOMAIN waiters[s]
    BY <1>4 DEF FirstHighest
  <2>2. w \in Thread /\ w \in Range(waiters[s])
    BY <1>1, <2>1, LenProperties, ElementOfSeq DEF Range
  <2>3. status[w] = "Blocked"
    BY <2>2 DEF IInv, WaitQueuesExact
  <2>4. value' = [value EXCEPT ![s] = @ + 1] /\ Return
    <3>1. priority[w] = priority[cur] /\ priority[w] \in Int
      BY <2>2, Zenon DEF WInv, Level, IInv, TypeOK, Everyone
    <3> HIDE DEF w
    <3>2. ~(priority[w] > priority[cur])
      BY <3>1
    <3> QED
      BY <1>4, <3>2 DEF w
  <2> HIDE DEF w
  <2>5. \A t \in Thread : status'[t] = "Blocked" <=> status[t] = "Blocked" /\ t # w
    BY <1>4, <2>2, <2>3, IInvSched, UnblockExact, Zenon DEF w
  <2>6. Steps(cur)
    BY <1>2, <2>4
  <2>7. \A t \in Thread : status'[t] = "Blocked" <=> status[t] = "Blocked" /\ t # waiters[s][i]
    BY <2>5 DEF w
  <2>8. waiters' = [waiters EXCEPT ![s] = RemoveAt(@, i)]
    BY <1>4
  <2>9. \A x \in Sema : Awake(x)'
    <3>1. cur \in Thread => pc[cur] # "loop"
      OBVIOUS
    <3>2. value' = [value EXCEPT ![s] = @ + 1]
      BY <2>4
    <3> HIDE <1>4
    <3> QED
      BY <2>1, <2>6, <2>7, <2>8, <3>1, <3>2, WakeAwake, Zenon
  <2> QED
    BY <2>4, <2>9
<1> QED
  BY <1>3, <1>4 DEF Up

LEMMA IrqUpAwake ==
    ASSUME IInv, WInv, NEW s \in Event, IrqUp(s)
    PROVE  \A x \in Sema : Awake(x)'
<1>0. s \in Sema
  BY DEF Sema
<1>1. waiters[s] \in Seq(Thread)
  BY <1>0 DEF IInv, TypeOK
<1>2. value' = [value EXCEPT ![s] = @ + 1] /\ UNCHANGED <<pc, arg>>
  BY DEF IrqUp
<1>3. /\ Steps(Null)
      /\ Null \notin Thread
  BY <1>2, SyncAssumption DEF Everyone, Steps
<1>4. CASE waiters[s] = <<>> /\ UNCHANGED <<waiters, schedVars>>
  <2>1. status' = status /\ waiters' = waiters
    BY <1>4 DEF schedVars
  <2> QED
    BY <1>0, <1>2, <1>3, <1>4, <2>1, RaiseAwake, ZenonT(40)
<1>5. ASSUME NEW i \in FirstHighest(waiters[s], priority),
             waiters' = [waiters EXCEPT ![s] = RemoveAt(@, i)], MakeReady(waiters[s][i])
      PROVE  \A x \in Sema : Awake(x)'
  <2>1. i \in DOMAIN waiters[s]
    BY <1>5 DEF FirstHighest
  <2>2. waiters[s][i] \in Thread /\ waiters[s][i] \in Range(waiters[s])
    BY <1>1, <2>1, LenProperties, ElementOfSeq DEF Range
  <2>3. status[waiters[s][i]] = "Blocked"
    BY <1>0, <2>2 DEF IInv, WaitQueuesExact
  <2>4. \A t \in Thread : status'[t] = "Blocked" <=> status[t] = "Blocked" /\ t # waiters[s][i]
    BY <1>5, <2>2, <2>3, IInvSched, MakeReadyExact
  <2> QED
    BY <1>0, <1>2, <1>3, <1>5, <2>1, <2>4, WakeAwake, ZenonT(40)
<1> QED
  BY <1>4, <1>5 DEF IrqUp

(* The other steps leave semaphores and sleepers alone.                    *)
LEMMA QuietAwake ==
    ASSUME IInv, WInv, NEW r, UNCHANGED <<value, waiters>>,
           Steps(r),
           \A t \in Thread : status'[t] = "Blocked" => status[t] = "Blocked",
           r \in Thread => pc[r] # "loop"
    PROVE  \A x \in Sema : Awake(x)'
<1> SUFFICES ASSUME NEW x \in Sema PROVE Awake(x)'
  OBVIOUS
<1>1. Woken(x) \ {r} \subseteq Woken(x)' /\ r \notin Woken(x)
  BY StillWoken DEF Woken, Steps
<1>2. value[x] \in Nat /\ value'[x] = value[x] /\ waiters'[x] = waiters[x] /\ Awake(x)
  BY DEF IInv, TypeOK, WInv
<1>3. value'[x] \in Nat /\ value'[x] <= value[x] /\ Woken(x) \subseteq Woken(x)'
  BY <1>1, <1>2
<1> QED
  BY <1>2, <1>3, AwakeKept, Zenon


LEMMA GotoNoIncr ==
    ASSUME IInv, NoIncr, NEW p, NEW a, p # "incr", Goto(p, a)
    PROVE  NoIncr'
BY DEF IInv, TypeOK, NoIncr, Goto, Everyone

LEMMA ContinueAwake ==
    ASSUME IInv, WInv, Continue
    PROVE  NoIncr' /\ \A x \in Sema : Awake(x)'
<1>0. cur \in Thread /\ cur \in Everyone /\ pc[cur] # "incr" /\ pc[cur] # "run"
  BY DEF Continue, DownAgain, UpIncrement, AcquireDown, AcquireClear, AcquireSet,
     ReleaseUnhold, ReleaseUp, At, WInv, NoIncr, Everyone
<1>1. arg[cur] \in Sema
  <2>1. pc[cur] \in PCs
    BY <1>0 DEF IInv, TypeOK
  <2> QED
    BY <1>0, <2>1 DEF IInv, ProgramPoints, PCs, Sema
<1>2. \A p, a : Goto(p, a) => Steps(cur)
  BY <1>0 DEF IInv, TypeOK, Goto, Steps, Everyone
<1>3. CASE DownAgain \/ AcquireDown
  <2>1. Down(arg[cur])
    BY <1>3 DEF DownAgain, AcquireDown
  <2>2. \E p \in {"loop", "clear", "run"}, a \in Sema \cup {Null} : Goto(p, a)
    BY <1>1, <2>1 DEF Down, Return
  <2> QED
    BY <1>0, <1>1, <2>1, <2>2, DownAwake, GotoNoIncr, Zenon DEF WInv
<1>4. CASE ReleaseUp
  <2>1. Up(arg[cur]) /\ pc[cur] # "loop"
    BY <1>4 DEF ReleaseUp, At
  <2>2. Return /\ \A x \in Sema : Awake(x)'
    BY <1>0, <1>1, <2>1, UpAwake
  <2> QED
    BY <2>2, GotoNoIncr DEF Return, WInv
<1>5. CASE AcquireClear \/ AcquireSet \/ ReleaseUnhold
  <2>1. /\ UNCHANGED <<schedVars, value, waiters>> /\ pc[cur] # "loop"
        /\ \E p \in {"set", "run", "up"}, a \in Sema \cup {Null} : Goto(p, a)
    BY <1>1, <1>5 DEF AcquireClear, AcquireSet, ReleaseUnhold, Return, At
  <2>2. Steps(cur) /\ NoIncr'
    BY <1>2, <2>1, GotoNoIncr DEF WInv
  <2>3. UNCHANGED <<value, waiters, status>>
    BY <2>1 DEF schedVars
  <2> QED
    BY <2>1, <2>2, <2>3, QuietAwake
<1> QED
  BY <1>0, <1>3, <1>4, <1>5 DEF Continue, UpIncrement, At

LEMMA StartAwake ==
    ASSUME IInv, WInv, Start
    PROVE  NoIncr' /\ \A x \in Sema : Awake(x)'
<1>0. cur \in Thread /\ cur \in Everyone /\ pc[cur] = "run"
  BY Zenon DEF Start, EventDown, EventUp, TryDown, Acquire, Release, SetPriority, At, Everyone
<1>1. Event \subseteq Sema
  BY DEF Sema
<1>2. \A p, a : Goto(p, a) => Steps(cur)
  BY <1>0 DEF IInv, TypeOK, Goto, Steps, Everyone
<1>3. ASSUME NEW s \in Event, EventDown(s) PROVE NoIncr' /\ \A x \in Sema : Awake(x)'
  <2>1. Down(s)
    BY <1>3 DEF EventDown
  <2>2. \E p \in {"loop", "clear", "run"}, a \in Sema \cup {Null} : Goto(p, a)
    BY <1>1, <2>1 DEF Down, Return
  <2> QED
    BY <1>0, <1>1, <2>1, <2>2, DownAwake, GotoNoIncr DEF WInv
<1>4. ASSUME NEW s \in Event, EventUp(s) PROVE NoIncr' /\ \A x \in Sema : Awake(x)'
  <2>1. Up(s)
    BY <1>4 DEF EventUp
  <2>2. Return /\ \A x \in Sema : Awake(x)'
    BY <1>0, <1>1, <2>1, UpAwake
  <2> QED
    BY <2>2, GotoNoIncr DEF Return, WInv
<1>5. ASSUME NEW s \in Sema, TryDown(s) PROVE NoIncr' /\ \A x \in Sema : Awake(x)'
  <2>1. /\ UNCHANGED <<schedVars, waiters>> /\ value' = [value EXCEPT ![s] = @ - 1] /\ value[s] > 0
        /\ \E p \in {"set", "run"}, a \in Sema \cup {Null} : Goto(p, a)
    BY <1>5 DEF TryDown, Return
  <2>2. Steps(cur) /\ NoIncr'
    BY <1>2, <2>1, GotoNoIncr DEF WInv
  <2>3. value \in [Sema -> Nat] /\ status' = status /\ waiters' = waiters
    BY <2>1 DEF schedVars, IInv, TypeOK
  <2>4. ASSUME NEW x \in Sema PROVE Awake(x)'
    <3>1. cur \notin Woken(x) /\ Woken(x) \ {cur} \subseteq Woken(x)'
      BY <1>0, <2>2, <2>3, StillWoken DEF Woken, Steps
    <3>2. value[x] \in Nat /\ value'[x] \in Nat /\ value'[x] <= value[x]
      BY <2>1, <2>3
    <3>3. Awake(x) /\ waiters'[x] = waiters[x]
      BY <2>3 DEF WInv
    <3> QED
      BY <3>1, <3>2, <3>3, AwakeKept
  <2> QED
    BY <2>2, <2>4
<1>6. ASSUME NEW l \in Lock, Acquire(l) \/ Release(l) PROVE NoIncr' /\ \A x \in Sema : Awake(x)'
  <2>1. /\ UNCHANGED <<schedVars, value, waiters>>
        /\ \E p \in {"down", "unhold"}, a \in Sema \cup {Null} : Goto(p, a)
    BY <1>6 DEF Acquire, Release, Sema
  <2>2. Steps(cur) /\ NoIncr'
    BY <1>2, <2>1, GotoNoIncr DEF WInv
  <2>3. UNCHANGED <<value, waiters, status>>
    BY <2>1 DEF schedVars
  <2> QED
    BY <1>0, <2>1, <2>2, <2>3, QuietAwake
<1>7. ASSUME NEW p \in NewPri, SetPriority(p) PROVE NoIncr' /\ \A x \in Sema : Awake(x)'
  <2>1. /\ UNCHANGED <<value, waiters, pc, arg>>
        /\ YieldFrom(status, ready, priority') \/ UNCHANGED schedVars
    BY <1>7 DEF SetPriority
  <2>2. \A t \in Thread : status'[t] = "Blocked" => status[t] = "Blocked"
    <3>1. CASE YieldFrom(status, ready, priority')
      BY <3>1, PlainYield
    <3>2. CASE UNCHANGED schedVars
      BY <3>2 DEF schedVars
    <3> QED
      BY <2>1, <3>1, <3>2
  <2>3. Steps(cur) /\ NoIncr'
    BY <2>1 DEF Steps, WInv, NoIncr
  <2> QED
    BY <1>0, <2>1, <2>2, <2>3, QuietAwake
<1> QED
  BY <1>3, <1>4, <1>5, <1>6, <1>7 DEF Start


LEMMA NextAwake ==
    ASSUME IInv, WInv, Next
    PROVE  NoIncr' /\ \A x \in Sema : Awake(x)'
<1>1. ASSUME NEW s \in Event, IrqUp(s) PROVE NoIncr' /\ \A x \in Sema : Awake(x)'
  <2>1. NoIncr'
    BY <1>1 DEF IrqUp, WInv, NoIncr
  <2> QED
    BY <1>1, <2>1, IrqUpAwake
<1>2. CASE Preempt \/ IdleBlock
  <2>1. UNCHANGED <<value, waiters, pc, arg>>
    BY <1>2 DEF Preempt, IdleBlock
  <2>2. \A t \in Thread : status'[t] = "Blocked" => status[t] = "Blocked"
    <3>1. CASE Preempt
      BY <3>1, PlainYield DEF Preempt
    <3>2. CASE IdleBlock
      <4>1. \A t \in Thread : status'[t] = "Blocked" <=> status[t] = "Blocked" \/ t = cur
        BY <3>2, IInvSched, BlockExact DEF IdleBlock
      <4> QED
        BY <3>2, <4>1, IdleAssumption DEF IdleBlock
    <3> QED
      BY <1>2, <3>1, <3>2
  <2>3. Steps(Null) /\ Null \notin Thread /\ NoIncr'
    BY <2>1, SyncAssumption DEF Steps, WInv, NoIncr, Everyone
  <2> QED
    BY <2>1, <2>2, <2>3, QuietAwake, Zenon
<1> QED
  BY <1>1, <1>2, ContinueAwake, StartAwake DEF Next

LEMMA InitAwake == Uniform /\ Init => WInv
<1> SUFFICES ASSUME Uniform, Init PROVE WInv
  OBVIOUS
<1>1. Level
  BY SyncAssumption DEF Uniform, Init, Level, Everyone
<1>2. NoIncr
  BY DEF Init, NoIncr, Everyone
<1>3. \A s \in Sema : Awake(s)
  BY DEF Init, Awake
<1> QED
  BY <1>1, <1>2, <1>3 DEF WInv

(* Threads of one priority lose no wakeup (execute creates processes at    *)
(* PRI_DEFAULT, fork with their parent's priority): whenever some thread   *)
(* waits in Semaphore::down, every unit that Semaphore::up has put into    *)
(* the value, from a thread or from an interrupt handler, belongs to a     *)
(* thread that is already awake.                                           *)
THEOREM WakeupsArrive == Spec => [](Uniform => NoLostWakeup)
<1>1. CASE Uniform
  <2>1. Init => WInv
    BY <1>1, InitAwake
  <2>2. IInv /\ WInv /\ [Next]_vars => WInv'
    <3> SUFFICES ASSUME IInv, WInv, [Next]_vars PROVE WInv'
      OBVIOUS
    <3>1. CASE Next
      <4>1. Level'
        BY <1>1, <3>1, NextLevel DEF WInv
      <4> QED
        BY <3>1, <4>1, NextAwake DEF WInv
    <3>2. CASE UNCHANGED vars
      BY <3>2, Zenon DEF vars, schedVars, WInv, Level, NoIncr, Awake, Woken
    <3> QED
      BY <3>1, <3>2
  <2>3. WInv => (Uniform => NoLostWakeup)
    BY DEF WInv, Awake, NoLostWakeup
  <2> QED
    BY <2>1, <2>2, <2>3, Invariance, PTL DEF Spec
<1>2. CASE ~Uniform
  <2>1. Uniform => NoLostWakeup
    BY <1>2
  <2> QED
    BY <1>2, <2>1, PTL
<1> QED
  BY <1>1, <1>2

=============================================================================
