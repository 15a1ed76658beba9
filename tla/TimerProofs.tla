----------------------------- MODULE TimerProofs -----------------------------
(***************************************************************************)
(* The timer, for any threads, time slice and sleeping times: no thread is *)
(* lost between READY_LIST, SLEEP_LIST and its creation, ALL_LIST is exact *)
(* until a push is torn, and each interrupt wakes exactly the sleepers     *)
(* that are due.                                                           *)
(*                                                                         *)
(* Only SLEEP_LIST being sorted (Sorted) makes waking from its front wake  *)
(* all that are due; only a thread's being Blocked exactly while it sleeps *)
(* or is being created (Places) keeps the lists apart.                     *)
(***************************************************************************)
EXTENDS Timer, QueueLemmas

-----------------------------------------------------------------------------
(* block, unblock and yield_current keep READY_LIST exact: each primitive  *)
(* changes who is Blocked as its name says, and whatever the priorities    *)
(* are, the ready list afterwards holds each Ready thread once.            *)

SchedOK == SchedTypeOK /\ ReadyListExact

(* The dispatcher is in order when its current thread, its statuses and    *)
(* READY_LIST are, now and after a step.                                   *)
LEMMA SchedOKMeans ==
    /\ SchedOK <=> DispatcherOK(Thread, Idle, cur, status, ready)
    /\ SchedOK' <=> DispatcherOK(Thread, Idle, cur', status', ready')
<1>1. SchedOK <=> DispatcherOK(Thread, Idle, cur, status, ready)
  BY IdleAssumption, Zenon
     DEF SchedOK, SchedTypeOK, ReadyListExact, DispatcherOK, QueueExact, Everyone, Statuses
<1>2. SchedOK' <=> DispatcherOK(Thread, Idle, cur', status', ready')
  BY IdleAssumption, Zenon
     DEF SchedOK, SchedTypeOK, ReadyListExact, DispatcherOK, QueueExact, Everyone, Statuses
<1> QED
  BY <1>1, <1>2, Zenon

(* schedule() takes the thread at some position of READY_LIST, or idle.    *)
LEMMA ScheduleMeans ==
    ASSUME NEW st, NEW q, NEW pri, Schedule(st, q, pri)
    PROVE  Dispatched(Idle, st, q, cur', status', ready')
BY Zenon DEF Schedule, FirstHighest, Dispatched

(* block() makes the caller, and nobody else, Blocked.                     *)
LEMMA BlockExact ==
    ASSUME SchedOK, Block
    PROVE  /\ SchedOK'
           /\ \A t \in Thread : status'[t] = "Blocked" <=> status[t] = "Blocked" \/ t = cur
<1>1. PICK s : Marked(status, cur, "Blocked", s)
  BY Zenon DEF Marked
<1>2. Dispatched(Idle, s, ready, cur', status', ready')
  BY <1>1, ScheduleMeans, Zenon DEF Block, Marked
<1> QED
  BY <1>1, <1>2, SchedOKMeans, DispatchBlocked

(* yield_current(), from any ready list that is exact, changes no thread's *)
(* being Blocked.                                                          *)
LEMMA YieldExact ==
    ASSUME NEW st \in [Everyone -> Statuses], NEW q \in Seq(Thread), NEW pri,
           cur \in Everyone,
           IsInjective(q),
           \A t \in Everyone : st[t] = "Running" <=> t = cur,
           \A t \in Thread : st[t] = "Ready" <=> t \in Range(q),
           YieldFrom(st, q, pri)
    PROVE  /\ SchedOK'
           /\ \A t \in Thread : status'[t] = "Blocked" <=> st[t] = "Blocked"
<1>1. DispatcherOK(Thread, Idle, cur, st, q)
  BY IdleAssumption, Zenon DEF DispatcherOK, QueueExact, Everyone
<1>2. PICK s, p : Marked(st, cur, "Ready", s) /\ IF cur = Idle THEN p = q ELSE Queued(q, cur, p)
  BY Zenon DEF Marked, Queued
<1>3. Dispatched(Idle, s, p, cur', status', ready')
  BY <1>2, ScheduleMeans, Zenon DEF YieldFrom, Marked, Queued
<1> QED
  BY <1>1, <1>2, <1>3, SchedOKMeans, DispatchYielded DEF SameBlocked

(* unblock(w) makes w, and nobody else, no longer Blocked: in an interrupt *)
(* handler,                                                                *)
LEMMA MakeReadyExact ==
    ASSUME SchedOK, NEW w \in Thread, status[w] = "Blocked", MakeReady(w)
    PROVE  /\ SchedOK'
           /\ \A t \in Thread : status'[t] = "Blocked" <=> status[t] = "Blocked" /\ t # w
<1>1. Marked(status, w, "Ready", status') /\ Queued(ready, w, ready') /\ cur' = cur
  BY Zenon DEF MakeReady, Marked, Queued
<1> QED
  BY <1>1, SchedOKMeans, DispatchReady

(* and in a thread, where it may yield to w.                               *)
LEMMA UnblockExact ==
    ASSUME SchedOK, NEW w \in Thread, status[w] = "Blocked", Unblock(w)
    PROVE  /\ SchedOK'
           /\ \A t \in Thread : status'[t] = "Blocked" <=> status[t] = "Blocked" /\ t # w
<1>1. CASE MakeReady(w)
  BY <1>1, MakeReadyExact, Zenon
<1>2. CASE YieldFrom([status EXCEPT ![w] = "Ready"], Append(ready, w), priority)
  <2>1. PICK st, q : Marked(status, w, "Ready", st) /\ Queued(ready, w, q)
    BY Zenon DEF Marked, Queued
  <2>2. /\ DispatcherOK(Thread, Idle, cur, st, q)
        /\ \A t \in Thread : st[t] = "Blocked" <=> status[t] = "Blocked" /\ t # w
    <3>1. DispatcherOK(Thread, Idle, cur, st, q)
      BY <2>1, SchedOKMeans, DispatchReady, Zenon
    <3>2. \A t \in Thread : st[t] = "Blocked" <=> status[t] = "Blocked" /\ t # w
      BY <2>1, Zenon DEF Marked, SchedOK, SchedTypeOK, Everyone
    <3> QED
      BY <3>1, <3>2, Zenon
  <2>3. /\ st \in [Everyone -> Statuses] /\ q \in Seq(Thread) /\ IsInjective(q)
        /\ cur \in Everyone /\ \A t \in Everyone : st[t] = "Running" <=> t = cur
        /\ \A t \in Thread : st[t] = "Ready" <=> t \in Range(q)
    BY <2>2, Zenon DEF DispatcherOK, QueueExact, Everyone
  <2>4. YieldFrom(st, q, priority)
    BY <1>2, <2>1, Zenon DEF Marked, Queued
  <2>5. SchedOK' /\ \A t \in Thread : status'[t] = "Blocked" <=> st[t] = "Blocked"
    BY <2>3, <2>4, YieldExact, Zenon
  <2> QED
    BY <2>2, <2>5, Zenon
<1> QED
  BY <1>1, <1>2, Zenon DEF Unblock

-----------------------------------------------------------------------------
Sleeper == [thread : Thread, left : -MaxWait..MaxSleep]

(* SLEEP_LIST holds no thread twice, and the next to wake comes first.     *)
Distinct(s) == \A i, j \in 1..Len(s) : s[i].thread = s[j].thread => i = j
Sorted(s) == \A i, j \in 1..Len(s) : i <= j => s[i].left <= s[j].left
SleepOK == sleepers \in Seq(Sleeper) /\ Distinct(sleepers) /\ Sorted(sleepers)

-----------------------------------------------------------------------------
(* SLEEP_LIST                                                              *)

LEMMA SleeperFields ==
    ASSUME NEW x \in Sleeper
    PROVE  /\ x.thread \in Thread /\ x.left \in Int /\ x.left >= -MaxWait /\ x.left <= MaxSleep
<1>1. x.thread \in Thread /\ x.left \in -MaxWait..MaxSleep
  BY Zenon DEF Sleeper
<1> QED
  BY <1>1, TimerAssumption

(* A tick takes one from the time to go, down to the bound.                *)
LEMMA AgedFields ==
    ASSUME NEW x \in Sleeper, NEW y, y = [x EXCEPT !.left = Later(@)]
    PROVE  /\ y \in Sleeper /\ y.thread = x.thread /\ y.left = Later(x.left)
           /\ y.left <= 0 <=> x.left <= 1
<1>1. y.thread = x.thread /\ y.left = Later(x.left)
  BY Zenon DEF Sleeper
<1>2. Later(x.left) \in -MaxWait..MaxSleep /\ (Later(x.left) <= 0 <=> x.left <= 1)
  BY SleeperFields, TimerAssumption DEF Later
<1>3. y = [thread |-> x.thread, left |-> Later(x.left)]
  BY Zenon DEF Sleeper
<1>4. y \in Sleeper
  BY <1>2, <1>3, SleeperFields, Zenon DEF Sleeper
<1> QED
  BY <1>1, <1>2, <1>4, Zenon

LEMMA SleepersAre ==
    ASSUME SleepOK
    PROVE  /\ Len(sleepers) \in Nat
           /\ \A i \in 1..Len(sleepers) : /\ sleepers[i] \in Sleeper
                                         /\ sleepers[i].thread \in Thread
                                         /\ sleepers[i].left \in Int
<1>1. Len(sleepers) \in Nat /\ \A i \in 1..Len(sleepers) : sleepers[i] \in Sleeper
  BY LenProperties, ElementOfSeq, Zenon DEF SleepOK
<1> QED
  BY <1>1, SleeperFields, Zenon

LEMMA AgedAre ==
    ASSUME SleepOK
    PROVE  /\ Aged(sleepers) \in Seq(Sleeper) /\ Len(Aged(sleepers)) = Len(sleepers)
           /\ \A i \in 1..Len(sleepers) :
                 /\ Aged(sleepers)[i].thread = sleepers[i].thread
                 /\ Aged(sleepers)[i].left = Later(sleepers[i].left)
                 /\ Aged(sleepers)[i].left <= 0 <=> sleepers[i].left <= 1
<1> DEFINE m == Len(sleepers)
           s == Aged(sleepers)
<1>1. m \in Nat /\ \A i \in 1..m : sleepers[i] \in Sleeper
  BY SleepersAre, Zenon
<1>2. s = [i \in 1..m |-> [sleepers[i] EXCEPT !.left = Later(@)]]
  BY Zenon DEF Aged
<1> HIDE DEF m, s
<1>3. ASSUME NEW i \in 1..m
      PROVE  /\ s[i] \in Sleeper /\ s[i].thread = sleepers[i].thread
             /\ s[i].left = Later(sleepers[i].left)
             /\ s[i].left <= 0 <=> sleepers[i].left <= 1
  <2>1. s[i] = [sleepers[i] EXCEPT !.left = Later(@)] /\ sleepers[i] \in Sleeper
    BY <1>1, <1>2, Zenon
  <2> QED
    BY <2>1, AgedFields, Zenon
<1>4. s \in [1..m -> Sleeper]
  BY <1>2, <1>3, Zenon
<1>5. s \in Seq(Sleeper) /\ Len(s) = m
  BY <1>1, <1>4
<1> QED
  BY <1>3, <1>5, Zenon DEF m, s

(* The threads that leave the list are those that had at most one tick to  *)
(* go.                                                                     *)
LEMMA DueAre ==
    ASSUME SleepOK, NEW n, n = Due(Aged(sleepers))
    PROVE  /\ n \in 0..Len(sleepers)
           /\ \A i \in 1..n : sleepers[i].left <= 1
           /\ \A i \in (n + 1)..Len(sleepers) : sleepers[i].left > 1
<1> DEFINE m == Len(sleepers)
           s == Aged(sleepers)
           D == {i \in 1..Len(s) : \A j \in 1..i : s[j].left <= 0}
<1>1. m \in Nat /\ \A i \in 1..m : sleepers[i].left \in Int
  BY SleepersAre, Zenon
<1>2. Len(s) = m /\ \A i \in 1..m : s[i].left <= 0 <=> sleepers[i].left <= 1
  BY AgedAre, Zenon
<1>3. D \in SUBSET (1..m) /\ \A i \in D : \A j \in 1..i : j \in D
  BY <1>1, <1>2
<1>4. n = Cardinality(D)
  BY Zenon DEF Due
<1>5. D = {i \in 1..m : \A j \in 1..i : sleepers[j].left <= 1}
  BY <1>1, <1>2
<1> HIDE DEF D, m, s
<1>6. n \in 0..m /\ D = 1..n
  BY <1>1, <1>3, <1>4, InitialSegment
<1>7. \A i \in 1..n : sleepers[i].left <= 1
  BY <1>1, <1>5, <1>6
<1>8. ASSUME NEW i \in (n + 1)..m PROVE sleepers[i].left > 1
  <2>1. n + 1 \in 1..m /\ n + 1 \notin D
    BY <1>1, <1>6
  <2>2. PICK j \in 1..(n + 1) : ~(sleepers[j].left <= 1)
    BY <1>5, <2>1, Zenon
  <2>3. j \in 1..m /\ i \in 1..m /\ j <= i
    BY <1>1, <1>6, <2>1
  <2> QED
    BY <1>1, <2>2, <2>3 DEF SleepOK, Sorted, m
<1> QED
  BY <1>6, <1>7, <1>8, Zenon DEF m

(* Where timer_sleep puts a thread with n ticks to go.                     *)
LEMMA PlaceIs ==
    ASSUME SleepOK, NEW n \in Int, NEW p, p = Place(n)
    PROVE  /\ p \in 1..(Len(sleepers) + 1)
           /\ \A i \in 1..(p - 1) : sleepers[i].left <= n
           /\ \A i \in p..Len(sleepers) : sleepers[i].left > n
<1> DEFINE m == Len(sleepers)
           later == {i \in 1..m : sleepers[i].left > n}
<1>1. m \in Nat /\ \A i \in 1..m : sleepers[i].left \in Int
  BY SleepersAre, Zenon
<1>2. CASE later = {}
  <2>1. p = m + 1
    BY <1>2, Zenon DEF Place
  <2>2. ASSUME NEW i \in 1..m PROVE sleepers[i].left <= n
    BY <1>1, <1>2
  <2> QED
    BY <1>1, <2>1, <2>2
<1>3. CASE later # {}
  <2>1. p = Min(later)
    BY <1>3, Zenon DEF Place
  <2>2. later \in SUBSET Nat
    BY <1>1
  <2>3. p \in later /\ \A i \in later : p <= i
    <3> HIDE DEF later
    <3>1. \E x \in later : \A y \in later : x <= y
      BY <1>3, <2>2, LeastPosition, Zenon
    <3> QED
      BY <2>1, <3>1, Zenon DEF Min
  <2>4. p \in 1..m /\ sleepers[p].left > n
    BY <2>3, Zenon
  <2>5. ASSUME NEW i \in 1..(p - 1) PROVE sleepers[i].left <= n
    <3>1. i \in 1..m /\ i \notin later
      BY <1>1, <2>3, <2>4
    <3> QED
      BY <1>1, <3>1
  <2>6. ASSUME NEW i \in p..m PROVE sleepers[i].left > n
    <3>1. i \in 1..m /\ p <= i
      BY <1>1, <2>4
    <3>2. sleepers[p].left <= sleepers[i].left
      BY <2>4, <3>1, Zenon DEF SleepOK, Sorted
    <3> QED
      BY <1>1, <2>4, <3>1, <3>2
  <2> QED
    BY <1>1, <2>4, <2>5, <2>6
<1> QED
  BY <1>2, <1>3, Zenon

(* timer_sleep keeps the list sorted.                                      *)
LEMMA InsertSleeper ==
    ASSUME SleepOK, NEW t \in Thread, t \notin Asleep, NEW n \in -MaxWait..MaxSleep,
           sleepers' = InsertAt(sleepers, Place(n), [thread |-> t, left |-> n])
    PROVE  SleepOK' /\ Asleep' = Asleep \cup {t}
<1> DEFINE m == Len(sleepers)
           p == Place(n)
           x == [thread |-> t, left |-> n]
<1>1. m \in Nat /\ sleepers \in Seq(Sleeper) /\ \A i \in 1..m : sleepers[i].left \in Int
  BY SleepersAre, Zenon DEF SleepOK
<1>2. x \in Sleeper /\ x.thread = t /\ x.left = n
  BY Zenon DEF Sleeper
<1>3. n \in Int
  BY TimerAssumption
<1>4. /\ p \in 1..(m + 1)
      /\ \A i \in 1..(p - 1) : sleepers[i].left <= n
      /\ \A i \in p..m : sleepers[i].left > n
  BY <1>3, PlaceIs, Zenon
<1> HIDE DEF p, x
<1>5. /\ sleepers' \in Seq(Sleeper) /\ Len(sleepers') = m + 1
      /\ \A j \in 1..(m + 1) : sleepers'[j] = IF j < p THEN sleepers[j]
                                             ELSE IF j = p THEN x ELSE sleepers[j - 1]
  <2>1. sleepers' = InsertAt(sleepers, p, x)
    BY Zenon DEF p, x
  <2>2. sleepers' \in Seq(Sleeper) /\ Inserted(sleepers', sleepers, p, x)
    BY <1>1, <1>2, <1>4, <2>1, InsertAtPositions, Zenon
  <2> QED
    BY <2>2, Zenon DEF Inserted
<1> HIDE DEF m
<1>6. ASSUME NEW j \in 1..(m + 1)
      PROVE  \/ j < p /\ j \in 1..m /\ sleepers'[j] = sleepers[j]
             \/ j = p /\ sleepers'[j] = x
             \/ j > p /\ j - 1 \in 1..m /\ j - 1 >= p /\ sleepers'[j] = sleepers[j - 1]
  BY <1>1, <1>4, <1>5
<1>7. \A i \in 1..m : sleepers[i].thread # t
  BY Zenon DEF Asleep, m
<1>8. Distinct(sleepers')
  <2> SUFFICES ASSUME NEW i \in 1..(m + 1), NEW j \in 1..(m + 1),
                      sleepers'[i].thread = sleepers'[j].thread
               PROVE  i = j
    BY <1>5, Zenon DEF Distinct
  <2>1. \A k, l \in 1..m : sleepers[k].thread = sleepers[l].thread => k = l
    BY Zenon DEF SleepOK, Distinct, m
  <2>2. \/ i = p /\ j = p
        \/ i < p /\ j < p /\ i \in 1..m /\ j \in 1..m
           /\ sleepers[i].thread = sleepers[j].thread
        \/ i > p /\ j > p /\ i - 1 \in 1..m /\ j - 1 \in 1..m
           /\ sleepers[i - 1].thread = sleepers[j - 1].thread
        \/ i < p /\ j > p /\ i \in 1..m /\ j - 1 \in 1..m /\ j - 1 >= p
           /\ sleepers[i].thread = sleepers[j - 1].thread
        \/ i > p /\ j < p /\ i - 1 \in 1..m /\ j \in 1..m /\ i - 1 >= p
           /\ sleepers[i - 1].thread = sleepers[j].thread
    BY <1>2, <1>6, <1>7
  <2> QED
    BY <1>4, <2>1, <2>2
<1>9. Sorted(sleepers')
  <2> SUFFICES ASSUME NEW i \in 1..(m + 1), NEW j \in 1..(m + 1), i <= j
               PROVE  sleepers'[i].left <= sleepers'[j].left
    BY <1>5, Zenon DEF Sorted
  <2>1. \A k, l \in 1..m : k <= l => sleepers[k].left <= sleepers[l].left
    BY Zenon DEF SleepOK, Sorted, m
  <2>2. CASE i = j
    <3>1. sleepers'[i].left \in Int
      BY <1>1, <1>2, <1>3, <1>6, Zenon
    <3> QED
      BY <2>2, <3>1
  <2>3. CASE i < j
    <3>1. CASE j < p
      <4>1. i \in 1..m /\ j \in 1..m /\ sleepers'[i] = sleepers[i] /\ sleepers'[j] = sleepers[j]
        BY <1>1, <1>4, <1>6, <2>3, <3>1
      <4> QED
        BY <2>1, <2>3, <4>1, Zenon
    <3>2. CASE j = p
      <4>1. i \in 1..(p - 1) /\ sleepers'[i] = sleepers[i] /\ sleepers'[j].left = n
        BY <1>1, <1>2, <1>4, <1>6, <2>3, <3>2
      <4> QED
        BY <1>4, <4>1, Zenon
    <3>3. CASE j > p
      <4>1. sleepers'[j] = sleepers[j - 1] /\ j - 1 \in 1..m /\ j - 1 \in p..m
        BY <1>1, <1>4, <1>6, <3>3
      <4>2. CASE i < p
        <5>1. i \in 1..m /\ i <= j - 1 /\ sleepers'[i] = sleepers[i]
          BY <1>1, <1>4, <1>6, <2>3, <4>2
        <5> QED
          BY <2>1, <4>1, <5>1, Zenon
      <4>3. CASE i = p
        <5>1. sleepers'[i].left = n /\ sleepers[j - 1].left > n /\ sleepers[j - 1].left \in Int
          BY <1>1, <1>2, <1>4, <1>6, <4>1, <4>3
        <5> QED
          BY <1>3, <4>1, <5>1
      <4>4. CASE i > p
        <5>1. i - 1 \in 1..m /\ i - 1 <= j - 1 /\ sleepers'[i] = sleepers[i - 1]
          <6>1. ~(i < p) /\ i # p
            BY <1>4, <4>4
          <6>2. i - 1 \in 1..m /\ sleepers'[i] = sleepers[i - 1]
            BY <1>6, <6>1, Zenon
          <6>3. i - 1 <= j - 1
            BY <1>1, <2>3
          <6> QED
            BY <6>2, <6>3, Zenon
        <5> QED
          BY <2>1, <4>1, <5>1, Zenon
      <4> QED
        BY <1>4, <4>2, <4>3, <4>4
    <3> QED
      BY <1>4, <3>1, <3>2, <3>3
  <2> QED
    BY <2>2, <2>3
<1>10. Asleep' = Asleep \cup {t}
  <2>1. ASSUME NEW j \in 1..(m + 1) PROVE sleepers'[j].thread \in Asleep \cup {t}
    BY <1>2, <1>6, Zenon DEF Asleep, m
  <2>2. ASSUME NEW i \in 1..m PROVE \E j \in 1..(m + 1) : sleepers'[j].thread = sleepers[i].thread
    <3>1. CASE i < p
      BY <1>1, <1>5, <3>1
    <3>2. CASE i >= p
      <4>1. i + 1 \in 1..(m + 1) /\ sleepers'[i + 1] = sleepers[i]
        BY <1>1, <1>4, <1>5, <3>2
      <4> QED
        BY <4>1, Zenon
    <3> QED
      BY <1>4, <3>1, <3>2
  <2>3. p \in 1..(m + 1) /\ sleepers'[p].thread = t
    BY <1>2, <1>4, <1>6
  <2>4. Asleep' = {sleepers'[j].thread : j \in 1..(m + 1)}
    BY <1>5, Zenon DEF Asleep
  <2>5. Asleep = {sleepers[i].thread : i \in 1..m}
    BY Zenon DEF Asleep, m
  <2> QED
    BY <2>1, <2>2, <2>3, <2>4, <2>5
<1> QED
  BY <1>5, <1>8, <1>9, <1>10, Zenon DEF SleepOK

(* What a tick leaves of the list, and the threads that it wakes.          *)
LEMMA TickSleepers ==
    ASSUME SleepOK, NEW n, n = Due(Aged(sleepers)),
           sleepers' = SubSeq(Aged(sleepers), n + 1, Len(Aged(sleepers)))
    PROVE  /\ SleepOK'
           /\ Len(sleepers') = Len(sleepers) - n
           /\ \A j \in 1..(Len(sleepers) - n) : sleepers'[j].thread = sleepers[n + j].thread
<1> DEFINE m == Len(sleepers)
           s == Aged(sleepers)
<1>1. m \in Nat /\ n \in 0..m /\ \A i \in 1..m : sleepers[i].left \in Int
  BY SleepersAre, DueAre, Zenon
<1>2. s \in Seq(Sleeper) /\ Len(s) = m
  BY AgedAre, Zenon
<1>3. \A i \in 1..m : s[i].thread = sleepers[i].thread /\ s[i].left = Later(sleepers[i].left)
  BY AgedAre, Zenon
<1>4. sleepers' = SubSeq(s, n + 1, Len(s))
  BY Zenon
<1> HIDE DEF m, s
<1>5. /\ sleepers' \in Seq(Sleeper)
      /\ Len(sleepers') = m - n
      /\ \A j \in 1..(m - n) : sleepers'[j] = s[n + j]
  <2>1. n \in 0..Len(s)
    BY <1>1, <1>2, Zenon
  <2>2. sleepers' \in Seq(Sleeper) /\ RestOf(sleepers', s, n)
    BY <1>2, <1>4, <2>1, CutPositions, Zenon
  <2> QED
    BY <1>2, <2>2, Zenon DEF RestOf
<1>6. \A j \in 1..(m - n) : n + j \in 1..m
  BY <1>1
<1>7. \A j \in 1..(m - n) : /\ sleepers'[j].thread = sleepers[n + j].thread
                           /\ sleepers'[j].left = Later(sleepers[n + j].left)
  BY <1>3, <1>5, <1>6, Zenon
<1>8. Distinct(sleepers')
  <2> SUFFICES ASSUME NEW i \in 1..(m - n), NEW j \in 1..(m - n),
                      sleepers'[i].thread = sleepers'[j].thread
               PROVE  i = j
    BY <1>5, Zenon DEF Distinct
  <2>1. n + i \in 1..m /\ n + j \in 1..m /\ sleepers[n + i].thread = sleepers[n + j].thread
    BY <1>6, <1>7, Zenon
  <2>2. n + i = n + j
    BY <2>1, Zenon DEF SleepOK, Distinct, m
  <2> QED
    BY <1>1, <2>2
<1>9. Sorted(sleepers')
  <2> SUFFICES ASSUME NEW i \in 1..(m - n), NEW j \in 1..(m - n), i <= j
               PROVE  sleepers'[i].left <= sleepers'[j].left
    BY <1>5, Zenon DEF Sorted
  <2>1. n + i <= n + j
    BY <1>1
  <2>2. sleepers[n + i].left <= sleepers[n + j].left
    BY <1>6, <2>1, Zenon DEF SleepOK, Sorted, m
  <2>3. \A a, b \in Int : a <= b => Later(a) <= Later(b)
    BY TimerAssumption DEF Later
  <2> QED
    BY <1>1, <1>6, <1>7, <2>2, <2>3, Zenon
<1> QED
  BY <1>5, <1>7, <1>8, <1>9, Zenon DEF SleepOK, m

LEMMA TickWakes ==
    ASSUME SleepOK, NEW n, n = Due(Aged(sleepers)),
           sleepers' = SubSeq(Aged(sleepers), n + 1, Len(Aged(sleepers))),
           NEW woken, woken = [i \in 1..n |-> Aged(sleepers)[i].thread]
    PROVE  /\ woken \in Seq(Thread) /\ IsInjective(woken)
           /\ Asleep' \subseteq Asleep /\ Range(woken) = Asleep \ Asleep'
<1> DEFINE m == Len(sleepers)
<1>1. m \in Nat /\ n \in 0..m /\ \A i \in 1..m : sleepers[i].thread \in Thread
  BY SleepersAre, DueAre, Zenon
<1>2. woken = [i \in 1..n |-> sleepers[i].thread]
  <2>1. \A i \in 1..m : Aged(sleepers)[i].thread = sleepers[i].thread
    BY AgedAre, Zenon
  <2>2. \A i \in 1..n : i \in 1..m
    BY <1>1
  <2> QED
    BY <2>1, <2>2, Zenon
<1>3. Len(sleepers') = m - n /\ \A j \in 1..(m - n) : sleepers'[j].thread = sleepers[n + j].thread
  BY TickSleepers, Zenon
<1>4. \A i, j \in 1..m : sleepers[i].thread = sleepers[j].thread => i = j
  BY Zenon DEF SleepOK, Distinct
<1>5. Asleep = {sleepers[i].thread : i \in 1..m}
  BY Zenon DEF Asleep
<1>6. Asleep' = {sleepers'[j].thread : j \in 1..(m - n)}
  BY <1>3, Zenon DEF Asleep
<1> HIDE DEF m
<1>7. Asleep' = {sleepers[i].thread : i \in (n + 1)..m}
  <2>1. ASSUME NEW j \in 1..(m - n)
        PROVE  n + j \in (n + 1)..m /\ sleepers'[j].thread = sleepers[n + j].thread
    <3>1. n \in Nat /\ n + j \in (n + 1)..m
      BY <1>1
    <3> QED
      BY <1>3, <3>1, Zenon
  <2>2. ASSUME NEW i \in (n + 1)..m
        PROVE  i - n \in 1..(m - n) /\ sleepers'[i - n].thread = sleepers[i].thread
    <3>1. i - n \in 1..(m - n) /\ n + (i - n) = i
      BY <1>1
    <3> QED
      BY <1>3, <3>1, Zenon
  <2>3. ASSUME NEW x \in Asleep' PROVE \E i \in (n + 1)..m : x = sleepers[i].thread
    <3>1. PICK j \in 1..(m - n) : x = sleepers'[j].thread
      BY <1>6, Zenon
    <3> QED
      BY <2>1, <3>1, Zenon
  <2>4. ASSUME NEW i \in (n + 1)..m PROVE sleepers[i].thread \in Asleep'
    <3>1. PICK j \in 1..(m - n) : sleepers'[j].thread = sleepers[i].thread
      BY <2>2, Zenon
    <3> QED
      BY <1>6, <3>1, Zenon
  <2> QED
    BY <2>3, <2>4, Zenon
<1>8. woken \in [1..n -> Thread]
  BY <1>1, <1>2
<1>9. woken \in Seq(Thread)
  <2>1. n \in Nat
    BY <1>1
  <2> QED
    BY <1>8, <2>1, SeqDef, ZenonT(40)
<1>10. DOMAIN woken = 1..n /\ \A i \in 1..n : woken[i] = sleepers[i].thread
  BY <1>2, Zenon
<1>11. \A i \in 1..n : i \in 1..m
  BY <1>1
<1>12. IsInjective(woken)
  BY <1>4, <1>10, <1>11 DEF IsInjective
<1>13. Range(woken) = {sleepers[i].thread : i \in 1..n}
  BY <1>10, Zenon DEF Range
<1>14. \A i \in 1..m : i \in 1..n <=> i \notin (n + 1)..m
  BY <1>1
<1>15. \A i \in (n + 1)..m : i \in 1..m
  BY <1>1
<1> QED
  BY <1>4, <1>5, <1>7, <1>9, <1>11, <1>12, <1>13, <1>14, <1>15

-----------------------------------------------------------------------------
(* ALL_LIST                                                                *)

(* Vec::retain keeps what is not t, in order.                              *)
KeptOf(s, t, r, n) ==
    /\ r \in Seq(Thread) /\ Len(r) <= n
    /\ Range(r) = {s[k] : k \in 1..n} \ {t}
    /\ IsInjective(s) => IsInjective(r)

KeptStep(s, t, f, n) ==
    IF n = 0 THEN <<>> ELSE IF s[n] = t THEN f[n - 1] ELSE Append(f[n - 1], s[n])

LEMMA KeptExists ==
    ASSUME NEW s \in Seq(Thread), NEW t
    PROVE  \E f : f = [n \in 0..Len(s) |-> KeptStep(s, t, f, n)]
<1> DEFINE step(f, n) == KeptStep(s, t, f, n)
           T == {m \in Nat : \E f : f = [n \in 0..m |-> step(f, n)]}
<1> USE DEF KeptStep
<1>1. 0 \in T
  <2> DEFINE f == [n \in 0..0 |-> <<>>]
  <2>1. f = [n \in 0..0 |-> step(f, n)]
    OBVIOUS
  <2> QED
    BY <2>1, Zenon
<1>2. ASSUME NEW m \in Nat, m \in T PROVE m + 1 \in T
  <2>1. PICK f : f = [n \in 0..m |-> step(f, n)]
    BY <1>2, Zenon
  <2> DEFINE g == [n \in 0..(m + 1) |-> IF n = m + 1 THEN step(f, n) ELSE f[n]]
  <2>2. \A n \in 0..m : f[n] = step(f, n)
    BY <2>1, Zenon
  <2>3. \A n \in 0..m : g[n] = f[n]
    OBVIOUS
  <2>4. ASSUME NEW n \in 0..(m + 1) PROVE g[n] = step(g, n)
    <3>1. n = 0 \/ n - 1 \in 0..m
      OBVIOUS
    <3>2. n = 0 \/ g[n - 1] = f[n - 1]
      BY <2>3, <3>1, Zenon
    <3>3. g[n] = step(f, n)
      BY <2>2
    <3> QED
      BY <3>2, <3>3, Zenon
  <2>5. g = [n \in 0..(m + 1) |-> step(g, n)]
    BY <2>4, Zenon
  <2> HIDE DEF g
  <2>6. \E h : h = [n \in 0..(m + 1) |-> step(h, n)]
    BY <2>5, Zenon
  <2>7. m + 1 \in Nat
    OBVIOUS
  <2> QED
    BY <2>6, <2>7, Zenon
<1> HIDE DEF T, KeptStep
<1>3. Len(s) \in T
  BY <1>1, <1>2, NatInductionSet, LenProperties, Zenon
<1> QED
  BY <1>3, Zenon DEF T

LEMMA KeptIs ==
    ASSUME NEW s \in Seq(Thread), NEW t
    PROVE  KeptOf(s, t, Kept(s, t), Len(s))
<1> DEFINE F == CHOOSE f : f = [n \in 0..Len(s) |-> KeptStep(s, t, f, n)]
           T == {n \in Nat : n <= Len(s) => KeptOf(s, t, F[n], n)}
<1>1. Kept(s, t) = F[Len(s)]
  BY Zenon DEF Kept, KeptStep
<1>2. F = [n \in 0..Len(s) |-> KeptStep(s, t, F, n)]
  BY KeptExists, Zenon
<1> HIDE DEF F
<1>3. /\ Len(s) \in Nat /\ DOMAIN s = 1..Len(s) /\ \A k \in 1..Len(s) : s[k] \in Thread
  BY LenProperties, ElementOfSeq, Zenon
<1>4. F[0] = <<>>
  BY <1>2, <1>3 DEF KeptStep
<1>5. ASSUME NEW n \in 1..Len(s)
      PROVE  F[n] = IF s[n] = t THEN F[n - 1] ELSE Append(F[n - 1], s[n])
  <2>1. n \in 0..Len(s) /\ n # 0
    BY <1>3
  <2>2. F[n] = KeptStep(s, t, F, n)
    BY <1>2, <2>1, Zenon
  <2> QED
    BY <2>1, <2>2, Zenon DEF KeptStep
<1>6. 0 \in T
  <2>1. KeptOf(s, t, <<>>, 0)
    <3>1. <<>> \in Seq(Thread) /\ Len(<<>>) = 0 /\ DOMAIN <<>> = {}
      OBVIOUS
    <3>2. Range(<<>>) = {} /\ IsInjective(<<>>)
      BY <3>1, Zenon DEF Range, IsInjective
    <3>3. {s[k] : k \in 1..0} = {}
      OBVIOUS
    <3> QED
      BY <3>1, <3>2, <3>3 DEF KeptOf
  <2> QED
    BY <1>4, <2>1, Zenon
<1>7. ASSUME NEW n \in Nat, n \in T PROVE n + 1 \in T
  <2> SUFFICES ASSUME n + 1 <= Len(s) PROVE KeptOf(s, t, F[n + 1], n + 1)
    OBVIOUS
  <2> DEFINE r == F[n]
             x == s[n + 1]
  <2>1. KeptOf(s, t, r, n)
    BY <1>3, <1>7
  <2>2. n + 1 \in 1..Len(s) /\ (n + 1) - 1 = n
    BY <1>3
  <2>3. F[n + 1] = IF x = t THEN r ELSE Append(r, x)
    BY <1>5, <2>2, Zenon
  <2>4. {s[k] : k \in 1..(n + 1)} = {s[k] : k \in 1..n} \cup {x}
    <3>1. \A k \in 1..(n + 1) : k \in 1..n \/ k = n + 1
      OBVIOUS
    <3>2. n + 1 \in 1..(n + 1) /\ \A k \in 1..n : k \in 1..(n + 1)
      OBVIOUS
    <3> QED
      BY <3>1, <3>2, Zenon
  <2>5. x \in Thread
    BY <1>3, <2>2, Zenon
  <2>6. IsInjective(s) => x \notin {s[k] : k \in 1..n}
    <3>1. \A k \in 1..n : k \in 1..Len(s) /\ k # n + 1
      BY <1>3, <2>2
    <3> QED
      BY <1>3, <2>2, <3>1, Zenon DEF IsInjective
  <2> DEFINE P == {s[k] : k \in 1..n}
             Q == {s[k] : k \in 1..(n + 1)}
  <2>7. r \in Seq(Thread) /\ Len(r) <= n /\ Range(r) = P \ {t} /\ (IsInjective(s) => IsInjective(r))
    BY <2>1, Zenon DEF KeptOf
  <2> HIDE DEF r, x, P, Q
  <2>8. Q = P \cup {x} /\ (IsInjective(s) => x \notin P)
    BY <2>4, <2>6, Zenon DEF P, Q
  <2>9. CASE x = t
    <3>1. F[n + 1] = r /\ Q \ {t} = P \ {t}
      BY <2>3, <2>8, <2>9, Zenon
    <3>2. Len(r) <= n + 1
      BY <2>7
    <3> QED
      BY <2>7, <3>1, <3>2, Zenon DEF KeptOf, Q
  <2>10. CASE x # t
    <3> DEFINE a == Append(r, x)
    <3>1. F[n + 1] = a /\ Q \ {t} = (P \ {t}) \cup {x}
      BY <2>3, <2>8, <2>10, Zenon
    <3>2. a \in Seq(Thread) /\ Len(a) = Len(r) + 1
      BY <2>5, <2>7, AppendProperties, Zenon
    <3>3. Len(a) <= n + 1
      BY <2>7, <3>2, LenProperties
    <3>4. IsInjective(s) => IsInjective(a)
      BY <2>5, <2>7, <2>8, AppendQueue, Zenon
    <3>5. Range(a) = Range(r) \cup {x}
      BY <2>5, <2>7, AppendRange
    <3> HIDE DEF a
    <3>6. Range(a) = Q \ {t}
      BY <2>7, <3>1, <3>5, Zenon
    <3> QED
      BY <3>1, <3>2, <3>3, <3>4, <3>6, Zenon DEF KeptOf, Q
  <2> QED
    BY <2>9, <2>10, Zenon
<1> HIDE DEF T
<1>8. Len(s) \in T
  BY <1>3, <1>6, <1>7, NatInductionSet, Zenon
<1>9. KeptOf(s, t, F[Len(s)], Len(s))
  BY <1>3, <1>8 DEF T
<1> QED
  BY <1>1, <1>9, Zenon

AllType(a) == a \in [len : Nat, buf : Seq(Thread)] /\ a.len <= Len(a.buf)

(* What a list starts with.                                                *)
LEMMA StartOf ==
    ASSUME NEW p \in Seq(Thread), NEW q \in Seq(Thread)
    PROVE  /\ p \o q \in Seq(Thread) /\ Len(p \o q) = Len(p) + Len(q)
           /\ SubSeq(p \o q, 1, Len(p)) = p
<1>1. Len(p) \in Nat /\ Len(q) \in Nat
  BY LenProperties, Zenon
<1>2. 1 \in 1..(Len(p) + 1) /\ Len(p) \in (1 - 1)..Len(p)
  BY <1>1
<1>3. SubSeq(p \o q, 1, Len(p)) = SubSeq(p, 1, Len(p))
  BY <1>2, SubSeqOfConcat1
<1>4. SubSeq(p, 1, Len(p)) = p
  BY SubSeqFull, Zenon
<1>5. p \o q \in Seq(Thread) /\ Len(p \o q) = Len(p) + Len(q)
  BY ConcatProperties, Zenon
<1> QED
  BY <1>3, <1>4, <1>5, Zenon

(* The second half of a push that read the length n.                       *)
PushedOf(a, n, c, b) ==
    /\ AllType(b) /\ Len(b.buf) >= Len(a.buf)
    /\ SubSeq(b.buf, 1, b.len) = Append(SubSeq(a.buf, 1, n), c)

LEMMA PushedIs ==
    ASSUME NEW a, AllType(a), NEW n \in Nat, n <= Len(a.buf), NEW c \in Thread
    PROVE  PushedOf(a, n, c, Pushed(a, n, c))
<1> DEFINE q == a.buf
           p == SubSeq(q, 1, n)
           s == Append(p, c)
           u == SubSeq(q, n + 2, Len(q))
           b == Pushed(a, n, c)
<1>1. q \in Seq(Thread) /\ Len(q) \in Nat /\ n \in 0..Len(q)
  BY LenProperties DEF AllType
<1>2. b.len = n + 1 /\ b.buf = p \o <<c>> \o u /\ b = [len |-> n + 1, buf |-> p \o <<c>> \o u]
  BY Zenon DEF Pushed
<1> HIDE DEF q
<1>3. p \in Seq(Thread) /\ Len(p) = n
  <2>1. p \in Seq(Thread) /\ FirstOf(p, q, n)
    BY <1>1, CutPositions, Zenon
  <2> QED
    BY <2>1, Zenon DEF FirstOf
<1>4. u \in Seq(Thread) /\ Len(u) \in Nat /\ n + 1 + Len(u) >= Len(q)
  <2>1. CASE n = Len(q)
    <3>1. u = <<>>
      BY <1>1, <2>1, SubSeqEmpty, n + 2 \in Int
    <3> QED
      BY <1>1, <2>1, <3>1
  <2>2. CASE n < Len(q)
    <3>1. n + 1 \in 0..Len(q) /\ (n + 1) + 1 = n + 2
      BY <1>1, <2>2
    <3>2. u \in Seq(Thread) /\ RestOf(u, q, n + 1)
      BY <1>1, <3>1, CutPositions, Zenon
    <3>3. Len(u) = Len(q) - (n + 1)
      BY <3>2, Zenon DEF RestOf
    <3> HIDE DEF u
    <3>4. Len(u) \in Nat
      BY <3>2, LenProperties, Zenon
    <3> QED
      BY <1>1, <3>1, <3>2, <3>3, <3>4
  <2> HIDE DEF u
  <2> QED
    BY <1>1, <2>1, <2>2
<1> HIDE DEF p, u, b
<1>5. s \in Seq(Thread) /\ Len(s) = n + 1 /\ s = p \o <<c>>
  BY <1>3
<1> HIDE DEF s
<1>6. /\ s \o u \in Seq(Thread) /\ Len(s \o u) = Len(s) + Len(u)
      /\ SubSeq(s \o u, 1, Len(s)) = s
  BY <1>4, <1>5, StartOf, Zenon
<1>7. b.buf = s \o u /\ b = [len |-> n + 1, buf |-> s \o u] /\ b.len = n + 1
  BY <1>2, <1>5, Zenon
<1>8. Len(b.buf) >= Len(q) /\ b.len <= Len(b.buf)
  BY <1>1, <1>4, <1>5, <1>6, <1>7
<1>9. b \in [len : Nat, buf : Seq(Thread)]
  BY <1>6, <1>7
<1>10. SubSeq(b.buf, 1, b.len) = s
  BY <1>5, <1>6, <1>7, Zenon
<1>11. AllType(b)
  BY <1>8, <1>9, Zenon DEF AllType
<1> QED
  BY <1>8, <1>10, <1>11, Zenon DEF PushedOf, b, s, p, q

(* retain, in exit.                                                        *)
RetainedOf(a, t, b) ==
    /\ AllType(b) /\ Len(b.buf) = Len(a.buf)
    /\ Range(SubSeq(b.buf, 1, b.len)) = Range(SubSeq(a.buf, 1, a.len)) \ {t}
    /\ IsInjective(SubSeq(a.buf, 1, a.len)) => IsInjective(SubSeq(b.buf, 1, b.len))

LEMMA RetainedIs ==
    ASSUME NEW a, AllType(a), NEW t
    PROVE  RetainedOf(a, t, Retained(a, t))
<1> DEFINE q == a.buf
           s == SubSeq(q, 1, a.len)
           k == Kept(s, t)
           u == SubSeq(q, Len(k) + 1, Len(q))
           b == Retained(a, t)
<1>1. q \in Seq(Thread) /\ Len(q) \in Nat /\ a.len \in 0..Len(q)
  BY LenProperties DEF AllType
<1>2. s \in Seq(Thread) /\ Len(s) = a.len /\ DOMAIN s = 1..a.len
  <2> HIDE DEF q
  <2>1. s \in Seq(Thread) /\ FirstOf(s, q, a.len)
    BY <1>1, CutPositions, Zenon
  <2>2. Len(s) = a.len
    BY <2>1, Zenon DEF FirstOf
  <2> QED
    BY <2>1, <2>2, LenProperties, Zenon
<1>3. b = [len |-> Len(k), buf |-> k \o u] /\ b.len = Len(k) /\ b.buf = k \o u
  BY Zenon DEF Retained
<1> HIDE DEF q, s
<1>4. KeptOf(s, t, k, Len(s))
  BY <1>2, KeptIs, Zenon
<1>5. /\ k \in Seq(Thread) /\ Len(k) <= a.len
      /\ Range(k) = {s[i] : i \in 1..a.len} \ {t} /\ (IsInjective(s) => IsInjective(k))
  BY <1>2, <1>4, Zenon DEF KeptOf
<1> HIDE DEF k
<1>6. Len(k) \in 0..Len(q)
  BY <1>1, <1>5, LenProperties
<1>7. u \in Seq(Thread) /\ Len(u) = Len(q) - Len(k)
  <2>1. u \in Seq(Thread) /\ RestOf(u, q, Len(k))
    BY <1>1, <1>6, CutPositions, Zenon
  <2> QED
    BY <2>1, Zenon DEF RestOf
<1> HIDE DEF u, b
<1>8. /\ k \o u \in Seq(Thread) /\ Len(k \o u) = Len(k) + Len(u)
      /\ SubSeq(k \o u, 1, Len(k)) = k
  BY <1>5, <1>7, StartOf, Zenon
<1>9. Len(b.buf) = Len(q) /\ b.len <= Len(b.buf)
  BY <1>1, <1>3, <1>6, <1>7, <1>8
<1>10. b \in [len : Nat, buf : Seq(Thread)]
  BY <1>3, <1>6, <1>8
<1>11. SubSeq(b.buf, 1, b.len) = k
  BY <1>3, <1>8, Zenon
<1>12. AllType(b)
  BY <1>9, <1>10, Zenon DEF AllType
<1>13. Range(s) = {s[i] : i \in 1..a.len}
  BY <1>2, Zenon DEF Range
<1> QED
  BY <1>5, <1>9, <1>11, <1>12, <1>13, Zenon DEF RetainedOf, b, s, q

-----------------------------------------------------------------------------
(* The inductive invariant                                                 *)

Creating(t) == pc[t] \in {"push", "unblock"}

LocalType ==
    /\ live \subseteq Thread
    /\ pc \in [Thread -> {"run", "sleep", "push", "unblock"}]
    /\ child \in [Thread -> Thread] /\ n0 \in [Thread -> 0..MaxList]
    /\ left \in [Thread -> -MaxWait..MaxSleep]
    /\ slice \in 0..(TIME_SLICE - 1)
    /\ torn \in BOOLEAN /\ halted \in BOOLEAN

(* A thread is Blocked while it sleeps, while it is being created and when *)
(* its page is free, and at no other time; it is in at most one of these   *)
(* conditions, and calls neither timer_sleep nor create in any of them.    *)
Places ==
    /\ \A t \in Thread : pc[t] # "run" => t \in live /\ status[t] # "Blocked"
    /\ \A t \in Thread : t \notin live => status[t] = "Blocked"
    /\ \A t \in Asleep : t \in live /\ status[t] = "Blocked"
    /\ \A t \in Thread : Creating(t) => /\ child[t] \in live /\ child[t] \notin Asleep
                                        /\ status[child[t]] = "Blocked"
    /\ \A t, u \in Thread : Creating(t) /\ Creating(u) /\ child[t] = child[u] => t = u
    /\ \A t \in Thread : t \in live /\ status[t] = "Blocked" =>
           t \in Asleep \/ \E u \in Thread : Creating(u) /\ child[u] = t

(* ALL_LIST, as long as no push was torn.                                  *)
AllExact ==
    ~torn => /\ IsInjective(SubSeq(all.buf, 1, all.len))
             /\ \A t \in Thread : t \in Listed <=>
                   t \in live /\ ~\E u \in Thread : pc[u] = "push" /\ child[u] = t
AllOK ==
    /\ AllType(all) /\ AllExact
    /\ \A t \in Thread : pc[t] = "push" => n0[t] <= Len(all.buf)

IInv == SchedOK /\ LocalType /\ SleepOK /\ Places /\ AllOK

LEMMA SleepersAsleep ==
    ASSUME SleepOK
    PROVE  Asleep \subseteq Thread
BY SleepersAre, Zenon DEF Asleep

(* Who runs is neither Blocked nor, unless it is the idle thread, without  *)
(* a page.                                                                 *)
LEMMA CurrentIsLive ==
    ASSUME IInv
    PROVE  /\ cur \in Everyone /\ status[cur] = "Running"
           /\ cur \in Thread => cur \in live /\ cur \notin Asleep
<1>1. cur \in Everyone /\ status[cur] = "Running"
  BY Zenon DEF IInv, SchedOK, SchedTypeOK, ReadyListExact
<1> QED
  BY <1>1, Zenon DEF IInv, Places

(* A step that changes only who runs keeps the rest.                       *)
LEMMA AllKept ==
    ASSUME AllOK, UNCHANGED create, UNCHANGED pc
    PROVE  AllOK'
BY Zenon DEF AllOK, AllExact, AllType, create, Listed

-----------------------------------------------------------------------------
(* The interrupt                                                           *)

(* wake_sleeping_threads, which unblocks the threads woken, and perhaps    *)
(* the yield on the return from the interrupt.                             *)
LEMMA WakeExact ==
    ASSUME SchedOK, NEW woken \in Seq(Thread), IsInjective(woken),
           \A t \in Range(woken) : status[t] = "Blocked",
           NEW st, st = [t \in Everyone |-> IF t \in Range(woken) THEN "Ready" ELSE status[t]],
           NEW q, q = ready \o woken,
           YieldFrom(st, q, priority) \/ (cur' = cur /\ status' = st /\ ready' = q)
    PROVE  /\ SchedOK'
           /\ \A t \in Thread : status'[t] = "Blocked"
                                    <=> status[t] = "Blocked" /\ t \notin Range(woken)
<1>1. /\ ready \in Seq(Thread) /\ IsInjective(ready) /\ cur \in Everyone
      /\ status \in [Everyone -> Statuses]
      /\ \A t \in Everyone : status[t] = "Running" <=> t = cur
      /\ \A t \in Thread : status[t] = "Ready" <=> t \in Range(ready)
  BY Zenon DEF SchedOK, SchedTypeOK, ReadyListExact, Statuses
<1>2. Range(woken) \subseteq Thread /\ Range(ready) \subseteq Thread
  BY <1>1, LenProperties, ElementOfSeq DEF Range
<1>3. Range(ready) \cap Range(woken) = {}
  BY <1>1, <1>2, Zenon
<1>4. q \in Seq(Thread) /\ IsInjective(q) /\ Range(q) = Range(ready) \cup Range(woken)
  BY <1>1, <1>3, ConcatQueue
<1>5. /\ st \in [Everyone -> Statuses]
      /\ \A t \in Everyone : st[t] = "Running" <=> t = cur
  BY <1>1, <1>2, Zenon DEF Statuses, Everyone
<1>6. /\ \A t \in Thread : st[t] = "Ready" <=> t \in Range(q)
      /\ \A t \in Thread : st[t] = "Blocked" <=> status[t] = "Blocked" /\ t \notin Range(woken)
  BY <1>1, <1>4, Zenon DEF Everyone
<1>7. CASE YieldFrom(st, q, priority)
  <2>1. \A t \in Thread : st[t] = "Ready" <=> t \in Range(q)
    BY <1>6, Zenon
  <2>2. SchedOK' /\ \A t \in Thread : status'[t] = "Blocked" <=> st[t] = "Blocked"
    BY <1>1, <1>4, <1>5, <1>7, <2>1, YieldExact, ZenonT(40)
  <2> QED
    BY <1>6, <2>2, Zenon
<1>8. CASE cur' = cur /\ status' = st /\ ready' = q
  <2>1. SchedTypeOK'
    BY <1>1, <1>4, <1>5, <1>8, Zenon DEF SchedTypeOK, Statuses
  <2>2. ReadyListExact'
    BY <1>4, <1>5, <1>6, <1>8, Zenon DEF ReadyListExact
  <2> QED
    BY <1>6, <1>8, <2>1, <2>2, Zenon DEF SchedOK
<1> QED
  BY <1>7, <1>8, Zenon

(* Sleepers are woken and nothing else happens to the threads.             *)
LEMMA PlacesKept ==
    ASSUME Places, SleepOK, live \subseteq Thread, child \in [Thread -> Thread],
           UNCHANGED <<pc, child, live>>, Asleep' \subseteq Asleep,
           \A t \in Thread : status'[t] = "Blocked"
                                <=> status[t] = "Blocked" /\ t \notin Asleep \ Asleep'
    PROVE  Places'
<1>0. Asleep \subseteq Thread
  BY SleepersAsleep, Zenon
<1>1. \A t \in Thread : pc'[t] # "run" => t \in live' /\ status'[t] # "Blocked"
  BY Zenon DEF Places
<1>2. \A t \in Thread : t \notin live' => status'[t] = "Blocked"
  BY <1>0, Zenon DEF Places
<1>3. \A t \in Asleep' : t \in live' /\ status'[t] = "Blocked"
  BY <1>0, Zenon DEF Places
<1>4. \A t \in Thread : Creating(t)' => /\ child'[t] \in live' /\ child'[t] \notin Asleep'
                                        /\ status'[child'[t]] = "Blocked"
  BY Zenon DEF Places, Creating
<1>5. \A t, u \in Thread : Creating(t)' /\ Creating(u)' /\ child'[t] = child'[u] => t = u
  BY DEF Places, Creating
<1>6. \A t \in Thread : t \in live' /\ status'[t] = "Blocked" =>
          t \in Asleep' \/ \E u \in Thread : Creating(u)' /\ child'[u] = t
  <2> SUFFICES ASSUME NEW t \in Thread, t \in live', status'[t] = "Blocked", t \notin Asleep'
               PROVE  \E u \in Thread : Creating(u)' /\ child'[u] = t
    BY Zenon
  <2>1. t \notin Asleep /\ status[t] = "Blocked" /\ t \in live
    BY Zenon
  <2> QED
    BY <2>1, Zenon DEF Places, Creating
<1> QED
  BY <1>1, <1>2, <1>3, <1>4, <1>5, <1>6, Zenon DEF Places

LEMMA LaterType ==
    ASSUME NEW n \in -MaxWait..MaxSleep
    PROVE  Later(n) \in -MaxWait..MaxSleep
BY TimerAssumption DEF Later

LEMMA TickInv ==
    ASSUME IInv, Tick
    PROVE  IInv'
<1> DEFINE s == Aged(sleepers)
           n == Due(s)
           woken == [i \in 1..n |-> s[i].thread]
           st == [t \in Everyone |-> IF t \in Range(woken) THEN "Ready" ELSE status[t]]
           q == ready \o woken
<1>1. /\ SchedOK /\ LocalType /\ SleepOK /\ Places /\ AllOK
  BY Zenon DEF IInv
<1>2. sleepers' = SubSeq(s, n + 1, Len(s))
  BY Zenon DEF Tick
<1>3. /\ woken \in Seq(Thread) /\ IsInjective(woken) /\ SleepOK'
      /\ Asleep' \subseteq Asleep /\ Range(woken) = Asleep \ Asleep'
  <2> HIDE DEF n, woken
  <2>1. n = Due(s) /\ woken = [i \in 1..n |-> s[i].thread]
    BY Zenon DEF n, woken
  <2>2. SleepOK'
    BY <1>1, <1>2, <2>1, TickSleepers, Zenon
  <2> QED
    BY <1>1, <1>2, <2>1, <2>2, TickWakes, Zenon
<1>4. YieldFrom(st, q, priority) \/ (cur' = cur /\ status' = st /\ ready' = q)
  <2>1. \A t : t \in Range(woken) <=> \E i \in 1..n : woken[i] = t
    BY Zenon DEF Range
  <2>2. st = [t \in Everyone |-> IF \E i \in 1..n : woken[i] = t THEN "Ready" ELSE status[t]]
    BY <2>1, Zenon
  <2> HIDE DEF n
  <2> QED
    BY <2>2, ZenonT(40) DEF Tick, n
<1>5. slice' \in 0..(TIME_SLICE - 1) /\ halted' \in BOOLEAN
  <2>1. slice' = 0 \/ (slice + 1 < TIME_SLICE /\ slice' = slice + 1)
    BY <1>1, TimerAssumption DEF Tick, SliceOver, LocalType
  <2>2. halted' \in BOOLEAN
    BY Zenon DEF Tick
  <2> QED
    BY <1>1, <2>1, <2>2, TimerAssumption DEF LocalType
<1>6. /\ left' = [t \in Thread |-> IF pc[t] = "sleep" THEN Later(left[t]) ELSE left[t]]
      /\ UNCHANGED <<create, pc>>
  BY Zenon DEF Tick
<1> HIDE DEF n, s, woken, st, q
<1>7. LocalType'
  <2>1. left' \in [Thread -> -MaxWait..MaxSleep]
    BY <1>1, <1>6, LaterType, Zenon DEF LocalType
  <2> QED
    BY <1>1, <1>5, <1>6, <2>1, Zenon DEF LocalType, create
<1>8. /\ SchedOK'
      /\ \A t \in Thread : status'[t] = "Blocked"
                              <=> status[t] = "Blocked" /\ t \notin Range(woken)
  <2>1. \A t \in Range(woken) : status[t] = "Blocked"
    BY <1>1, <1>3, Zenon DEF Places
  <2>2. /\ st = [t \in Everyone |-> IF t \in Range(woken) THEN "Ready" ELSE status[t]]
        /\ q = ready \o woken
    BY Zenon DEF st, q
  <2> QED
    BY <1>1, <1>3, <1>4, <2>1, <2>2, WakeExact, Zenon
<1>9. Places'
  <2>1. live \subseteq Thread /\ child \in [Thread -> Thread] /\ UNCHANGED <<pc, child, live>>
    BY <1>1, <1>6, Zenon DEF LocalType, create
  <2>2. \A t \in Thread : status'[t] = "Blocked"
                              <=> status[t] = "Blocked" /\ t \notin Asleep \ Asleep'
    BY <1>3, <1>8, Zenon
  <2> QED
    BY <1>1, <1>3, <2>1, <2>2, PlacesKept, Zenon
<1>10. AllOK'
  BY <1>1, <1>6, AllKept, Zenon
<1> QED
  BY <1>3, <1>7, <1>8, <1>9, <1>10, Zenon DEF IInv

-----------------------------------------------------------------------------
(* The threads                                                             *)

(* A step that keeps who is Blocked, the sleepers and what threads do.     *)
LEMMA SwitchInv ==
    ASSUME IInv, SchedOK', UNCHANGED <<create, sleepers, pc, left>>,
           \A t \in Thread : status'[t] = "Blocked" <=> status[t] = "Blocked",
           slice' = 0, halted' \in BOOLEAN
    PROVE  IInv'
<1>1. /\ SchedOK /\ LocalType /\ SleepOK /\ Places /\ AllOK
  BY Zenon DEF IInv
<1>2. LocalType'
  BY <1>1, TimerAssumption DEF LocalType, create
<1>3. Asleep' = Asleep /\ SleepOK'
  BY <1>1, Zenon DEF Asleep, SleepOK, Distinct, Sorted
<1>4. Places'
  <2>1. live \subseteq Thread /\ child \in [Thread -> Thread] /\ UNCHANGED <<pc, child, live>>
    BY <1>1, Zenon DEF LocalType, create
  <2>2. /\ Asleep' \subseteq Asleep
        /\ \A t \in Thread : status'[t] = "Blocked"
                              <=> status[t] = "Blocked" /\ t \notin Asleep \ Asleep'
    BY <1>3, Zenon
  <2> QED
    BY <1>1, <2>1, <2>2, PlacesKept, Zenon
<1>5. AllOK'
  BY <1>1, AllKept, Zenon
<1> QED
  BY <1>2, <1>3, <1>4, <1>5, Zenon DEF IInv

LEMMA YieldInv ==
    ASSUME IInv, NEW t \in Thread, Yield(t)
    PROVE  IInv'
<1>1. /\ SchedOK /\ halted \in BOOLEAN
  BY Zenon DEF IInv, LocalType
<1>2. /\ YieldFrom(status, ready, priority) /\ slice' = 0 /\ halted' = halted
      /\ UNCHANGED <<create, sleepers, pc, left>>
  BY Zenon DEF Yield
<1>3. /\ status \in [Everyone -> Statuses] /\ ready \in Seq(Thread) /\ cur \in Everyone
      /\ IsInjective(ready)
      /\ \A u \in Everyone : status[u] = "Running" <=> u = cur
      /\ \A u \in Thread : status[u] = "Ready" <=> u \in Range(ready)
  BY <1>1, Zenon DEF SchedOK, SchedTypeOK, ReadyListExact, Statuses
<1>4. SchedOK' /\ \A u \in Thread : status'[u] = "Blocked" <=> status[u] = "Blocked"
  BY <1>2, <1>3, YieldExact, Zenon
<1> QED
  BY <1>1, <1>2, <1>4, SwitchInv, Zenon

LEMMA IdleLoopInv ==
    ASSUME IInv, IdleLoop
    PROVE  IInv'
<1>1. SchedOK
  BY Zenon DEF IInv
<1>2. /\ cur = Idle /\ Block /\ slice' = 0 /\ halted' \in BOOLEAN
      /\ UNCHANGED <<create, sleepers, pc, left>>
  BY Zenon DEF IdleLoop
<1>3. SchedOK' /\ \A u \in Thread : status'[u] = "Blocked" <=> status[u] = "Blocked" \/ u = cur
  BY <1>1, <1>2, BlockExact, Zenon
<1>4. \A u \in Thread : status'[u] = "Blocked" <=> status[u] = "Blocked"
  BY <1>2, <1>3, IdleAssumption, Zenon
<1> QED
  BY <1>2, <1>3, <1>4, SwitchInv, Zenon

LEMMA SleepCallInv ==
    ASSUME IInv, NEW t \in Thread, NEW n \in 1..MaxSleep, SleepCall(t, n)
    PROVE  IInv'
<1>1. /\ SchedOK /\ LocalType /\ SleepOK /\ Places /\ AllOK
  BY Zenon DEF IInv
<1>2. /\ cur = t /\ pc[t] = "run"
      /\ pc' = [pc EXCEPT ![t] = "sleep"] /\ left' = [left EXCEPT ![t] = n]
      /\ UNCHANGED <<cur, status, ready, create, sleepers, slice, halted>>
  BY Zenon DEF SleepCall
<1>3. n \in -MaxWait..MaxSleep
  BY TimerAssumption
<1>4. LocalType'
  BY <1>1, <1>2, <1>3, Zenon DEF LocalType, create
<1>5. SchedOK'
  BY <1>1, <1>2, Zenon DEF SchedOK, SchedTypeOK, ReadyListExact
<1>6. Asleep' = Asleep /\ SleepOK'
  BY <1>1, <1>2, Zenon DEF Asleep, SleepOK, Distinct, Sorted
<1>7. \A u \in Thread : /\ Creating(u)' <=> Creating(u)
                        /\ pc'[u] = "push" <=> pc[u] = "push"
                        /\ pc'[u] = pc[u] \/ u = t
  BY <1>1, <1>2, Zenon DEF Creating, LocalType
<1>8. Places'
  <2>1. t \in live /\ status[t] # "Blocked"
    BY <1>2, CurrentIsLive, Zenon
  <2>2. \A u \in Thread : pc'[u] # "run" => u \in live' /\ status'[u] # "Blocked"
    BY <1>1, <1>2, <1>7, <2>1, ZenonT(40) DEF Places, create
  <2> QED
    BY <1>1, <1>2, <1>6, <1>7, <2>2, Zenon DEF Places, create
<1>9. AllOK'
  BY <1>1, <1>2, <1>7, Zenon DEF AllOK, AllExact, AllType, Listed, create
<1> QED
  BY <1>4, <1>5, <1>6, <1>8, <1>9, Zenon DEF IInv

LEMMA SleepBlockInv ==
    ASSUME IInv, NEW t \in Thread, SleepBlock(t)
    PROVE  IInv'
<1>1. /\ SchedOK /\ LocalType /\ SleepOK /\ Places /\ AllOK
  BY Zenon DEF IInv
<1>2. /\ cur = t /\ pc[t] = "sleep" /\ Block
      /\ sleepers' = InsertAt(sleepers, Place(left[t]), [thread |-> t, left |-> left[t]])
      /\ pc' = [pc EXCEPT ![t] = "run"] /\ left' = [left EXCEPT ![t] = 0]
      /\ slice' = 0 /\ UNCHANGED <<create, halted>>
  BY Zenon DEF SleepBlock
<1>3. t \in live /\ t \notin Asleep /\ status[t] = "Running"
  BY <1>2, CurrentIsLive, Zenon
<1>4. /\ SchedOK'
      /\ \A u \in Thread : status'[u] = "Blocked" <=> status[u] = "Blocked" \/ u = t
  BY <1>1, <1>2, BlockExact, Zenon
<1>5. SleepOK' /\ Asleep' = Asleep \cup {t}
  <2>1. left[t] \in -MaxWait..MaxSleep
    BY <1>1, Zenon DEF LocalType
  <2> QED
    BY <1>1, <1>2, <1>3, <2>1, InsertSleeper, Zenon
<1>6. LocalType'
  <2>1. 0 \in -MaxWait..MaxSleep
    BY TimerAssumption
  <2> QED
    BY <1>1, <1>2, <2>1, TimerAssumption DEF LocalType, create
<1>7. \A u \in Thread : /\ Creating(u)' <=> Creating(u)
                        /\ pc'[u] = "push" <=> pc[u] = "push"
                        /\ pc'[u] = pc[u] \/ u = t
                        /\ pc'[t] = "run"
  BY <1>1, <1>2, Zenon DEF Creating, LocalType
<1>8. UNCHANGED <<live, all, child, n0, torn>>
  BY <1>2, Zenon DEF create
<1>9. Places'
  <2>1. Asleep \subseteq Thread
    BY <1>1, SleepersAsleep, Zenon
  <2>2. \A u \in Thread : pc'[u] # "run" => u \in live' /\ status'[u] # "Blocked"
    BY <1>1, <1>4, <1>7, <1>8, Zenon DEF Places
  <2>3. \A u \in Asleep' : u \in live' /\ status'[u] = "Blocked"
    BY <1>1, <1>3, <1>4, <1>5, <1>8, <2>1, Zenon DEF Places
  <2>4. \A u \in Thread : Creating(u)' => /\ child'[u] \in live' /\ child'[u] \notin Asleep'
                                          /\ status'[child'[u]] = "Blocked"
    <3> SUFFICES ASSUME NEW u \in Thread, Creating(u)'
                 PROVE  /\ child'[u] \in live' /\ child'[u] \notin Asleep'
                        /\ status'[child'[u]] = "Blocked"
      BY Zenon
    <3>1. /\ child[u] \in Thread /\ child[u] \in live /\ child[u] \notin Asleep
          /\ status[child[u]] = "Blocked"
      BY <1>1, <1>7, Zenon DEF Places, LocalType
    <3> QED
      BY <1>3, <1>4, <1>5, <1>8, <3>1, Zenon
  <2> QED
    BY <1>1, <1>4, <1>5, <1>7, <1>8, <2>2, <2>3, <2>4, Zenon DEF Places
<1>10. AllOK'
  BY <1>1, <1>7, <1>8, Zenon DEF AllOK, AllExact, AllType, Listed
<1> QED
  BY <1>4, <1>5, <1>6, <1>9, <1>10, Zenon DEF IInv

(* all_list().push(c), with the len that it read still right.              *)
LEMMA PushLists ==
    ASSUME NEW a, AllType(a), NEW c \in Thread, NEW b, b = Pushed(a, a.len, c),
           IsInjective(SubSeq(a.buf, 1, a.len)), c \notin Range(SubSeq(a.buf, 1, a.len))
    PROVE  /\ IsInjective(SubSeq(b.buf, 1, b.len))
           /\ Range(SubSeq(b.buf, 1, b.len)) = Range(SubSeq(a.buf, 1, a.len)) \cup {c}
<1> DEFINE p == SubSeq(a.buf, 1, a.len)
<1>1. a.len \in Nat /\ a.len <= Len(a.buf) /\ a.buf \in Seq(Thread)
  BY Zenon DEF AllType
<1>2. p \in Seq(Thread)
  BY <1>1
<1>3. SubSeq(b.buf, 1, b.len) = Append(p, c)
  BY <1>1, PushedIs, Zenon DEF PushedOf
<1> HIDE DEF p
<1>4. IsInjective(p) /\ c \notin Range(p)
  BY Zenon DEF p
<1>5. IsInjective(Append(p, c)) /\ Range(Append(p, c)) = Range(p) \cup {c}
  BY <1>2, <1>4, AppendQueue
<1> QED
  BY <1>3, <1>5, Zenon DEF p

LEMMA CreateBeginInv ==
    ASSUME IInv, NEW t \in Thread, NEW c \in Thread, CreateBegin(t, c)
    PROVE  IInv'
<1>1. /\ SchedOK /\ LocalType /\ SleepOK /\ Places /\ AllOK
  BY Zenon DEF IInv
<1>2. /\ cur = t /\ pc[t] = "run" /\ c \notin live /\ all.len < MaxList /\ ~torn
      /\ live' = live \cup {c} /\ child' = [child EXCEPT ![t] = c]
      /\ UNCHANGED <<cur, status, ready, torn, sleepers, left, slice, halted>>
  BY Zenon DEF CreateBegin
<1>3. \/ /\ n0' = [n0 EXCEPT ![t] = all.len] /\ pc' = [pc EXCEPT ![t] = "push"]
         /\ all' = all
      \/ /\ all' = Pushed(all, all.len, c) /\ pc' = [pc EXCEPT ![t] = "unblock"]
         /\ n0' = n0
  BY Zenon DEF CreateBegin
<1>4. t \in live /\ status[t] # "Blocked" /\ status[c] = "Blocked"
  BY <1>1, <1>2, CurrentIsLive, Zenon DEF Places
<1>5. SchedOK'
  BY <1>1, <1>2, Zenon DEF SchedOK, SchedTypeOK, ReadyListExact
<1>6. Asleep' = Asleep /\ SleepOK' /\ Asleep \subseteq Thread
  BY <1>1, <1>2, SleepersAsleep, Zenon DEF Asleep, SleepOK, Distinct, Sorted
<1>7. all.len \in Nat /\ all.len <= Len(all.buf)
  BY <1>1, Zenon DEF AllOK, AllType
<1>8. LocalType'
  <2>1. all.len \in 0..MaxList
    BY <1>2, <1>7, TimerAssumption
  <2>2. n0' \in [Thread -> 0..MaxList] /\ pc' \in [Thread -> {"run", "sleep", "push", "unblock"}]
    BY <1>1, <1>3, <2>1, Zenon DEF LocalType
  <2> QED
    BY <1>1, <1>2, <2>2, Zenon DEF LocalType
<1>9. /\ ~Creating(t) /\ Creating(t)' /\ child'[t] = c
      /\ \A u \in Thread : u # t => pc'[u] = pc[u] /\ child'[u] = child[u] /\ n0'[u] = n0[u]
      /\ \A u \in Thread : u # t => (Creating(u)' <=> Creating(u))
  BY <1>1, <1>2, <1>3, Zenon DEF LocalType, Creating
<1>10. \A u \in Thread : Creating(u) => u # t /\ child[u] \in live /\ child[u] # c
  BY <1>1, <1>2, <1>9 DEF Places
<1>11. Places'
  <2>1. \A u \in Thread : pc'[u] # "run" => u \in live' /\ status'[u] # "Blocked"
    BY <1>1, <1>2, <1>4, <1>9, Zenon DEF Places
  <2>2. \A u \in Thread : u \notin live' => status'[u] = "Blocked"
    BY <1>1, <1>2, Zenon DEF Places
  <2>3. \A u \in Asleep' : u \in live' /\ status'[u] = "Blocked"
    BY <1>1, <1>2, <1>6, Zenon DEF Places
  <2>4. \A u \in Thread : Creating(u)' => /\ child'[u] \in live' /\ child'[u] \notin Asleep'
                                          /\ status'[child'[u]] = "Blocked"
    <3> SUFFICES ASSUME NEW u \in Thread, Creating(u)'
                 PROVE  /\ child'[u] \in live' /\ child'[u] \notin Asleep'
                        /\ status'[child'[u]] = "Blocked"
      BY Zenon
    <3>1. status' = status /\ live' = live \cup {c} /\ Asleep' = Asleep
      BY <1>2, <1>6
    <3>2. c \notin Asleep
      BY <1>1, <1>2, Zenon DEF Places
    <3>3. CASE u = t
      <4>1. child'[u] = c
        BY <1>9, <3>3, Zenon
      <4> QED
        BY <1>4, <3>1, <3>2, <4>1
    <3>4. CASE u # t
      <4>1. /\ child'[u] = child[u] /\ child[u] \in live /\ child[u] \notin Asleep
            /\ status[child[u]] = "Blocked"
        BY <1>1, <1>9, <3>4, Zenon DEF Places
      <4> QED
        BY <3>1, <4>1
    <3> QED
      BY <3>3, <3>4, Zenon
  <2>5. \A u, v \in Thread : Creating(u)' /\ Creating(v)' /\ child'[u] = child'[v] => u = v
    BY <1>1, <1>9, <1>10 DEF Places
  <2>6. \A u \in Thread : u \in live' /\ status'[u] = "Blocked" =>
            u \in Asleep' \/ \E v \in Thread : Creating(v)' /\ child'[v] = u
    <3> SUFFICES ASSUME NEW u \in Thread, u \in live', status'[u] = "Blocked",
                        u \notin Asleep', u # c
                 PROVE  \E v \in Thread : Creating(v)' /\ child'[v] = u
      BY <1>9, Zenon
    <3>1. PICK v \in Thread : Creating(v) /\ child[v] = u
      BY <1>1, <1>2, <1>6, Zenon DEF Places
    <3> QED
      BY <1>9, <1>10, <3>1, Zenon
  <2> QED
    BY <2>1, <2>2, <2>3, <2>4, <2>5, <2>6, Zenon DEF Places
<1>12. AllOK'
  <2>1. /\ AllType(all) /\ IsInjective(SubSeq(all.buf, 1, all.len))
        /\ \A u \in Thread : u \in Listed <=>
              u \in live /\ ~\E v \in Thread : pc[v] = "push" /\ child[v] = u
        /\ \A u \in Thread : pc[u] = "push" => n0[u] <= Len(all.buf)
    BY <1>1, <1>2, Zenon DEF AllOK, AllExact
  <2>2. \A u \in Thread : pc[u] = "push" => u # t /\ child[u] # c
    BY <1>10, Zenon DEF Creating
  <2>3. c \notin Listed
    BY <1>2, <2>1, Zenon
  <2>4. CASE /\ n0' = [n0 EXCEPT ![t] = all.len] /\ pc' = [pc EXCEPT ![t] = "push"]
             /\ all' = all
    <3>1. Listed' = Listed /\ AllType(all') /\ IsInjective(SubSeq(all'.buf, 1, all'.len))
      BY <2>1, <2>4, Zenon DEF Listed
    <3>2. ASSUME NEW u \in Thread
          PROVE  u \in Listed' <=>
                     u \in live' /\ ~\E v \in Thread : pc'[v] = "push" /\ child'[v] = u
      <4>1. CASE u = c
        BY <1>1, <1>9, <2>3, <2>4, <3>1, <4>1 DEF LocalType
      <4>2. CASE u # c
        <5>1. (\E v \in Thread : pc'[v] = "push" /\ child'[v] = u)
                  <=> \E v \in Thread : pc[v] = "push" /\ child[v] = u
          BY <1>2, <1>9, <4>2, Zenon
        <5> QED
          BY <1>2, <2>1, <3>1, <4>2, <5>1, Zenon
      <4> QED
        BY <4>1, <4>2, Zenon
    <3>3. \A u \in Thread : pc'[u] = "push" => n0'[u] <= Len(all'.buf)
      BY <1>1, <1>7, <1>9, <2>1, <2>4 DEF LocalType
    <3> QED
      BY <3>1, <3>2, <3>3, Zenon DEF AllOK, AllExact
  <2>5. CASE /\ all' = Pushed(all, all.len, c) /\ pc' = [pc EXCEPT ![t] = "unblock"]
             /\ n0' = n0
    <3>1. AllType(all') /\ Len(all'.buf) >= Len(all.buf)
      BY <1>7, <2>1, <2>5, PushedIs, Zenon DEF PushedOf
    <3>2. IsInjective(SubSeq(all'.buf, 1, all'.len)) /\ Listed' = Listed \cup {c}
      BY <2>1, <2>3, <2>5, PushLists DEF Listed
    <3>3. \A u \in Thread : pc'[u] = "push" <=> pc[u] = "push"
      BY <1>1, <1>2, <2>5, Zenon DEF LocalType
    <3>4. ASSUME NEW u \in Thread
          PROVE  u \in Listed' <=>
                     u \in live' /\ ~\E v \in Thread : pc'[v] = "push" /\ child'[v] = u
      <4>1. (\E v \in Thread : pc'[v] = "push" /\ child'[v] = u)
                <=> \E v \in Thread : pc[v] = "push" /\ child[v] = u
        BY <1>9, <2>2, <3>3, Zenon
      <4> QED
        BY <1>2, <2>1, <2>2, <3>2, <4>1, Zenon
    <3>5. \A u \in Thread : pc'[u] = "push" => n0'[u] <= Len(all'.buf)
      <4> SUFFICES ASSUME NEW u \in Thread, pc'[u] = "push"
                   PROVE  n0[u] <= Len(all'.buf)
        BY <2>5, Zenon
      <4>1. /\ n0[u] \in Nat /\ n0[u] <= Len(all.buf)
            /\ Len(all.buf) \in Nat /\ Len(all'.buf) \in Nat
        BY <1>1, <2>1, <3>1, <3>3, LenProperties, TimerAssumption DEF LocalType, AllType
      <4> QED
        BY <3>1, <4>1
    <3> QED
      BY <3>1, <3>2, <3>4, <3>5, Zenon DEF AllOK, AllExact
  <2> QED
    BY <1>3, <2>4, <2>5, Zenon
<1> QED
  BY <1>5, <1>6, <1>8, <1>11, <1>12, Zenon DEF IInv

LEMMA CreatePushInv ==
    ASSUME IInv, NEW t \in Thread, CreatePush(t)
    PROVE  IInv'
<1> DEFINE c == child[t]
<1>1. /\ SchedOK /\ LocalType /\ SleepOK /\ Places /\ AllOK
  BY Zenon DEF IInv
<1>2. /\ cur = t /\ pc[t] = "push" /\ all' = Pushed(all, n0[t], c)
      /\ torn' = (torn \/ n0[t] # all.len)
      /\ n0' = [n0 EXCEPT ![t] = 0] /\ pc' = [pc EXCEPT ![t] = "unblock"]
      /\ UNCHANGED <<cur, status, ready, live, child, sleepers, left, slice, halted>>
  BY Zenon DEF CreatePush
<1>3. /\ c \in Thread /\ n0[t] \in Nat /\ n0[t] <= Len(all.buf)
  BY <1>1, <1>2, TimerAssumption DEF LocalType, AllOK
<1>4. SchedOK'
  BY <1>1, <1>2, Zenon DEF SchedOK, SchedTypeOK, ReadyListExact
<1>5. Asleep' = Asleep /\ SleepOK'
  BY <1>1, <1>2, Zenon DEF Asleep, SleepOK, Distinct, Sorted
<1>6. LocalType'
  <2>1. 0 \in 0..MaxList
    BY TimerAssumption
  <2> QED
    BY <1>1, <1>2, <2>1, Zenon DEF LocalType
<1>7. \A u \in Thread : /\ Creating(u)' <=> Creating(u)
                        /\ pc'[u] = "run" <=> pc[u] = "run"
                        /\ pc'[u] = "push" <=> pc[u] = "push" /\ u # t
                        /\ u # t => n0'[u] = n0[u]
  BY <1>1, <1>2, Zenon DEF Creating, LocalType
<1>8. Places'
  BY <1>1, <1>2, <1>5, <1>7, ZenonT(40) DEF Places
<1>9. AllType(all') /\ Len(all'.buf) >= Len(all.buf) /\ AllType(all)
  BY <1>1, <1>2, <1>3, PushedIs, Zenon DEF PushedOf, AllOK
<1>10. AllExact'
  <2> SUFFICES ASSUME ~torn'
               PROVE  /\ IsInjective(SubSeq(all'.buf, 1, all'.len))
                      /\ \A u \in Thread : u \in Listed' <=>
                            u \in live' /\ ~\E v \in Thread : pc'[v] = "push" /\ child'[v] = u
    BY Zenon DEF AllExact
  <2>1. ~torn /\ n0[t] = all.len
    BY <1>2, ZenonT(40)
  <2>2. /\ IsInjective(SubSeq(all.buf, 1, all.len))
        /\ \A u \in Thread : u \in Listed <=>
              u \in live /\ ~\E v \in Thread : pc[v] = "push" /\ child[v] = u
    BY <1>1, <2>1, Zenon DEF AllOK, AllExact
  <2>3. c \notin Listed /\ c \in live
    BY <1>1, <1>2, <1>3, <2>2, Zenon DEF Places, Creating
  <2>4. IsInjective(SubSeq(all'.buf, 1, all'.len)) /\ Listed' = Listed \cup {c}
    BY <1>2, <1>3, <1>9, <2>1, <2>2, <2>3, PushLists DEF Listed
  <2>5. \A v \in Thread : pc[v] = "push" /\ child[v] = c => v = t
    BY <1>1, <1>2, Zenon DEF Places, Creating
  <2> HIDE DEF c
  <2>6. ASSUME NEW u \in Thread
        PROVE  u \in Listed' <=>
                   u \in live' /\ ~\E v \in Thread : pc'[v] = "push" /\ child'[v] = u
    <3>1. CASE u = c
      BY <1>2, <1>7, <2>3, <2>4, <2>5, <3>1, Zenon
    <3>2. CASE u # c
      <4>1. (\E v \in Thread : pc'[v] = "push" /\ child'[v] = u)
                <=> \E v \in Thread : pc[v] = "push" /\ child[v] = u
        BY <1>2, <1>7, <3>2, Zenon DEF c
      <4> QED
        BY <1>2, <2>2, <2>4, <3>2, <4>1, Zenon
    <3> QED
      BY <3>1, <3>2, Zenon
  <2> QED
    BY <2>4, <2>6, Zenon
<1>11. \A u \in Thread : pc'[u] = "push" => n0'[u] <= Len(all'.buf)
  <2> SUFFICES ASSUME NEW u \in Thread, pc'[u] = "push"
               PROVE  n0'[u] <= Len(all'.buf)
    BY Zenon
  <2>1. /\ n0[u] \in Nat /\ n0[u] <= Len(all.buf) /\ n0'[u] = n0[u]
        /\ Len(all.buf) \in Nat /\ Len(all'.buf) \in Nat
    BY <1>1, <1>7, <1>9, LenProperties, TimerAssumption DEF LocalType, AllOK, AllType
  <2> QED
    BY <1>9, <2>1
<1> QED
  BY <1>4, <1>5, <1>6, <1>8, <1>9, <1>10, <1>11, Zenon DEF IInv, AllOK

LEMMA CreateUnblockInv ==
    ASSUME IInv, NEW t \in Thread, CreateUnblock(t)
    PROVE  IInv'
<1> DEFINE c == child[t]
<1>1. /\ SchedOK /\ LocalType /\ SleepOK /\ Places /\ AllOK
  BY Zenon DEF IInv
<1>2. /\ cur = t /\ pc[t] = "unblock" /\ Unblock(c)
      /\ child' = [child EXCEPT ![t] = t] /\ pc' = [pc EXCEPT ![t] = "run"]
      /\ UNCHANGED <<live, all, n0, torn, sleepers, left, slice, halted>>
  BY Zenon DEF CreateUnblock
<1>3. c \in Thread /\ status[c] = "Blocked" /\ c \in live /\ c \notin Asleep
  BY <1>1, <1>2, Zenon DEF Places, Creating, LocalType
<1>4. SchedOK' /\ \A u \in Thread : status'[u] = "Blocked" <=> status[u] = "Blocked" /\ u # c
  BY <1>1, <1>2, <1>3, UnblockExact, Zenon
<1>5. Asleep' = Asleep /\ SleepOK' /\ Asleep \subseteq Thread
  BY <1>1, <1>2, SleepersAsleep, Zenon DEF Asleep, SleepOK, Distinct, Sorted
<1>6. LocalType'
  BY <1>1, <1>2, Zenon DEF LocalType
<1>7. /\ \A u \in Thread : /\ Creating(u)' <=> Creating(u) /\ u # t
                           /\ pc'[u] # "run" => pc[u] # "run"
                           /\ pc'[u] = "push" <=> pc[u] = "push"
                           /\ u # t => child'[u] = child[u]
      /\ pc[t] # "push"
  BY <1>1, <1>2, Zenon DEF Creating, LocalType
<1>8. \A u \in Thread : Creating(u) /\ child[u] = c => u = t
  BY <1>1, <1>2, Zenon DEF Places, Creating
<1> HIDE DEF c
<1>9. Places'
  <2>1. \A u \in Thread : pc'[u] # "run" => u \in live' /\ status'[u] # "Blocked"
    BY <1>1, <1>2, <1>4, <1>7, Zenon DEF Places
  <2>2. \A u \in Thread : u \notin live' => status'[u] = "Blocked"
    BY <1>1, <1>2, <1>3, <1>4, Zenon DEF Places
  <2>3. \A u \in Asleep' : u \in live' /\ status'[u] = "Blocked"
    BY <1>1, <1>2, <1>3, <1>4, <1>5, Zenon DEF Places
  <2>4. \A u \in Thread : Creating(u)' => /\ child'[u] \in live' /\ child'[u] \notin Asleep'
                                          /\ status'[child'[u]] = "Blocked"
    <3> SUFFICES ASSUME NEW u \in Thread, Creating(u)'
                 PROVE  /\ child'[u] \in live' /\ child'[u] \notin Asleep'
                        /\ status'[child'[u]] = "Blocked"
      BY Zenon
    <3>1. /\ child[u] \in Thread /\ child[u] \in live /\ child[u] \notin Asleep
          /\ status[child[u]] = "Blocked" /\ child[u] # c /\ child'[u] = child[u]
      BY <1>1, <1>7, <1>8, Zenon DEF Places, LocalType
    <3>2. live' = live
      BY <1>2, Zenon
    <3>3. status'[child[u]] = "Blocked"
      BY <1>4, <3>1, Zenon
    <3> QED
      BY <1>5, <3>1, <3>2, <3>3, Zenon
  <2>5. \A u, v \in Thread : Creating(u)' /\ Creating(v)' /\ child'[u] = child'[v] => u = v
    BY <1>1, <1>7, Zenon DEF Places
  <2>6. \A u \in Thread : u \in live' /\ status'[u] = "Blocked" =>
            u \in Asleep' \/ \E v \in Thread : Creating(v)' /\ child'[v] = u
    <3> SUFFICES ASSUME NEW u \in Thread, u \in live', status'[u] = "Blocked", u \notin Asleep'
                 PROVE  \E v \in Thread : Creating(v)' /\ child'[v] = u
      BY Zenon
    <3>1. u # c /\ status[u] = "Blocked" /\ u \in live /\ u \notin Asleep
      BY <1>2, <1>4, <1>5, Zenon
    <3>2. PICK v \in Thread : Creating(v) /\ child[v] = u
      BY <1>1, <3>1, Zenon DEF Places
    <3>3. v # t
      BY <3>1, <3>2, Zenon DEF c
    <3> QED
      BY <1>7, <3>2, <3>3, Zenon
  <2> QED
    BY <2>1, <2>2, <2>3, <2>4, <2>5, <2>6, Zenon DEF Places
<1>10. AllOK'
  <2>1. \A u \in Thread : (\E v \in Thread : pc'[v] = "push" /\ child'[v] = u)
                <=> \E v \in Thread : pc[v] = "push" /\ child[v] = u
    BY <1>7, Zenon
  <2>2. AllExact'
    BY <1>1, <1>2, <2>1, Zenon DEF AllOK, AllExact, Listed
  <2> QED
    BY <1>1, <1>2, <1>7, <2>2, Zenon DEF AllOK
<1> QED
  BY <1>4, <1>5, <1>6, <1>9, <1>10, Zenon DEF IInv

LEMMA ExitInv ==
    ASSUME IInv, NEW t \in Thread, Exit(t)
    PROVE  IInv'
<1>1. /\ SchedOK /\ LocalType /\ SleepOK /\ Places /\ AllOK
  BY Zenon DEF IInv
<1>2. /\ cur = t /\ pc[t] = "run" /\ Block
      /\ all' = Retained(all, t) /\ live' = live \ {t} /\ slice' = 0
      /\ UNCHANGED <<child, n0, torn, sleepers, pc, left, halted>>
  BY Zenon DEF Exit
<1>3. t \notin Asleep /\ status[t] # "Blocked"
  BY <1>2, CurrentIsLive, Zenon
<1>4. /\ SchedOK'
      /\ \A u \in Thread : status'[u] = "Blocked" <=> status[u] = "Blocked" \/ u = t
  BY <1>1, <1>2, BlockExact, Zenon
<1>5. Asleep' = Asleep /\ SleepOK' /\ Asleep \subseteq Thread
  BY <1>1, <1>2, SleepersAsleep, Zenon DEF Asleep, SleepOK, Distinct, Sorted
<1>6. LocalType'
  BY <1>1, <1>2, TimerAssumption DEF LocalType
<1>7. \A u \in Thread : /\ Creating(u)' <=> Creating(u)
                        /\ Creating(u) => child[u] # t /\ child[u] \in Thread
  BY <1>1, <1>2, <1>3 DEF Creating, Places, LocalType
<1>8. Places'
  <2>1. \A u \in Thread : pc'[u] # "run" => u \in live' /\ status'[u] # "Blocked"
    BY <1>1, <1>2, <1>4, Zenon DEF Places
  <2>2. \A u \in Thread : u \notin live' => status'[u] = "Blocked"
    BY <1>1, <1>2, <1>4, Zenon DEF Places
  <2>3. \A u \in Asleep' : u \in live' /\ status'[u] = "Blocked"
    BY <1>1, <1>2, <1>3, <1>4, <1>5, ZenonT(40) DEF Places
  <2>4. \A u \in Thread : Creating(u)' => /\ child'[u] \in live' /\ child'[u] \notin Asleep'
                                          /\ status'[child'[u]] = "Blocked"
    BY <1>1, <1>2, <1>4, <1>5, <1>7, ZenonT(40) DEF Places
  <2>5. \A u, v \in Thread : Creating(u)' /\ Creating(v)' /\ child'[u] = child'[v] => u = v
    BY <1>1, <1>2, <1>7, Zenon DEF Places
  <2>6. \A u \in Thread : u \in live' /\ status'[u] = "Blocked" =>
            u \in Asleep' \/ \E v \in Thread : Creating(v)' /\ child'[v] = u
    BY <1>1, <1>2, <1>4, <1>5, <1>7, ZenonT(40) DEF Places
  <2> QED
    BY <2>1, <2>2, <2>3, <2>4, <2>5, <2>6, Zenon DEF Places
<1>9. AllOK'
  <2>1. RetainedOf(all, t, all')
    BY <1>1, <1>2, RetainedIs, Zenon DEF AllOK
  <2>2. AllType(all') /\ Len(all'.buf) = Len(all.buf) /\ Listed' = Listed \ {t}
    BY <2>1, Zenon DEF RetainedOf, Listed
  <2>3. AllExact'
    <3> SUFFICES ASSUME ~torn'
                 PROVE  /\ IsInjective(SubSeq(all'.buf, 1, all'.len))
                        /\ \A u \in Thread : u \in Listed' <=>
                              u \in live' /\ ~\E v \in Thread : pc'[v] = "push" /\ child'[v] = u
      BY Zenon DEF AllExact
    <3>1. /\ IsInjective(SubSeq(all.buf, 1, all.len))
          /\ \A u \in Thread : u \in Listed <=>
                u \in live /\ ~\E v \in Thread : pc[v] = "push" /\ child[v] = u
      BY <1>1, <1>2, Zenon DEF AllOK, AllExact
    <3>2. IsInjective(SubSeq(all'.buf, 1, all'.len))
      BY <2>1, <3>1, Zenon DEF RetainedOf
    <3> QED
      BY <1>2, <2>2, <3>1, <3>2, Zenon
  <2> QED
    BY <1>1, <1>2, <2>2, <2>3, Zenon DEF AllOK
<1> QED
  BY <1>4, <1>5, <1>6, <1>8, <1>9, Zenon DEF IInv

-----------------------------------------------------------------------------
(* The theorems                                                            *)

LEMMA InitInv ==
    ASSUME Init
    PROVE  IInv
<1>1. PICK t \in Thread : live = {t} /\ cur = t /\ all = [len |-> 1, buf |-> <<t>>]
  BY Zenon DEF Init
<1>2. /\ status = [u \in Everyone |-> IF u = cur THEN "Running" ELSE "Blocked"]
      /\ ready = <<>> /\ sleepers = <<>>
      /\ pc = [u \in Thread |-> "run"] /\ left = [u \in Thread |-> 0]
      /\ child = [u \in Thread |-> u] /\ n0 = [u \in Thread |-> 0]
      /\ torn = FALSE /\ slice = 0 /\ halted = FALSE
  BY Zenon DEF Init
<1>3. SchedOK
  <2>1. ready \in Seq(Thread) /\ IsInjective(ready) /\ Range(ready) = {}
    BY <1>2 DEF IsInjective, Range
  <2>2. SchedTypeOK
    BY <1>1, <1>2, <2>1, Zenon DEF SchedTypeOK, Everyone
  <2>3. ReadyListExact
    BY <1>1, <1>2, <2>1, Zenon DEF ReadyListExact, Everyone
  <2> QED
    BY <2>2, <2>3, Zenon DEF SchedOK
<1>4. LocalType
  <2>1. 0 \in -MaxWait..MaxSleep /\ 0 \in 0..MaxList /\ 0 \in 0..(TIME_SLICE - 1)
    BY TimerAssumption
  <2> QED
    BY <1>1, <1>2, <2>1, Zenon DEF LocalType
<1>5. SleepOK /\ Asleep = {}
  <2>1. sleepers \in Seq(Sleeper) /\ Len(sleepers) = 0
    BY <1>2
  <2>2. 1..Len(sleepers) = {}
    BY <2>1
  <2> QED
    BY <2>1, <2>2, Zenon DEF SleepOK, Distinct, Sorted, Asleep
<1>6. Places
  BY <1>1, <1>2, <1>5, Zenon DEF Places, Creating, Everyone
<1>7. AllOK
  <2>1. all.len = 1 /\ all.buf = <<t>> /\ Len(<<t>>) = 1 /\ <<t>> \in Seq(Thread)
    BY <1>1
  <2>2. AllType(all)
    BY <1>1, <2>1 DEF AllType
  <2>3. SubSeq(all.buf, 1, all.len) = <<t>>
    BY <2>1, SubSeqFull, Zenon
  <2>4. Listed = {t} /\ IsInjective(SubSeq(all.buf, 1, all.len))
    <3> DEFINE p == <<t>>
    <3>1. DOMAIN p = {1} /\ p[1] = t
      OBVIOUS
    <3> HIDE DEF p
    <3>2. Range(p) = {t} /\ IsInjective(p)
      BY <3>1, Zenon DEF Range, IsInjective
    <3> QED
      BY <2>3, <3>2, Zenon DEF Listed, p
  <2> QED
    BY <1>1, <1>2, <2>2, <2>4, Zenon DEF AllOK, AllExact
<1> QED
  BY <1>3, <1>4, <1>5, <1>6, <1>7, Zenon DEF IInv

LEMMA StepInv ==
    ASSUME IInv, [Next]_vars
    PROVE  IInv'
<1>1. CASE Tick
  BY <1>1, TickInv, Zenon
<1>2. CASE IdleLoop
  BY <1>2, IdleLoopInv, Zenon
<1>3. ASSUME NEW t \in Thread, ThreadStep(t)
      PROVE  IInv'
  BY <1>3, SleepCallInv, SleepBlockInv, YieldInv, ExitInv, CreateBeginInv, CreatePushInv,
     CreateUnblockInv, Zenon DEF ThreadStep
<1>4. CASE UNCHANGED vars
  <2>1. UNCHANGED <<cur, status, ready, live, all, child, n0, torn, sleepers, pc, left,
                    slice, halted>>
    BY <1>4, Zenon DEF vars, create
  <2>2. SchedOK' /\ LocalType'
    BY <2>1, Zenon DEF IInv, SchedOK, SchedTypeOK, ReadyListExact, LocalType
  <2>3. SleepOK' /\ Asleep' = Asleep
    BY <2>1, Zenon DEF IInv, SleepOK, Distinct, Sorted, Asleep
  <2>4. Places' /\ AllOK'
    BY <2>1, <2>3, ZenonT(40) DEF IInv, Places, Creating, AllOK, AllType, AllExact, Listed
  <2> QED
    BY <2>2, <2>3, <2>4, Zenon DEF IInv
<1> QED
  BY <1>1, <1>2, <1>3, <1>4, Zenon DEF Next

(* The invariant holds throughout, and with it the types: the ready list,  *)
(* the sleep list and ALL_LIST of thread/mod.rs and timer.rs keep their    *)
(* form whatever the threads and the timer do.                             *)
THEOREM Invariance == Spec => []IInv
<1>1. Init => IInv
  BY InitInv, Zenon
<1>2. IInv /\ [Next]_vars => IInv'
  BY StepInv, Zenon
<1> QED
  BY <1>1, <1>2, PTL DEF Spec

(* Types, for any threads and bounds.                                      *)
THEOREM Typing == Spec => []TypeOK
<1>1. IInv => TypeOK
  BY Zenon DEF IInv, SchedOK, LocalType, SleepOK, Sleeper, AllOK, AllType, TypeOK
<1> QED
  BY <1>1, Invariance, PTL

LEMMA PlacesTell ==
    ASSUME IInv
    PROVE  NoThreadLost
<1> DEFINE newborn == {child[t] : t \in {u \in live : pc[u] \in {"push", "unblock"}}}
<1>1. /\ SchedOK /\ LocalType /\ SleepOK /\ Places
  BY Zenon DEF IInv
<1>2. IsInjective(ready) /\ Range(ready) \subseteq Thread
  BY <1>1, LenProperties, ElementOfSeq DEF SchedOK, SchedTypeOK, ReadyListExact, Range
<1>3. IsInjective([i \in 1..Len(sleepers) |-> sleepers[i].thread])
  BY <1>1, Zenon DEF SleepOK, Distinct, IsInjective
<1>4. /\ cur \in Everyone /\ status[cur] = "Running"
      /\ \A t \in Thread : status[t] \in {"Running", "Ready", "Blocked"}
      /\ \A t \in Thread : status[t] = "Running" <=> t = cur
      /\ \A t \in Thread : status[t] = "Ready" <=> t \in Range(ready)
  BY <1>1, Zenon DEF SchedOK, SchedTypeOK, ReadyListExact, Everyone
<1>5. \A c : c \in newborn <=> \E t \in Thread : Creating(t) /\ child[t] = c
  BY <1>1 DEF Places, Creating, LocalType
<1>6. Asleep \subseteq Thread /\ newborn \subseteq Thread
  BY <1>1, SleepersAsleep, Zenon DEF LocalType
<1> HIDE DEF newborn
<1>7. \A t \in Asleep : status[t] = "Blocked" /\ t \in live /\ t \notin newborn
  <2> SUFFICES ASSUME NEW t \in Asleep PROVE status[t] = "Blocked" /\ t \in live /\ t \notin newborn
    BY Zenon
  <2>1. status[t] = "Blocked" /\ t \in live
    BY <1>1, Zenon DEF Places
  <2>2. \A u \in Thread : Creating(u) => child[u] # t
    BY <1>1 DEF Places
  <2> QED
    BY <1>5, <2>1, <2>2, Zenon
<1>8. \A t \in newborn : status[t] = "Blocked" /\ t \in live
  BY <1>1, <1>5 DEF Places
<1>9. /\ Range(ready) \cap Asleep = {} /\ newborn \cap (Range(ready) \cup Asleep) = {}
  BY <1>4, <1>6, <1>7, <1>8, Zenon
<1>10. cur \notin Range(ready) \cup Asleep \cup newborn
  BY <1>2, <1>4, <1>6, <1>7, <1>8, Zenon
<1>11. live = Range(ready) \cup Asleep \cup newborn \cup ({cur} \ {Idle})
  <2>1. ASSUME NEW t \in live
        PROVE  t \in Range(ready) \cup Asleep \cup newborn \cup ({cur} \ {Idle})
    <3>1. t \in Thread /\ t # Idle
      BY <1>1, IdleAssumption, Zenon DEF LocalType
    <3>2. status[t] = "Blocked" => t \in Asleep \/ t \in newborn
      BY <1>1, <1>5, <3>1, Zenon DEF Places
    <3> QED
      BY <1>4, <3>1, <3>2, Zenon
  <2>2. ASSUME NEW t \in Range(ready) \cup Asleep \cup newborn \cup ({cur} \ {Idle})
        PROVE  t \in live
    <3>1. CASE t \in Asleep \cup newborn
      BY <1>7, <1>8, <3>1, Zenon
    <3>2. CASE t \in Range(ready) \cup ({cur} \ {Idle})
      <4>1. t \in Thread
        BY <1>2, <1>4, <3>2, Zenon DEF Everyone
      <4>2. status[t] # "Blocked"
        BY <1>4, <3>2, <4>1, Zenon
      <4> QED
        BY <1>1, <4>1, <4>2, Zenon DEF Places
    <3> QED
      BY <2>2, <3>1, <3>2, Zenon
  <2> QED
    BY <2>1, <2>2, Zenon
<1> QED
  BY <1>2, <1>3, <1>9, <1>10, <1>11, Zenon DEF NoThreadLost, newborn

(* No thread is lost or in two places, whatever the number of threads, the *)
(* time slice and the sleeping times: each one that exists is running, in  *)
(* READY_LIST, in SLEEP_LIST or being created by thread::create.           *)
THEOREM NobodyLost == Spec => []NoThreadLost
BY Invariance, PlacesTell, PTL

LEMMA ListTells ==
    ASSUME IInv
    PROVE  AllListExact
<1> DEFINE coming == {child[t] : t \in {u \in live : pc[u] = "push"}}
<1> SUFFICES ASSUME ~torn
             PROVE  /\ IsInjective(SubSeq(all.buf, 1, all.len))
                    /\ Listed = live \ coming
  BY Zenon DEF AllListExact
<1>1. /\ LocalType /\ Places /\ AllType(all)
      /\ IsInjective(SubSeq(all.buf, 1, all.len))
      /\ \A t \in Thread : t \in Listed <=>
            t \in live /\ ~\E u \in Thread : pc[u] = "push" /\ child[u] = t
  BY Zenon DEF IInv, AllOK, AllExact
<1>2. \A c : c \in coming <=> \E u \in Thread : pc[u] = "push" /\ child[u] = c
  BY <1>1 DEF Places, LocalType
<1> HIDE DEF coming
<1>3. Listed \subseteq Thread
  <2> DEFINE p == SubSeq(all.buf, 1, all.len)
  <2>1. p \in Seq(Thread)
    BY <1>1 DEF AllType
  <2> HIDE DEF p
  <2>2. Range(p) \subseteq Thread
    BY <2>1, LenProperties, ElementOfSeq DEF Range
  <2> QED
    BY <2>2, Zenon DEF Listed, p
<1>4. live \subseteq Thread
  BY <1>1, Zenon DEF LocalType
<1> QED
  BY <1>1, <1>2, <1>3, <1>4, Zenon

(* As long as no push was interrupted at the wrong moment, ALL_LIST holds  *)
(* each thread between its push in create and its exit, once.              *)
THEOREM ListExact == Spec => []AllListExact
BY Invariance, ListTells, PTL

LEMMA TickWakesDue ==
    ASSUME IInv, Tick, NEW i \in 1..Len(sleepers)
    PROVE  sleepers[i].thread \in {sleepers'[j].thread : j \in 1..Len(sleepers')}
               <=> sleepers[i].left > 1
<1> DEFINE n == Due(Aged(sleepers))
           m == Len(sleepers)
<1>1. SleepOK /\ sleepers' = SubSeq(Aged(sleepers), n + 1, Len(Aged(sleepers)))
  BY Zenon DEF IInv, Tick
<1>2. m \in Nat /\ \A k \in 1..m : sleepers[k].left \in Int
  BY <1>1, SleepersAre, Zenon
<1> HIDE DEF n
<1>3. /\ n \in 0..m
      /\ \A k \in 1..n : sleepers[k].left <= 1
      /\ \A k \in (n + 1)..m : sleepers[k].left > 1
  BY <1>1, DueAre, Zenon DEF n
<1>4. /\ Len(sleepers') = m - n
      /\ \A j \in 1..(m - n) : sleepers'[j].thread = sleepers[n + j].thread
  BY <1>1, TickSleepers, Zenon DEF n
<1>5. \A k, l \in 1..m : sleepers[k].thread = sleepers[l].thread => k = l
  BY <1>1, Zenon DEF SleepOK, Distinct
<1> HIDE DEF m
<1>6. i \in 1..m
  BY Zenon DEF m
<1>7. ASSUME sleepers[i].left > 1
      PROVE  \E j \in 1..Len(sleepers') : sleepers'[j].thread = sleepers[i].thread
  <2>1. ~(i \in 1..n)
    BY <1>2, <1>3, <1>6, <1>7
  <2>2. i - n \in 1..(m - n) /\ n + (i - n) = i
    BY <1>2, <1>3, <1>6, <2>1
  <2> QED
    BY <1>4, <2>2, Zenon
<1>8. ASSUME NEW j \in 1..Len(sleepers'), sleepers'[j].thread = sleepers[i].thread
      PROVE  sleepers[i].left > 1
  <2>1. j \in 1..(m - n) /\ n + j \in 1..m /\ n + j \in (n + 1)..m
    BY <1>2, <1>3, <1>4
  <2>2. i = n + j
    BY <1>4, <1>5, <1>6, <1>8, <2>1, Zenon
  <2> QED
    BY <1>3, <2>1, <2>2, Zenon
<1> QED
  BY <1>7, <1>8, Zenon

(* Each timer interrupt wakes every sleeper that is due and none that is   *)
(* not: wake_sleeping_threads stops at the first that is not, and the list *)
(* is sorted.                                                              *)
THEOREM WakesWhenDue == Spec => WokenWhenDue
<1>1. IInv /\ [Next]_vars =>
          [Tick => \A i \in 1..Len(sleepers) :
                      sleepers[i].thread \in {sleepers'[j].thread : j \in 1..Len(sleepers')}
                         <=> sleepers[i].left > 1]_vars
  BY TickWakesDue, Zenon
<1> QED
  BY <1>1, Invariance, PTL DEF Spec, WokenWhenDue

=============================================================================
