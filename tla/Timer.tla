-------------------------------- MODULE Timer --------------------------------
(* The timer (devices/timer.rs) and what it drives: sleeping threads, time  *)
(* slices and the idle thread (thread/mod.rs), with the creation and exit   *)
(* of threads.                                                              *)
(*                                                                          *)
(* TICKS enters the code only through differences, so times are kept        *)
(* relative to it: left is wakeup_tick - TICKS.  A timer interrupt may come *)
(* wherever interrupts are on, which is between any two actions.            *)
EXTENDS SchedBase, FiniteSetsExt

CONSTANTS TIME_SLICE,
          MaxSleep,  \* the longest sleep that is asked for
          MaxWait,   \* overdue is counted up to this
          MaxList,   \* threads are created while ALL_LIST is whole and shorter than this
          Windows    \* "push": the timer may interrupt all_list().push
ASSUME TimerAssumption == /\ TIME_SLICE \in Nat \ {0} /\ MaxSleep \in Nat \ {0}
                          /\ MaxWait \in Nat /\ MaxList \in Nat

VARIABLES live,      \* the threads whose page is allocated
          all,       \* ALL_LIST without the idle thread: its len and its memory
          sleepers,  \* SLEEP_LIST
          pc, left,  \* where each thread is, and in timer_sleep its wakeup - TICKS
          child, n0, \* in create: the new thread, and the len that push has read
          torn,      \* not in the code: a push used a len that had changed
          slice,     \* THREAD_TICKS
          halted     \* the idle thread is in hlt

create == <<live, all, child, n0, torn>>
vars == <<cur, status, ready, priority, create, sleepers, pc, left, slice, halted>>

Init ==
    /\ \E t \in Thread : live = {t} /\ cur = t /\ all = [len |-> 1, buf |-> <<t>>]
    /\ status = [t \in Everyone |-> IF t = cur THEN "Running" ELSE "Blocked"]
    /\ ready = <<>>
    /\ priority = [t \in Everyone |-> IF t = Idle THEN 0 ELSE 31]
    /\ sleepers = <<>>
    /\ pc = [t \in Thread |-> "run"]
    /\ left = [t \in Thread |-> 0]
    /\ child = [t \in Thread |-> t]
    /\ n0 = [t \in Thread |-> 0]
    /\ torn = FALSE
    /\ slice = 0
    /\ halted = FALSE

(* ------------------------------- the interrupt -------------------------- *)
Later(n) == IF n > -MaxWait THEN n - 1 ELSE n
Aged(s) == [i \in 1..Len(s) |-> [s[i] EXCEPT !.left = Later(@)]]

(* Faulty Due: at most one thread for each interrupt.                       *)
DueOne(s) == IF s # <<>> /\ s[1].left <= 0 THEN 1 ELSE 0

(* Faulty Due: only the threads that are due at this very tick.             *)
DueExactly(s) == Cardinality({i \in 1..Len(s) : \A j \in 1..i : s[j].left = 0})

(* wake_sleeping_threads: how many leave the front of the list.             *)
Due(s) == Cardinality({i \in 1..Len(s) : \A j \in 1..i : s[j].left <= 0})


(* tick: has the running thread used up its slice?                          *)
SliceOver == slice + 1 >= TIME_SLICE

(* timer_interrupt, and the yield when the handler returns.                 *)
Tick ==
    LET s == Aged(sleepers)
        n == Due(s)
        woken == [i \in 1..n |-> s[i].thread]
        st == [t \in Everyone |-> IF \E i \in 1..n : woken[i] = t THEN "Ready" ELSE status[t]]
        q == ready \o woken
    IN /\ sleepers' = SubSeq(s, n + 1, Len(s))
       /\ left' = [t \in Thread |-> IF pc[t] = "sleep" THEN Later(left[t]) ELSE left[t]]
       /\ halted' = (halted /\ cur # Idle)
       /\ IF SliceOver
          THEN YieldFrom(st, q, priority) /\ slice' = 0
          ELSE cur' = cur /\ status' = st /\ ready' = q /\ slice' = slice + 1
       /\ UNCHANGED <<priority, create, pc>>

(* -------------------------------- threads ------------------------------- *)
(* timer_sleep, with interrupts on: the time to wake up is computed.        *)
SleepCall(t, n) ==
    /\ cur = t /\ pc[t] = "run"
    /\ pc' = [pc EXCEPT ![t] = "sleep"]
    /\ left' = [left EXCEPT ![t] = n]
    /\ UNCHANGED <<cur, status, ready, priority, create, sleepers, slice, halted>>

(* Where timer_sleep puts the thread in the list.                           *)
Place(n) ==
    LET later == {i \in 1..Len(sleepers) : sleepers[i].left > n}
    IN IF later = {} THEN Len(sleepers) + 1 ELSE Min(later)

(* timer_sleep, with interrupts off.                                        *)
SleepBlock(t) ==
    /\ cur = t /\ pc[t] = "sleep"
    /\ sleepers' = InsertAt(sleepers, Place(left[t]), [thread |-> t, left |-> left[t]])
    /\ Block
    /\ slice' = 0
    /\ pc' = [pc EXCEPT ![t] = "run"]
    /\ left' = [left EXCEPT ![t] = 0]
    /\ UNCHANGED <<priority, create, halted>>

(* A thread yields, for instance in a loop that waits for the disk.         *)
Yield(t) ==
    /\ cur = t /\ pc[t] = "run"
    /\ YieldFrom(status, ready, priority)
    /\ slice' = 0
    /\ UNCHANGED <<priority, create, sleepers, pc, left, halted>>

(* Faulty Retained: an exiting thread stays listed.                         *)
RetainedNot(a, t) == a

(* Vec::push and Vec::retain: what lies beyond len stays in the memory.     *)
Pushed(a, n, c) ==
    [len |-> n + 1, buf |-> SubSeq(a.buf, 1, n) \o <<c>> \o SubSeq(a.buf, n + 2, Len(a.buf))]
Kept(s, t) ==
    LET kept[n \in 0..Len(s)] ==
            IF n = 0 THEN <<>>
            ELSE IF s[n] = t THEN kept[n - 1] ELSE Append(kept[n - 1], s[n])
    IN kept[Len(s)]
Retained(a, t) ==
    LET kept == Kept(SubSeq(a.buf, 1, a.len), t)
    IN [len |-> Len(kept), buf |-> kept \o SubSeq(a.buf, Len(kept) + 1, Len(a.buf))]

Listed == Range(SubSeq(all.buf, 1, all.len))

(* create, with interrupts on: the page, and the first half of the push.    *)
CreateBegin(t, c) ==
    /\ cur = t /\ pc[t] = "run"
    /\ c \in Thread \ live /\ all.len < MaxList /\ ~torn
    /\ live' = live \cup {c}
    /\ child' = [child EXCEPT ![t] = c]
    /\ IF "push" \in Windows
       THEN /\ n0' = [n0 EXCEPT ![t] = all.len]
            /\ pc' = [pc EXCEPT ![t] = "push"]
            /\ all' = all
       ELSE /\ all' = Pushed(all, all.len, c)
            /\ pc' = [pc EXCEPT ![t] = "unblock"]
            /\ n0' = n0
    /\ UNCHANGED <<cur, status, ready, priority, torn, sleepers, left, slice, halted>>

CreatePush(t) ==
    /\ cur = t /\ pc[t] = "push"
    /\ all' = Pushed(all, n0[t], child[t])
    /\ torn' = (torn \/ n0[t] # all.len)
    /\ n0' = [n0 EXCEPT ![t] = 0]
    /\ pc' = [pc EXCEPT ![t] = "unblock"]
    /\ UNCHANGED <<cur, status, ready, priority, live, child, sleepers, left, slice, halted>>

CreateUnblock(t) ==
    /\ cur = t /\ pc[t] = "unblock"
    /\ Unblock(child[t])
    /\ child' = [child EXCEPT ![t] = t]
    /\ pc' = [pc EXCEPT ![t] = "run"]
    /\ UNCHANGED <<priority, live, all, n0, torn, sleepers, left, slice, halted>>

(* Faulty Exit: the thread leaves by way of yield.                          *)
ExitReady(t) ==
    /\ cur = t /\ pc[t] = "run"
    /\ all' = Retained(all, t)
    /\ live' = live \ {t}
    /\ YieldFrom(status, ready, priority)
    /\ slice' = 0
    /\ UNCHANGED <<priority, child, n0, torn, sleepers, pc, left, halted>>

(* exit; the next thread frees the page in schedule_tail.                   *)
Exit(t) ==
    /\ cur = t /\ pc[t] = "run"
    /\ all' = Retained(all, t)
    /\ live' = live \ {t}
    /\ Block
    /\ slice' = 0
    /\ UNCHANGED <<priority, child, n0, torn, sleepers, pc, left, halted>>

(* The loop of the idle thread: block, and when that returns, hlt.          *)
IdleLoop ==
    /\ cur = Idle /\ ~halted
    /\ Block
    /\ slice' = 0
    /\ halted' = TRUE
    /\ UNCHANGED <<priority, create, sleepers, pc, left>>

ThreadStep(t) ==
    \/ \E n \in 1..MaxSleep : SleepCall(t, n)
    \/ SleepBlock(t) \/ Yield(t) \/ Exit(t)
    \/ \E c \in Thread : CreateBegin(t, c)
    \/ CreatePush(t) \/ CreateUnblock(t)

Next == Tick \/ IdleLoop \/ \E t \in Thread : ThreadStep(t)

Spec == Init /\ [][Next]_vars

(* The timer keeps ticking, the idle thread is not stuck outside hlt, and a *)
(* running thread goes on with the call it has begun.                       *)
Fairness ==
    /\ WF_vars(Tick) /\ WF_vars(IdleLoop)
    /\ \A t \in Thread : WF_vars(SleepBlock(t) \/ CreatePush(t) \/ CreateUnblock(t))

FairSpec == Spec /\ Fairness

(* ------------------------------- properties ----------------------------- *)
Asleep == {sleepers[i].thread : i \in 1..Len(sleepers)}

(* The state has its type.                                                  *)
TypeOK ==
    /\ SchedTypeOK
    /\ live \subseteq Thread
    /\ all \in [len : Nat, buf : Seq(Thread)] /\ all.len <= Len(all.buf)
    /\ sleepers \in Seq([thread : Thread, left : -MaxWait..MaxSleep])
    /\ pc \in [Thread -> {"run", "sleep", "push", "unblock"}]
    /\ child \in [Thread -> Thread] /\ n0 \in [Thread -> 0..MaxList]
    /\ left \in [Thread -> -MaxWait..MaxSleep]
    /\ torn \in BOOLEAN
    /\ slice \in 0..(TIME_SLICE - 1)
    /\ halted \in BOOLEAN

(* No thread is lost or in two places: each thread that exists is running,  *)
(* in READY_LIST, in SLEEP_LIST or still being created, and in one of these *)
(* once; schedule never switches to a thread whose page is free.            *)
NoThreadLost ==
    LET newborn == {child[t] : t \in {u \in live : pc[u] \in {"push", "unblock"}}}
    IN /\ IsInjective(ready)
       /\ IsInjective([i \in 1..Len(sleepers) |-> sleepers[i].thread])
       /\ Range(ready) \cap Asleep = {} /\ newborn \cap (Range(ready) \cup Asleep) = {}
       /\ cur \notin Range(ready) \cup Asleep \cup newborn
       /\ live = Range(ready) \cup Asleep \cup newborn \cup ({cur} \ {Idle})

(* ALL_LIST holds each thread once, and no thread whose page has been       *)
(* freed, except that create may be about to push one: signals, process     *)
(* groups and page directories are found through it.  This lasts until a    *)
(* push that was interrupted writes over what another thread did meanwhile. *)
AllListExact ==
    LET coming == {child[t] : t \in {u \in live : pc[u] = "push"}}
    IN ~torn =>
       /\ IsInjective(SubSeq(all.buf, 1, all.len))
       /\ Listed = live \ coming

(* A timer interrupt wakes every sleeper that is due and none that is not.  *)
WokenWhenDue ==
    [][Tick => \A i \in 1..Len(sleepers) :
                  sleepers[i].thread \in {sleepers'[j].thread : j \in 1..Len(sleepers')}
                     <=> sleepers[i].left > 1]_vars

(* Every thread that is ready or asleep gets the processor, whatever the    *)
(* others do: the interrupt wakes the sleepers, the time slice ends each    *)
(* turn and READY_LIST is first in, first out.                              *)
EveryoneRuns == \A t \in Thread : (status[t] = "Ready" \/ t \in Asleep) ~> cur = t
===============================================================================
