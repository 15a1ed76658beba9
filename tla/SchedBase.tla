------------------------------ MODULE SchedBase ------------------------------
(***************************************************************************)
(* The dispatcher of thread/mod.rs: the running thread, the status of each *)
(* thread and READY_LIST, with the primitives block, unblock and           *)
(* yield_current that every other part of the kernel is built from.        *)
(*                                                                         *)
(* The machine has one processor.  Code that runs with interrupts disabled *)
(* is interrupted by nothing but its own call of schedule(), so each       *)
(* operator below is one atomic step.  The modules that extend this one    *)
(* add the code that calls the primitives.                                 *)
(***************************************************************************)
EXTENDS Vec

CONSTANTS Thread,     \* the threads other than the idle thread
          Idle        \* IDLE_THREAD

ASSUME IdleAssumption == Idle \notin Thread

Everyone == Thread \cup {Idle}

VARIABLES cur,        \* running_thread()
          status,     \* Thread.status
          ready,      \* READY_LIST, in queue order
          priority    \* Thread.priority, donations included

schedVars == <<cur, status, ready>>

-----------------------------------------------------------------------------

(* Faulty FirstHighest: the last of the threads of highest priority.       *)
LastHighest(q, pri) ==
    {i \in DOMAIN q : /\ \A j \in DOMAIN q : pri[q[j]] <= pri[q[i]]
                      /\ \A j \in DOMAIN q : j > i => pri[q[j]] < pri[q[i]]}

(* The position next_thread_to_run and Semaphore::up choose in a queue:    *)
(* the first of the threads of highest priority.                           *)
FirstHighest(q, pri) ==
    {i \in DOMAIN q : /\ \A j \in DOMAIN q : pri[q[j]] <= pri[q[i]]
                      /\ \A j \in 1..(i - 1) : pri[q[j]] < pri[q[i]]}

(* schedule() and schedule_tail(): hand the processor to the next thread,  *)
(* given the status st that the caller left its threads in, READY_LIST q   *)
(* and the priorities pri.                                                 *)
Schedule(st, q, pri) ==
    \/ /\ q = <<>>
       /\ cur' = Idle
       /\ status' = [st EXCEPT ![Idle] = "Running"]
       /\ ready' = q
    \/ \E i \in FirstHighest(q, pri) :
          /\ cur' = q[i]
          /\ status' = [st EXCEPT ![q[i]] = "Running"]
          /\ ready' = RemoveAt(q, i)

(* block(): the caller has already put itself on some wait queue.          *)
Block == Schedule([status EXCEPT ![cur] = "Blocked"], ready, priority)

(* yield_current(), from status st, ready list q and priorities pri; the   *)
(* idle thread never enters the ready list.                                *)
YieldFrom(st, q, pri) ==
    Schedule([st EXCEPT ![cur] = "Ready"],
             IF cur = Idle THEN q ELSE Append(q, cur), pri)

(* unblock(w) as an interrupt handler runs it: no yield.                   *)
MakeReady(w) ==
    /\ status' = [status EXCEPT ![w] = "Ready"]
    /\ ready' = Append(ready, w)
    /\ cur' = cur

(* unblock(w) called by a thread, which yields to a w of higher priority.  *)
Unblock(w) ==
    IF priority[w] > priority[cur]
    THEN YieldFrom([status EXCEPT ![w] = "Ready"], Append(ready, w), priority)
    ELSE MakeReady(w)

-----------------------------------------------------------------------------

SchedTypeOK ==
    /\ cur \in Everyone
    /\ status \in [Everyone -> {"Running", "Ready", "Blocked"}]
    /\ ready \in Seq(Thread)

(* The running thread alone is Running; READY_LIST holds each Ready thread *)
(* once and nothing else.                                                  *)
ReadyListExact ==
    /\ \A t \in Everyone : status[t] = "Running" <=> t = cur
    /\ IsInjective(ready)
    /\ \A t \in Thread : status[t] = "Ready" <=> t \in Range(ready)

=============================================================================
