-------------------------------- MODULE Sync --------------------------------
(***************************************************************************)
(* The semaphores and locks of sync/ under the preemptive scheduler, with  *)
(* the priority donation of thread/mod.rs.                                 *)
(*                                                                         *)
(* Threads call the operations in any order a correct client may.  A       *)
(* thread is preempted by the timer between any two steps that run with    *)
(* interrupts enabled; the stretches of an operation that run with         *)
(* interrupts disabled are single steps, cut only where they switch to     *)
(* another thread.  pc[t] is the point where t goes on:                    *)
(*   run     in its own code, between two operations                       *)
(*   down    in Lock::acquire, about to call sema.down()                   *)
(*   loop    in Semaphore::down, where block() returns (interrupts off)    *)
(*   clear   in Lock::acquire, before waiting_on_lock is cleared           *)
(*   set     in Lock::acquire or try_acquire, before holder is set         *)
(*   unhold  in Lock::release, before holder is cleared                    *)
(*   up      in Lock::release, about to call sema.up()                     *)
(*   incr    in Semaphore::up, where unblock() returns (interrupts off)    *)
(***************************************************************************)
EXTENDS SchedBase, FiniteSets

CONSTANTS Lock,       \* the sleeping locks; each contains a semaphore
          Event,      \* the other semaphores (completion, wait_sema, ...)
          Null,       \* the null pointer
          InitPri,    \* the priority each thread is created with
          NewPri,     \* the arguments threads give to set_priority
          MaxValue    \* bound on the value of an event that clients raise

Sema == Lock \cup Event

ASSUME SyncAssumption ==
    /\ IsFiniteSet(Thread)
    /\ Null \notin Everyone \cup Sema
    /\ Lock \cap Event = {}
    /\ InitPri \in [Everyone -> Int]
    /\ NewPri \subseteq Int
    /\ MaxValue \in Nat

VARIABLES original,   \* Thread.original_priority
          waitingOn,  \* Thread.waiting_on_lock
          holder,     \* Lock.holder
          value,      \* Semaphore.value
          waiters,    \* Semaphore.waiters
          pc,         \* where each thread goes on
          arg         \* the semaphore or lock of the operation it is in

vars == <<cur, status, ready, priority, original, waitingOn, holder, value,
          waiters, pc, arg>>

Goto(l, s) ==
    /\ pc' = [pc EXCEPT ![cur] = l]
    /\ arg' = [arg EXCEPT ![cur] = s]

Return == Goto("run", Null)

At(l) == cur \in Thread /\ pc[cur] = l

(* The timer and the devices interrupt the processor only here.            *)
InterruptsOn == pc[cur] \notin {"loop", "incr"}

(* The threads are created and not yet in any operation.  Any of them may  *)
(* be running: an interrupt handler that unblocks a thread of higher       *)
(* priority does not yield to it.                                          *)
Init ==
    /\ cur \in Thread
    /\ status = [t \in Everyone |-> IF t = cur THEN "Running"
                                    ELSE IF t = Idle THEN "Blocked" ELSE "Ready"]
    /\ ready \in {q \in [1..(Cardinality(Thread) - 1) -> Thread] :
                     IsInjective(q) /\ Range(q) = Thread \ {cur}}
    /\ priority = InitPri
    /\ original = InitPri
    /\ waitingOn = [t \in Everyone |-> Null]
    /\ holder = [l \in Lock |-> Null]
    /\ value = [s \in Sema |-> IF s \in Lock THEN 1 ELSE 0]
    /\ waiters = [s \in Sema |-> <<>>]
    /\ pc = [t \in Everyone |-> "run"]
    /\ arg = [t \in Everyone |-> Null]

-----------------------------------------------------------------------------
(* Semaphore                                                               *)

(* Semaphore::down, from its entry or from where block() returns, up to    *)
(* its next block() or its end.                                            *)
Down(s) ==
    /\ \/ /\ value[s] = 0
          /\ waiters' = [waiters EXCEPT ![s] = Append(@, cur)]
          /\ Block
          /\ Goto("loop", s)
          /\ UNCHANGED value
       \/ /\ value[s] > 0
          /\ value' = [value EXCEPT ![s] = @ - 1]
          /\ IF s \in Lock THEN Goto("clear", s) ELSE Return
          /\ UNCHANGED <<waiters, schedVars>>
    /\ UNCHANGED <<priority, original, waitingOn, holder>>

(* Faulty Up: the value is raised and nobody is woken.                     *)
UpWakesNobody(s) ==
    /\ value' = [value EXCEPT ![s] = @ + 1]
    /\ Return
    /\ UNCHANGED <<waiters, schedVars, priority, original, waitingOn, holder>>

(* Faulty Up: the thread it wakes stays on the wait queue.                 *)
UpLeavesQueued(s) ==
    /\ \/ waiters[s] = <<>> /\ UNCHANGED schedVars
       \/ \E i \in FirstHighest(waiters[s], priority) : MakeReady(waiters[s][i])
    /\ value' = [value EXCEPT ![s] = @ + 1]
    /\ Return
    /\ UNCHANGED <<waiters, priority, original, waitingOn, holder>>

(* Semaphore::up called by a thread.  unblock() comes before the           *)
(* increment: when it yields, the increment waits until the caller runs    *)
(* again.                                                                  *)
Up(s) ==
    /\ \/ /\ waiters[s] = <<>>
          /\ value' = [value EXCEPT ![s] = @ + 1]
          /\ Return
          /\ UNCHANGED <<waiters, schedVars>>
       \/ \E i \in FirstHighest(waiters[s], priority) :
             LET w == waiters[s][i]
                 yields == priority[w] > priority[cur]
             IN  /\ waiters' = [waiters EXCEPT ![s] = RemoveAt(@, i)]
                 /\ Unblock(w)
                 /\ value' = IF yields THEN value ELSE [value EXCEPT ![s] = @ + 1]
                 /\ IF yields THEN Goto("incr", s) ELSE Return
    /\ UNCHANGED <<priority, original, waitingOn, holder>>

(* Threads use the events directly.                                        *)
EventDown(s) == At("run") /\ Down(s)

EventUp(s) == At("run") /\ value[s] < MaxValue /\ Up(s)

(* Semaphore::up called by an interrupt handler (ide_interrupt).           *)
IrqUp(s) ==
    /\ InterruptsOn
    /\ value[s] < MaxValue
    /\ value' = [value EXCEPT ![s] = @ + 1]
    /\ \/ /\ waiters[s] = <<>>
          /\ UNCHANGED <<waiters, schedVars>>
       \/ \E i \in FirstHighest(waiters[s], priority) :
             /\ waiters' = [waiters EXCEPT ![s] = RemoveAt(@, i)]
             /\ MakeReady(waiters[s][i])
    /\ UNCHANGED <<priority, original, waitingOn, holder, pc, arg>>

(* Faulty DownAgain: an if in place of the while, which takes without      *)
(* looking at the value again.                                             *)
DownOnce ==
    /\ At("loop")
    /\ value' = [value EXCEPT ![arg[cur]] = @ - 1]
    /\ IF arg[cur] \in Lock THEN Goto("clear", arg[cur]) ELSE Return
    /\ UNCHANGED <<schedVars, waiters, priority, original, waitingOn, holder>>

(* A down goes on where block() returned to it.                            *)
DownAgain == At("loop") /\ Down(arg[cur])

(* An up goes on where unblock() returned to it.                           *)
UpIncrement ==
    /\ At("incr")
    /\ value' = [value EXCEPT ![arg[cur]] = @ + 1]
    /\ Return
    /\ UNCHANGED <<schedVars, priority, original, waitingOn, holder, waiters>>

(* A Semaphore::try_down that succeeds; for a lock it is the first half of *)
(* try_acquire.  One that fails changes nothing.                           *)
TryDown(s) ==
    /\ At("run")
    /\ value[s] > 0
    /\ value' = [value EXCEPT ![s] = @ - 1]
    /\ IF s \in Lock THEN Goto("set", s) ELSE Return
    /\ UNCHANGED <<schedVars, priority, original, waitingOn, holder, waiters>>

-----------------------------------------------------------------------------
(* Lock and priority donation                                              *)

DonationDepth == 8

(* The threads donate_priority(h, p) visits: h, the holder of the lock h   *)
(* waits on, and so on, until a thread whose priority is already p.        *)
DonationChain(h, p) ==
    LET target[k \in 0..(DonationDepth - 1)] ==
          IF k = 0 THEN h
          ELSE LET t == target[k - 1]
               IN  IF t = Null \/ priority[t] >= p \/ waitingOn[t] = Null
                   THEN Null
                   ELSE holder[waitingOn[t]]
    IN  {target[k] : k \in 0..(DonationDepth - 1)}

(* Faulty Donate: the holder's priority is replaced, not raised.           *)
DonateAlways(h, p) ==
    [t \in Everyone |-> IF t = h THEN p ELSE priority[t]]

(* donate_priority *)
Donate(h, p) ==
    [t \in Everyone |-> IF t \in DonationChain(h, p) /\ priority[t] < p
                        THEN p ELSE priority[t]]

(* Lock::acquire up to its call of down: the donation, interrupts off.     *)
Acquire(l) ==
    /\ At("run")
    /\ holder[l] # cur
    /\ \/ /\ holder[l] = Null
          /\ UNCHANGED <<waitingOn, priority>>
       \/ /\ holder[l] # Null
          /\ waitingOn' = [waitingOn EXCEPT ![cur] = l]
          /\ priority' = Donate(holder[l], priority[cur])
    /\ Goto("down", l)
    /\ UNCHANGED <<schedVars, original, holder, value, waiters>>

AcquireDown == At("down") /\ Down(arg[cur])

AcquireClear ==
    /\ At("clear")
    /\ waitingOn' = [waitingOn EXCEPT ![cur] = Null]
    /\ Goto("set", arg[cur])
    /\ UNCHANGED <<schedVars, priority, original, holder, value, waiters>>

AcquireSet ==
    /\ At("set")
    /\ holder' = [holder EXCEPT ![arg[cur]] = cur]
    /\ Return
    /\ UNCHANGED <<schedVars, priority, original, waitingOn, value, waiters>>

(* Faulty Release: without the assertion that the caller holds the lock.   *)
ReleaseOthers(l) ==
    /\ At("run")
    /\ holder[l] # Null
    /\ priority' = [priority EXCEPT ![cur] = original[cur]]
    /\ Goto("unhold", l)
    /\ UNCHANGED <<schedVars, original, waitingOn, holder, value, waiters>>

(* Lock::release: restore_priority, then the holder, then sema.up().       *)
Release(l) ==
    /\ At("run")
    /\ holder[l] = cur
    /\ priority' = [priority EXCEPT ![cur] = original[cur]]
    /\ Goto("unhold", l)
    /\ UNCHANGED <<schedVars, original, waitingOn, holder, value, waiters>>

ReleaseUnhold ==
    /\ At("unhold")
    /\ holder' = [holder EXCEPT ![arg[cur]] = Null]
    /\ Goto("up", arg[cur])
    /\ UNCHANGED <<schedVars, priority, original, waitingOn, value, waiters>>

ReleaseUp == At("up") /\ Up(arg[cur])

-----------------------------------------------------------------------------
(* Scheduling                                                              *)

(* set_priority, with the yield of yield_if_not_highest.  It runs with     *)
(* interrupts enabled, but original_priority is read by its own thread     *)
(* alone, and a timer interrupt between the assignments and the yield is a *)
(* Preempt before or after this step.                                      *)
SetPriority(p) ==
    /\ At("run")
    /\ priority' = [priority EXCEPT ![cur] = p]
    /\ original' = [original EXCEPT ![cur] = p]
    /\ \/ /\ \E i \in DOMAIN ready : priority[ready[i]] > p
          /\ YieldFrom(status, ready, priority')
       \/ /\ \A i \in DOMAIN ready : priority[ready[i]] <= p
          /\ UNCHANGED schedVars
    /\ UNCHANGED <<waitingOn, holder, value, waiters, pc, arg>>

(* A timer interrupt that ends a time slice, or a voluntary yield.         *)
Preempt ==
    /\ InterruptsOn
    /\ YieldFrom(status, ready, priority)
    /\ UNCHANGED <<priority, original, waitingOn, holder, value, waiters, pc, arg>>

(* One turn of the loop of the idle thread after an interrupt.             *)
IdleBlock ==
    /\ cur = Idle
    /\ Block
    /\ UNCHANGED <<priority, original, waitingOn, holder, value, waiters, pc, arg>>

(* The steps a thread takes because it is inside an operation.             *)
Continue == \/ DownAgain \/ UpIncrement
            \/ AcquireDown \/ AcquireClear \/ AcquireSet
            \/ ReleaseUnhold \/ ReleaseUp

(* The operations a thread may start.                                      *)
Start == \/ \E s \in Event : EventDown(s) \/ EventUp(s)
         \/ \E s \in Sema : TryDown(s)
         \/ \E l \in Lock : Acquire(l) \/ Release(l)
         \/ \E p \in NewPri : SetPriority(p)

Next == \/ Continue
        \/ Start
        \/ \E s \in Event : IrqUp(s)
        \/ Preempt
        \/ IdleBlock

Spec == Init /\ [][Next]_vars

(* A thread inside an operation takes its next step when it keeps getting  *)
(* the processor (it executes instructions during its time slices); time   *)
(* slices keep ending; the idle thread keeps looking for work.             *)
Fairness == /\ \A t \in Thread : SF_vars(cur = t /\ Continue)
            /\ SF_vars(Preempt)
            /\ WF_vars(IdleBlock)

FairSpec == Spec /\ Fairness

-----------------------------------------------------------------------------
(* Properties                                                              *)

PCs == {"run", "down", "loop", "clear", "set", "unhold", "up", "incr"}

(* Every variable has its type.                                            *)
TypeOK ==
    /\ SchedTypeOK
    /\ priority \in [Everyone -> Int]
    /\ original \in [Everyone -> Int]
    /\ waitingOn \in [Everyone -> Lock \cup {Null}]
    /\ holder \in [Lock -> Thread \cup {Null}]
    /\ value \in [Sema -> Nat]
    /\ waiters \in [Sema -> Seq(Thread)]
    /\ pc \in [Everyone -> PCs]
    /\ arg \in [Everyone -> Sema \cup {Null}]

(* t has taken the lock's semaphore and has not given it back.             *)
HasToken(t, l) ==
    \/ holder[l] = t
    \/ arg[t] = l /\ pc[t] \in {"clear", "set", "unhold", "up", "incr"}

Owners(l) == {t \in Thread : HasToken(t, l)}

(* Mutual exclusion, through every window of acquire and release: at each  *)
(* moment either the lock's semaphore is 1 and nobody is between its down  *)
(* and its up, or it is 0 and exactly one thread is.                       *)
LockToken ==
    \A l \in Lock :
       \/ value[l] = 1 /\ \A t \in Thread : ~HasToken(t, l)
       \/ value[l] = 0 /\ \E t \in Thread : Owners(l) = {t}

(* Each Blocked thread is queued once, on the one semaphore it waits for,  *)
(* and nothing else is queued: the assertion of unblock(), that the thread *)
(* is Blocked, never fails, and nobody sleeps where no up can find it.     *)
WaitQueuesExact ==
    /\ \A t \in Thread : status[t] = "Blocked" => arg[t] \in Sema
    /\ \A s \in Sema :
          /\ IsInjective(waiters[s])
          /\ \A t \in Thread : t \in Range(waiters[s])
                                  <=> status[t] = "Blocked" /\ arg[t] = s

(* What the program points mean: only block() inside down leaves a thread  *)
(* Blocked; each operation works on its own semaphore or lock; and release *)
(* has cleared the holder before it raises the semaphore, whose up still   *)
(* belongs to the releasing thread.                                        *)
ProgramPoints ==
    \A t \in Thread :
       /\ status[t] = "Blocked" => pc[t] = "loop"
       /\ pc[t] \in {"down", "clear", "set", "unhold", "up"} => arg[t] \in Lock
       /\ pc[t] \in {"loop", "incr"} => arg[t] \in Sema
       /\ pc[t] \in {"up", "incr"} /\ arg[t] \in Lock => holder[arg[t]] = Null

(* The threads that an up has unblocked and that have not yet run.         *)
Woken(s) == {t \in Thread : pc[t] = "loop" /\ arg[t] = s /\ status[t] # "Blocked"}

(* Semaphore::down waits only while the value is 0: when threads wait,     *)
(* each unit of the value belongs to a thread that is already awake.       *)
NoLostWakeup ==
    \A s \in Sema : waiters[s] # <<>> => value[s] <= Cardinality(Woken(s))

(* The locks implement Mutex: the owner of a lock is the thread that has   *)
(* its semaphore, from the decrement in acquire to the increment in        *)
(* release.  Only the running thread takes a lock or gives it back, one    *)
(* lock a step, and never another thread's.                                *)
Owner(l) == IF Owners(l) = {} THEN Null ELSE CHOOSE t \in Thread : t \in Owners(l)

M == INSTANCE Mutex WITH owner <- [l \in Lock |-> Owner(l)], running <- cur

ImplementsMutex == M!Spec

(* A donation only ever raises: no thread runs below the priority it was   *)
(* created with or set itself.                                             *)
BaseIsFloor == \A t \in Thread : priority[t] >= original[t]

(* A lock that is free while threads wait for it does not stay free.       *)
FreeLockIsTaken ==
    \A l \in Lock : (value[l] = 1 /\ waiters[l] # <<>>) ~> (value[l] = 0)

(* Round robin: a Ready thread gets the processor.                         *)
ReadyRuns == \A t \in Thread : (status[t] = "Ready") ~> (cur = t)

-----------------------------------------------------------------------------
(* What the comments and tests of the kernel say of donation               *)

(* lock.rs, acquire: "if the lock is held by a lower-priority thread,      *)
(* donate our priority to it".                                             *)
WaiterHasDonated ==
    \A l \in Lock, t \in Thread :
       t \in Range(waiters[l]) /\ holder[l] # Null
          => priority[holder[l]] >= priority[t]

(* lock.rs, release: "remove donation for this lock".  Releasing one lock  *)
(* leaves the donations of the threads that wait for the others.           *)
OtherDonationsStay ==
    [][\A l, m \in Lock, t \in Thread :
          /\ Release(l) /\ m # l /\ holder[m] = cur
          /\ t \in Range(waiters[m]) /\ priority[cur] >= priority[t]
          => priority'[cur] >= priority[t]]_vars

(* lock.rs, release: "Restores priority".  A thread with no lock and in no *)
(* operation has its own priority back.                                    *)
DonationEnds ==
    \A t \in Thread :
       pc[t] = "run" /\ (\A l \in Lock : holder[l] # t) => priority[t] = original[t]

=============================================================================
