------------------------------ MODULE Process ------------------------------
(***************************************************************************)
(* The life of user processes (userprog/process.rs): main starts init with *)
(* execute and waits for it; processes fork, wait for their children and   *)
(* exit.  The registries PROCESS_STATES and PARENT_WAIT_SEMAS have no      *)
(* lock, and system calls run with interrupts on, so a step is one access  *)
(* to them and any thread may run between two.  pc[t]:                     *)
(*   free            no thread on this page                                *)
(*   boot, user      main before execute; a process in user mode           *)
(*   tid             in thread::create, NEXT_TID read and not yet stored   *)
(*   state, sema     the child is ready, its ProcessState is not inserted, *)
(*                   the wait semaphore of the parent is not ensured       *)
(*   load            start_process, loading the program                    *)
(*   loaded          execute, in the down of load_sema                     *)
(*   scan            at the top of the loop of wait_any_child              *)
(*   down, asleep    in the down of the parent's wait semaphore, running   *)
(*                   and blocked                                           *)
(*   reap            in wait, in the down of wait_sema                     *)
(*   exit_up, exit_mark, exit_wake, exit_children, exit_sema               *)
(*                   the steps of exit_with_status                         *)
(*   halt            main is done and switches the machine off             *)
(*                                                                         *)
(* PARENT_WAIT_SEMAS keeps its semaphores inside the node of a B-tree.  An *)
(* insertion or a removal moves the ones behind it, while a thread that    *)
(* sleeps in down keeps the address it was called with.                    *)
(***************************************************************************)
EXTENDS Integers, Sequences, FiniteSetsExt

CONSTANTS Thread,     \* pages for thread structures
          Main,       \* the thread that boots
          MaxTid,     \* bound on the thread ids handed out
          Forking,    \* ids of the processes whose programs fork
          Status,     \* the exit statuses of the program each id runs
          Windows     \* windows in which a timer tick may come

FirstTid == 4         \* main, idle and fs-init have 1, 2 and 3

ASSUME ProcessAssumption ==
    /\ Main \in Thread
    /\ MaxTid \in FirstTid..11      \* one leaf of a B-tree holds 11 entries
    /\ Windows \subseteq {"tid", "fork", "exit"}
    /\ DOMAIN Status = FirstTid..MaxTid

VARIABLES pc, tid,
          arg,         \* the child a call is about, or the status of an exit
          slot,        \* where the semaphore a thread is downing was found
          ret,         \* what the last wait returned: child and status
          next_tid,
          states,      \* PROCESS_STATES
          node, len,   \* PARENT_WAIT_SEMAS: the slots of its leaf, those used
          gave         \* ghost: the status each process exited with

registry == <<states, gave>>
semas == <<node, len>>
locals == <<tid, arg, slot, ret>>
vars == <<pc, locals, next_tid, registry, semas>>

Slot == 1..MaxTid
NoTid == 0
NewSema(k) == [key |-> k, value |-> 0, waiters |-> <<>>]
MainTid == 1

Init ==
    /\ pc = [t \in Thread |-> IF t = Main THEN "boot" ELSE "free"]
    /\ tid = [t \in Thread |-> IF t = Main THEN MainTid ELSE NoTid]
    /\ arg = [t \in Thread |-> NoTid]
    /\ slot = [t \in Thread |-> 1]
    /\ ret = [t \in Thread |-> <<>>]
    /\ next_tid = FirstTid
    /\ states = <<>> /\ gave = <<>>
    /\ node = [i \in Slot |-> NewSema(NoTid)] /\ len = 0

Window(p) ==
    CASE p = "tid" -> {"tid"}
      [] p \in {"state", "sema"} -> {"fork"}
      [] p \in {"exit_mark", "exit_wake"} -> {"exit"}
      [] OTHER -> {}

(* t runs: the machine is on, and nobody is in a window no tick falls in.  *)
At(t, p) ==
    /\ pc[t] = p /\ pc[Main] # "halt"
    /\ \A u \in Thread \ {t} : Window(pc[u]) \subseteq Windows

Goto(t, p) == pc' = [pc EXCEPT ![t] = p]

-----------------------------------------------------------------------------
(* The wait semaphores of the parents                                      *)

Keys == {node[i].key : i \in 1..len}
SlotOf(k) == CHOOSE i \in 1..len : node[i].key = k

(* contains_key and insert: the keys stay sorted, those above k move up.   *)
EnsureSema(k) ==
    LET i == Cardinality({j \in 1..len : node[j].key < k}) + 1
    IN  IF k \in Keys THEN UNCHANGED semas
        ELSE /\ node' = [j \in Slot |-> IF j = i THEN NewSema(k)
                                        ELSE IF j \in (i + 1)..(len + 1) THEN node[j - 1]
                                        ELSE node[j]]
             /\ len' = len + 1

(* remove: those above k move down; the last slot keeps what was in it.    *)
RemoveSema(k) ==
    IF k \notin Keys THEN UNCHANGED semas
    ELSE /\ node' = [j \in Slot |-> IF j \in SlotOf(k)..(len - 1) THEN node[j + 1] ELSE node[j]]
         /\ len' = len - 1

(* Semaphore::up on the wait semaphore of k, if there is one: the waiter   *)
(* at its head wakes and looks at the value again.                         *)
UpSema(k, t, point) ==
    IF k \notin Keys THEN Goto(t, point) /\ UNCHANGED semas
    ELSE LET q == node[SlotOf(k)].waiters
         IN  /\ node' = [node EXCEPT ![SlotOf(k)].value = @ + 1,
                                     ![SlotOf(k)].waiters = IF q = <<>> THEN q ELSE Tail(q)]
             /\ pc' = IF q = <<>> THEN [pc EXCEPT ![t] = point]
                      ELSE [pc EXCEPT ![t] = point, ![Head(q)] = "down"]
             /\ UNCHANGED len

-----------------------------------------------------------------------------
(* fork and execute                                                        *)

ReadTid(t) ==
    /\ (At(t, "user") /\ tid[t] \in Forking) \/ At(t, "boot")
    /\ next_tid <= MaxTid
    /\ arg' = [arg EXCEPT ![t] = next_tid]
    /\ ret' = [ret EXCEPT ![t] = <<>>]
    /\ Goto(t, "tid")
    /\ UNCHANGED <<tid, slot, next_tid, registry, semas>>

(* allocate_tid stores, and create makes the child ready.                  *)
Create(t, c) ==
    /\ At(t, "tid") /\ pc[c] = "free"
    /\ next_tid' = arg[t] + 1
    /\ tid' = [tid EXCEPT ![c] = arg[t]]
    /\ pc' = [pc EXCEPT ![t] = "state", ![c] = IF t = Main THEN "load" ELSE "user"]
    /\ UNCHANGED <<arg, slot, ret, registry, semas>>

InsertState(t) ==
    /\ At(t, "state")
    /\ states' = [k \in DOMAIN states \cup {arg[t]} |->
                    IF k # arg[t] THEN states[k]
                    ELSE [parent |-> tid[t], status |-> -1, exited |-> FALSE,
                          waited |-> FALSE, sema |-> 0,
                          load |-> IF t = Main THEN 0 ELSE 1, success |-> t # Main]]
    /\ Goto(t, "sema")
    /\ UNCHANGED <<locals, next_tid, gave, semas>>

ReturnFork(t) ==
    /\ At(t, "sema")
    /\ EnsureSema(tid[t])
    /\ arg' = IF t = Main THEN arg ELSE [arg EXCEPT ![t] = NoTid]
    /\ Goto(t, IF t = Main THEN "loaded" ELSE "user")
    /\ UNCHANGED <<tid, slot, ret, next_tid, registry>>

(* start_process: the load succeeds or fails; load_sema goes up if the     *)
(* state is there; a process that failed to load is gone.                  *)
Load(t) ==
    /\ At(t, "load")
    /\ \E ok \in BOOLEAN :
          /\ Goto(t, IF ok THEN "user" ELSE "free")
          /\ tid' = IF ok THEN tid ELSE [tid EXCEPT ![t] = NoTid]
          /\ states' = IF tid[t] \notin DOMAIN states THEN states
                       ELSE [states EXCEPT ![tid[t]].success = ok, ![tid[t]].load = @ + 1]
    /\ UNCHANGED <<arg, slot, ret, next_tid, gave, semas>>

(* execute after load_sema.down(): give up if the load failed, else main   *)
(* goes on to wait(init), which marks the state as waited for.             *)
Loaded(t) ==
    /\ At(t, "loaded") /\ states[arg[t]].load > 0
    /\ \/ /\ ~states[arg[t]].success
          /\ states' = Restrict(states, DOMAIN states \ {arg[t]})
          /\ Goto(t, "halt")
       \/ /\ states[arg[t]].success
          /\ states' = [states EXCEPT ![arg[t]].waited = TRUE, ![arg[t]].load = @ - 1]
          /\ Goto(t, "reap")
    /\ UNCHANGED <<locals, next_tid, gave, semas>>

-----------------------------------------------------------------------------
(* wait                                                                    *)

Wait(t) ==
    /\ At(t, "user")
    /\ EnsureSema(tid[t])
    /\ ret' = [ret EXCEPT ![t] = <<>>]
    /\ Goto(t, "scan")
    /\ UNCHANGED <<tid, arg, slot, next_tid, registry>>

AnyChild(t) == {k \in DOMAIN states : states[k].parent = tid[t] /\ ~states[k].waited}

Candidates(t) ==
    {k \in DOMAIN states : states[k].parent = tid[t] /\ states[k].exited /\ ~states[k].waited}

(* The loop of wait_any_child: go on to wait for the first child that has  *)
(* exited, return when there is no child, or look the semaphore up and     *)
(* call its down.                                                          *)
Scan(t) ==
    /\ At(t, "scan")
    /\ \/ /\ Candidates(t) # {}
          /\ arg' = [arg EXCEPT ![t] = Min(Candidates(t))]
          /\ states' = [states EXCEPT ![Min(Candidates(t))].waited = TRUE]
          /\ Goto(t, "reap")
          /\ UNCHANGED <<slot, ret>>
       \/ /\ Candidates(t) = {} /\ AnyChild(t) = {}
          /\ ret' = [ret EXCEPT ![t] = <<-1, -1>>]
          /\ Goto(t, "user")
          /\ UNCHANGED <<arg, slot, states>>
       \/ /\ Candidates(t) = {} /\ AnyChild(t) # {}
          /\ slot' = [slot EXCEPT ![t] = SlotOf(tid[t])]
          /\ Goto(t, "down")
          /\ UNCHANGED <<arg, ret, states>>
    /\ UNCHANGED <<tid, next_tid, gave, semas>>

(* Semaphore::down on what is now at the address the call was given.       *)
Down(t) ==
    /\ At(t, "down")
    /\ \/ /\ node[slot[t]].value > 0
          /\ node' = [node EXCEPT ![slot[t]].value = @ - 1]
          /\ slot' = [slot EXCEPT ![t] = 1]
          /\ Goto(t, "scan")
       \/ /\ node[slot[t]].value = 0
          /\ node' = [node EXCEPT ![slot[t]].waiters = Append(@, t)]
          /\ Goto(t, "asleep")
          /\ UNCHANGED slot
    /\ UNCHANGED <<tid, arg, ret, next_tid, registry, len>>

(* Faulty Reap: without the down.                                          *)
ReapAtOnce(t) ==
    /\ At(t, "reap") /\ arg[t] \in DOMAIN states
    /\ ret' = [ret EXCEPT ![t] = <<arg[t], states[arg[t]].status>>]
    /\ states' = Restrict(states, DOMAIN states \ {arg[t]})
    /\ arg' = [arg EXCEPT ![t] = NoTid]
    /\ Goto(t, IF t = Main THEN "halt" ELSE "user")
    /\ UNCHANGED <<tid, slot, next_tid, gave, semas>>

(* wait after wait_sema.down(): remove the state, return its status.       *)
Reap(t) ==
    /\ At(t, "reap") /\ arg[t] \in DOMAIN states /\ states[arg[t]].sema > 0
    /\ ret' = [ret EXCEPT ![t] = <<arg[t], states[arg[t]].status>>]
    /\ states' = Restrict(states, DOMAIN states \ {arg[t]})
    /\ arg' = [arg EXCEPT ![t] = NoTid]
    /\ Goto(t, IF t = Main THEN "halt" ELSE "user")
    /\ UNCHANGED <<tid, slot, next_tid, gave, semas>>

-----------------------------------------------------------------------------
(* exit_with_status and thread::exit                                       *)

Exit(t) ==
    /\ At(t, "user")
    /\ \E s \in Status[tid[t]] :
          /\ arg' = [arg EXCEPT ![t] = s]
          /\ gave' = [k \in DOMAIN gave \cup {tid[t]} |-> IF k = tid[t] THEN s ELSE gave[k]]
    /\ ret' = [ret EXCEPT ![t] = <<>>]
    /\ Goto(t, "exit_up")
    /\ UNCHANGED <<tid, slot, next_tid, states, semas>>

(* The wait semaphore of the parent goes up.                               *)
ExitUp(t) ==
    /\ At(t, "exit_up")
    /\ IF tid[t] \in DOMAIN states
       THEN UpSema(states[tid[t]].parent, t, "exit_mark")
       ELSE Goto(t, "exit_mark") /\ UNCHANGED semas
    /\ UNCHANGED <<locals, next_tid, registry>>

(* Faulty ExitMark: the status is never recorded.                          *)
ExitMarkNoStatus(t) ==
    /\ At(t, "exit_mark")
    /\ states' = IF tid[t] \notin DOMAIN states THEN states
                 ELSE [states EXCEPT ![tid[t]].exited = TRUE]
    /\ Goto(t, IF tid[t] \in DOMAIN states THEN "exit_wake" ELSE "exit_children")
    /\ UNCHANGED <<locals, next_tid, gave, semas>>

ExitMark(t) ==
    /\ At(t, "exit_mark")
    /\ states' = IF tid[t] \notin DOMAIN states THEN states
                 ELSE [states EXCEPT ![tid[t]].status = arg[t], ![tid[t]].exited = TRUE]
    /\ Goto(t, IF tid[t] \in DOMAIN states THEN "exit_wake" ELSE "exit_children")
    /\ UNCHANGED <<locals, next_tid, gave, semas>>

(* wait_sema.up() on the state ExitMark found, if it is still there.       *)
ExitWake(t) ==
    /\ At(t, "exit_wake")
    /\ states' = IF tid[t] \notin DOMAIN states THEN states
                 ELSE [states EXCEPT ![tid[t]].sema = @ + 1]
    /\ Goto(t, "exit_children")
    /\ UNCHANGED <<locals, next_tid, gave, semas>>

Children(t) == {k \in DOMAIN states : states[k].parent = tid[t]}

(* Faulty ExitChildren: all are left as they are.                          *)
ExitChildrenNot(t) ==
    /\ At(t, "exit_children")
    /\ Goto(t, "exit_sema")
    /\ UNCHANGED <<locals, next_tid, registry, semas>>

(* The next child: removed when it has exited, else given to thread 1.     *)
ExitChildren(t) ==
    /\ At(t, "exit_children")
    /\ LET k == Min(Children(t))
       IN  IF Children(t) = {} THEN Goto(t, "exit_sema") /\ UNCHANGED states
           ELSE /\ states' = IF states[k].exited
                             THEN Restrict(states, DOMAIN states \ {k})
                             ELSE [states EXCEPT ![k].parent = MainTid]
                /\ UNCHANGED pc
    /\ UNCHANGED <<locals, next_tid, gave, semas>>

(* The rest of the exit: the thread is gone and its page free.             *)
ExitSema(t) ==
    /\ At(t, "exit_sema")
    /\ RemoveSema(tid[t])
    /\ Goto(t, "free")
    /\ tid' = [tid EXCEPT ![t] = NoTid]
    /\ arg' = [arg EXCEPT ![t] = NoTid]
    /\ UNCHANGED <<slot, ret, next_tid, registry>>

-----------------------------------------------------------------------------

Kernel(t) ==
    \/ \E c \in Thread : Create(t, c)
    \/ InsertState(t) \/ ReturnFork(t) \/ Load(t) \/ Loaded(t)
    \/ Scan(t) \/ Down(t) \/ Reap(t)
    \/ ExitUp(t) \/ ExitMark(t) \/ ExitWake(t) \/ ExitChildren(t) \/ ExitSema(t)

User(t) == ReadTid(t) \/ Wait(t) \/ Exit(t)

Next == \E t \in Thread : Kernel(t) \/ User(t)

Spec == Init /\ [][Next]_vars

(* The scheduler runs every ready thread again (Sync, ReadyRuns), so what  *)
(* the kernel has begun for a process it goes on with.  What the programs  *)
(* do next is theirs; main does boot.                                      *)
FairSpec ==
    /\ Spec
    /\ \A t \in Thread : WF_vars(Kernel(t))
    /\ WF_vars(ReadTid(Main))

-----------------------------------------------------------------------------
(* Properties                                                              *)

Live(k) == \E t \in Thread : pc[t] # "free" /\ tid[t] = k

TypeOK ==
    /\ pc \in [Thread -> {"free", "boot", "user", "tid", "state", "sema", "load", "loaded",
                          "scan", "down", "asleep", "reap", "exit_up", "exit_mark", "exit_wake",
                          "exit_children", "exit_sema", "halt"}]
    /\ tid \in [Thread -> 0..MaxTid]
    /\ slot \in [Thread -> Slot]
    /\ next_tid \in FirstTid..(MaxTid + 1)
    /\ DOMAIN states \subseteq FirstTid..MaxTid
    /\ \A k \in DOMAIN states :
          /\ states[k].parent \in 1..MaxTid /\ states[k].status \in Status[k] \cup {-1}
          /\ states[k].sema \in 0..1 /\ states[k].load \in 0..1
    /\ len \in 0..MaxTid
    /\ \A i \in Slot : node[i].value \in Nat /\ Range(node[i].waiters) \subseteq Thread

(* No two threads have one id: PROCESS_STATES and the other registries are *)
(* "keyed by child TID".                                                   *)
TidsUnique ==
    \A t, u \in Thread : t # u /\ tid[t] # NoTid => tid[t] # tid[u]

(* A wait returns a child of the caller that has exited, and the status it *)
(* exited with.                                                            *)
WaitTellsStatus ==
    \A t \in Thread : ret[t] \notin {<<>>, <<-1, -1>>} =>
        ret[t][1] \in DOMAIN gave /\ gave[ret[t][1]] = ret[t][2]

(* A process is reaped by its parent or by nobody, and only when it is     *)
(* done with its ProcessState: the entry leaves the registry in a wait of  *)
(* its parent, in the exit of its parent, or because it failed to load.    *)
OnlyParentsReap ==
    [][\A k \in DOMAIN states \ DOMAIN states' :
          \E t \in Thread : tid[t] = states[k].parent
                            /\ (states[k].exited \/ pc[t] = "loaded")]_vars

(* A process that exits and a thread that waits for it use a ProcessState  *)
(* that is still in the registry.                                          *)
StatesInUseKept ==
    \A t \in Thread :
        /\ pc[t] = "exit_wake" => tid[t] \in DOMAIN states
        /\ pc[t] \in {"loaded", "reap"} => arg[t] \in DOMAIN states

(* Every registered process has a parent that lives: exit leaves none      *)
(* behind that names it.                                                   *)
ParentsLive == \A k \in DOMAIN states : Live(states[k].parent)

(* exit reparents the children that still run to init.                     *)
OrphansGoToInit ==
    \A t \in Thread : pc[t] = "exit_sema" /\ tid[t] # FirstTid =>
        \A k \in DOMAIN states : k # FirstTid => states[k].parent # MainTid

Waiting(t) == pc[t] \in {"scan", "down", "asleep", "reap"}

(* The semaphore a process sleeps on is the one its children signal: the   *)
(* address that wait_any_child took from the map stays the address of it.  *)
SemaStaysPut ==
    \A t \in Thread : pc[t] \in {"down", "asleep"} =>
        slot[t] <= len /\ node[slot[t]].key = tid[t]

(* A process in wait returns once one of its children is gone: no exit is  *)
(* lost.                                                                   *)
WaitReturns ==
    \A t \in Thread :
        (Waiting(t) /\ \E k \in Children(t) : ~Live(k)) ~> (~Waiting(t) \/ pc[Main] = "halt")

(* execute returns: main learns how the load of init ended.                *)
ExecuteReturns == (pc[Main] # "boot") ~> (pc[Main] \in {"reap", "halt"})
=============================================================================
