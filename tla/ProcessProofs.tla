---------------------------- MODULE ProcessProofs ----------------------------
(***************************************************************************)
(* The life of processes, for any threads, programs and exit statuses.     *)
(*                                                                         *)
(* The three safety properties of Process hold as long as no tick falls    *)
(* between the load and the store of NEXT_TID.  None is inductive.  What a *)
(* wait returns is right because an entry whose semaphore is up belongs to *)
(* a process that has exited, and its status is the one that was given     *)
(* (ExitInv).  A reaper owns the entry it removes, and a thread at the end *)
(* of its exit owns none (CallInv).  Both need ids that are never given    *)
(* twice (IdInv).  The type of slot needs a semaphore for every thread in  *)
(* the loop of wait_any_child, and a waiter that up wakes must be asleep,  *)
(* in one queue and once (SemaInv).                                        *)
(***************************************************************************)
EXTENDS Process, SequenceTheorems, TLAPS

PCs == {"free", "boot", "user", "tid", "state", "sema", "load", "loaded", "scan", "down",
        "asleep", "reap", "exit_up", "exit_mark", "exit_wake", "exit_children",
        "exit_sema", "halt"}
MainPoints == {"boot", "tid", "state", "sema", "loaded", "reap", "halt"}
ExitPoints == {"exit_up", "exit_mark", "exit_wake", "exit_children", "exit_sema"}

Word == Int \cup UNION {Status[k] : k \in FirstTid..MaxTid}
PState == [parent : Int, status : Word, exited : BOOLEAN, waited : BOOLEAN,
           sema : Nat, load : Int, success : BOOLEAN]
Sema == [key : Int, value : Nat, waiters : Seq(Thread)]
Issued == FirstTid..(next_tid - 1)

(* The values of the variables.                                            *)
TypeInv ==
    /\ pc \in [Thread -> PCs] /\ tid \in [Thread -> 0..MaxTid]
    /\ arg \in [Thread -> Word] /\ slot \in [Thread -> Slot]
    /\ ret \in [Thread -> {<<>>} \cup (Word \X Word)]
    /\ next_tid \in FirstTid..(MaxTid + 1)
    /\ states \in [DOMAIN states -> PState] /\ DOMAIN states \subseteq Issued
    /\ gave \in [DOMAIN gave -> Word] /\ DOMAIN gave \subseteq Issued
    /\ node \in [Slot -> Sema] /\ len \in 0..MaxTid

(* Who has which id: the threads that run, and no two the same.            *)
IdInv ==
    /\ \A t \in Thread : tid[t] = NoTid <=> pc[t] = "free"
    /\ \A t \in Thread \ {Main} : tid[t] # NoTid => tid[t] \in Issued
    /\ tid[Main] = MainTid /\ pc[Main] \in MainPoints
    /\ \A t \in Thread \ {Main} : pc[t] \notin {"boot", "loaded", "halt"}
    /\ TidsUnique

(* What a thread in the middle of a fork, an execute, a wait or the end of *)
(* an exit has in hand.                                                    *)
CallOK(t) ==
    /\ pc[t] = "tid" => arg[t] = next_tid /\ next_tid <= MaxTid
    /\ pc[t] = "state" => /\ arg[t] \in Issued \ DOMAIN states
                          /\ \A u \in Thread \ {t} : pc[u] = "state" => arg[u] # arg[t]
    /\ pc[t] \in {"loaded", "reap"} \/ (pc[t] = "sema" /\ t = Main) =>
          arg[t] \in DOMAIN states /\ states[arg[t]].parent = tid[t]
    /\ pc[t] \in {"load", "exit_sema"} => \A k \in DOMAIN states : states[k].parent # tid[t]
CallInv == \A t \in Thread : CallOK(t)

(* A process gives its status once, when it starts to exit; its entry is   *)
(* marked with that status before anyone is told.                          *)
ExitOK(t) ==
    /\ tid[t] \in DOMAIN gave => pc[t] \in ExitPoints
    /\ pc[t] \in {"exit_up", "exit_mark"} => tid[t] \in DOMAIN gave /\ gave[tid[t]] = arg[t]
    /\ pc[t] = "exit_wake" =>
          /\ tid[t] \in DOMAIN states => states[tid[t]].exited
          /\ \A u \in Thread : pc[u] = "state" => arg[u] # tid[t]
StatusOK(k) ==
    /\ states[k].sema > 0 => states[k].exited
    /\ states[k].exited => k \in DOMAIN gave /\ gave[k] = states[k].status
ExitInv == (\A t \in Thread : ExitOK(t)) /\ \A k \in DOMAIN states : StatusOK(k)

(* The wait semaphores: one for a parent, with waiters that sleep, each in *)
(* one place.                                                              *)
SemaInv ==
    /\ \A i \in 1..len : /\ node[i].key \in 1..MaxTid
                         /\ IsInjective(node[i].waiters)
                         /\ \A t \in Range(node[i].waiters) : pc[t] = "asleep"
    /\ \A i, j \in 1..len : i # j =>
          /\ node[i].key # node[j].key
          /\ Range(node[i].waiters) \cap Range(node[j].waiters) = {}
    /\ \A t \in Thread : pc[t] \in {"scan", "down", "asleep"} => tid[t] \in Keys

IInv == TypeInv /\ IdInv /\ CallInv /\ ExitInv /\ SemaInv /\ ParentsLive /\ WaitTellsStatus
-----------------------------------------------------------------------------
(* A step of t                                                             *)

(* While t runs, the machine is on and nobody else is in thread::create.   *)
LEMMA AtMeans ==
    ASSUME "tid" \notin Windows, NEW t \in Thread, NEW p, At(t, p)
    PROVE  /\ pc[t] = p /\ pc[Main] # "halt"
           /\ \A u \in Thread \ {t} : pc[u] # "tid"
<1>1. \A u \in Thread \ {t} : pc[u] # "tid"
  <2> SUFFICES ASSUME NEW u \in Thread \ {t}, pc[u] = "tid" PROVE FALSE
    BY Zenon
  <2>1. Window(pc[u]) = {"tid"}
    BY Zenon DEF Window
  <2> QED
    BY <2>1, Zenon DEF At
<1> QED
  BY <1>1, Zenon DEF At

(* What a thread remembers is a number or an exit status.                  *)
LEMMA WordHas == Int \subseteq Word /\ \A k \in FirstTid..MaxTid : Status[k] \subseteq Word
BY Zenon DEF Word

-----------------------------------------------------------------------------
(* What most steps of t leave as it was: t goes on to another point, a     *)
(* sleeper may wake, and PROCESS_STATES may lose entries and give children *)
(* of t to main.                                                           *)

PcStep(t) ==
    /\ pc[t] # "free" /\ pc'[t] \notin {"free", "state"}
    /\ IF t = Main THEN pc'[t] \in MainPoints ELSE pc'[t] \notin {"boot", "loaded", "halt"}
    /\ \A u \in Thread \ {t} : pc'[u] = pc[u] \/ (pc[u] = "asleep" /\ pc'[u] = "down")

ArgStep(t) == \A u \in Thread \ {t} : arg'[u] = arg[u]

StateStep(t) ==
    /\ \A k \in DOMAIN states' :
          /\ k \in DOMAIN states
          /\ states[k].exited => states'[k].exited
          /\ \/ states'[k].parent = states[k].parent
             \/ states[k].parent = tid[t] /\ states'[k].parent = MainTid
    /\ \A u \in Thread \ {t} :
          arg[u] \in DOMAIN states /\ states[arg[u]].parent = tid[u] => arg[u] \in DOMAIN states'

GaveStep(t) ==
    /\ \A k \in DOMAIN gave : k \in DOMAIN gave' /\ gave'[k] = gave[k]
    /\ \A k \in DOMAIN gave' : k \in DOMAIN gave \/ k = tid[t]

Order == IdInv /\ CallInv /\ ExitInv /\ ParentsLive

(* A thread that runs has an id that no other thread has.                  *)
LEMMA OwnTid ==
    ASSUME TypeInv, IdInv, NEW t \in Thread, pc[t] # "free"
    PROVE  /\ tid[t] # NoTid /\ tid[t] \in Nat
           /\ \A u \in Thread \ {t} : tid[u] # tid[t]
           /\ t # Main => tid[t] \in Issued /\ tid[t] # MainTid
<1>1. tid[t] \in Nat
  BY DEF TypeInv
<1>2. tid[t] # NoTid /\ \A u \in Thread \ {t} : tid[u] # tid[t]
  BY Zenon DEF IdInv, TidsUnique
<1>3. t # Main => tid[t] \in Issued /\ tid[t] # MainTid
  BY <1>1, <1>2, ProcessAssumption, Zenon DEF IdInv, TidsUnique
<1> QED
  BY <1>1, <1>2, <1>3, Zenon

(* Such a step keeps the ids of the threads apart.                         *)
LEMMA StepKeepsId ==
    ASSUME TypeInv, IdInv, NEW t \in Thread, PcStep(t), tid' = tid, next_tid' = next_tid
    PROVE  IdInv'
<1>1. \A u \in Thread : pc'[u] = "free" <=> pc[u] = "free"
  BY Zenon DEF PcStep
<1>2. pc'[Main] \in MainPoints
  BY ProcessAssumption, Zenon DEF PcStep, IdInv, MainPoints
<1>3. \A u \in Thread \ {Main} : pc'[u] \notin {"boot", "loaded", "halt"}
  BY Zenon DEF PcStep, IdInv
<1> QED
  BY <1>1, <1>2, <1>3, Zenon DEF IdInv, TidsUnique, Issued

(* Such a step leaves the calls that other threads are in as they were.    *)
LEMMA StepKeepsCall ==
    ASSUME TypeInv, IdInv, CallInv, NEW t \in Thread, PcStep(t), ArgStep(t), StateStep(t),
           tid' = tid, next_tid' = next_tid, CallOK(t)'
    PROVE  CallInv'
<1> SUFFICES ASSUME NEW u \in Thread \ {t} PROVE CallOK(u)'
  BY Zenon DEF CallInv
<1>1. CallOK(u) /\ arg'[u] = arg[u]
  BY Zenon DEF CallInv, ArgStep
<1>2. pc'[u] \notin {"down"} => pc'[u] = pc[u]
  BY Zenon DEF PcStep
<1>3. tid[u] # tid[t]
  BY OwnTid, Zenon DEF PcStep
<1>4. (pc[u] = "tid" => arg[u] = next_tid /\ next_tid <= MaxTid)'
  BY <1>1, <1>2, Zenon DEF CallOK
<1>5. (pc[u] = "state" => /\ arg[u] \in Issued \ DOMAIN states
                          /\ \A v \in Thread \ {u} : pc[v] = "state" => arg[v] # arg[u])'
  <2> SUFFICES ASSUME pc'[u] = "state"
               PROVE  (/\ arg[u] \in Issued \ DOMAIN states
                       /\ \A v \in Thread \ {u} : pc[v] = "state" => arg[v] # arg[u])'
    BY Zenon
  <2>1. /\ arg[u] \in Issued \ DOMAIN states
        /\ \A v \in Thread \ {u} : pc[v] = "state" => arg[v] # arg[u]
    BY <1>1, <1>2, Zenon DEF CallOK
  <2>2. (arg[u] \in Issued \ DOMAIN states)'
    BY <1>1, <2>1, Zenon DEF Issued, StateStep
  <2>3. \A v \in Thread \ {u} : pc'[v] = "state" => arg'[v] # arg'[u]
    BY <1>1, <2>1, Zenon DEF PcStep, ArgStep
  <2> QED
    BY <2>2, <2>3, Zenon
<1>6. (pc[u] \in {"loaded", "reap"} \/ (pc[u] = "sema" /\ u = Main) =>
          arg[u] \in DOMAIN states /\ states[arg[u]].parent = tid[u])'
  BY <1>1, <1>2, <1>3, Zenon DEF CallOK, StateStep
<1>7. (pc[u] \in {"load", "exit_sema"} => \A k \in DOMAIN states : states[k].parent # tid[u])'
  <2> SUFFICES ASSUME pc'[u] \in {"load", "exit_sema"}, NEW k \in DOMAIN states'
               PROVE  states'[k].parent # tid[u]
    BY Zenon
  <2>1. pc[u] \in {"load", "exit_sema"}
    BY <1>2, Zenon
  <2>2. u # Main
    BY <2>1, Zenon DEF IdInv, MainPoints
  <2>3. tid[u] # MainTid
    BY <2>1, <2>2, OwnTid, Zenon
  <2> QED
    BY <1>1, <2>1, <2>3 DEF CallOK, StateStep
<1> QED
  BY <1>4, <1>5, <1>6, <1>7, Zenon DEF CallOK

(* Such a step leaves the exits of other threads as they were.             *)
LEMMA StepKeepsExit ==
    ASSUME TypeInv, IdInv, ExitInv, NEW t \in Thread, PcStep(t), ArgStep(t), StateStep(t),
           GaveStep(t), tid' = tid, next_tid' = next_tid, ExitOK(t)',
           \A k \in DOMAIN states' : StatusOK(k)'
    PROVE  ExitInv'
<1> SUFFICES ASSUME NEW u \in Thread \ {t} PROVE ExitOK(u)'
  BY Zenon DEF ExitInv
<1>1. ExitOK(u) /\ arg'[u] = arg[u]
  BY Zenon DEF ExitInv, ArgStep
<1>2. tid[u] # tid[t]
  BY OwnTid, Zenon DEF PcStep
<1>3. pc'[u] \in ExitPoints <=> pc[u] \in ExitPoints
  BY Zenon DEF PcStep, ExitPoints
<1>4. pc'[u] # "down" => pc'[u] = pc[u]
  BY Zenon DEF PcStep
<1>5. (tid[u] \in DOMAIN gave => pc[u] \in ExitPoints)'
  BY <1>1, <1>2, <1>3, Zenon DEF ExitOK, GaveStep
<1>6. (pc[u] \in {"exit_up", "exit_mark"} => tid[u] \in DOMAIN gave /\ gave[tid[u]] = arg[u])'
  BY <1>1, <1>4, Zenon DEF ExitOK, GaveStep
<1>7. (pc[u] = "exit_wake" =>
          /\ tid[u] \in DOMAIN states => states[tid[u]].exited
          /\ \A v \in Thread : pc[v] = "state" => arg[v] # tid[u])'
  <2> SUFFICES ASSUME pc'[u] = "exit_wake"
               PROVE  (/\ tid[u] \in DOMAIN states => states[tid[u]].exited
                       /\ \A v \in Thread : pc[v] = "state" => arg[v] # tid[u])'
    BY Zenon
  <2>1. /\ tid[u] \in DOMAIN states => states[tid[u]].exited
        /\ \A v \in Thread : pc[v] = "state" => arg[v] # tid[u]
    BY <1>1, <1>4, Zenon DEF ExitOK
  <2>2. \A v \in Thread : pc'[v] = "state" => arg'[v] # tid'[u]
    BY <2>1, Zenon DEF PcStep, ArgStep
  <2>3. tid'[u] \in DOMAIN states' => states'[tid'[u]].exited
    BY <2>1, Zenon DEF StateStep
  <2> QED
    BY <2>2, <2>3, Zenon
<1> QED
  BY <1>5, <1>6, <1>7, Zenon DEF ExitOK

(* Such a step leaves every entry with a parent that lives.                *)
LEMMA StepKeepsParents ==
    ASSUME TypeInv, IdInv, ParentsLive, NEW t \in Thread, PcStep(t), StateStep(t), tid' = tid
    PROVE  ParentsLive'
<1>1. \A u \in Thread : pc'[u] = "free" <=> pc[u] = "free"
  BY Zenon DEF PcStep
<1>2. pc'[Main] # "free" /\ tid'[Main] = MainTid
  BY <1>1, ProcessAssumption, Zenon DEF IdInv, MainPoints
<1> SUFFICES ASSUME NEW k \in DOMAIN states' PROVE Live(states[k].parent)'
  BY Zenon DEF ParentsLive
<1>3. CASE states'[k].parent = MainTid
  BY <1>2, <1>3, ProcessAssumption, Zenon DEF Live
<1>4. CASE states'[k].parent = states[k].parent
  BY <1>1, <1>4, ZenonT(40) DEF Live, ParentsLive, StateStep
<1> QED
  BY <1>3, <1>4, Zenon DEF StateStep

(* The four together.                                                      *)
LEMMA StepKeeps ==
    ASSUME TypeInv, Order, NEW t \in Thread, PcStep(t), ArgStep(t), StateStep(t), GaveStep(t),
           tid' = tid, next_tid' = next_tid, CallOK(t)', ExitOK(t)',
           \A k \in DOMAIN states' : StatusOK(k)'
    PROVE  Order'
BY StepKeepsId, StepKeepsCall, StepKeepsExit, StepKeepsParents, Zenon DEF Order

-----------------------------------------------------------------------------
(* A thread goes: it has no registered children, and its page is free.     *)
LEMMA DeathKeeps ==
    ASSUME TypeInv, Order, NEW t \in Thread \ {Main}, pc[t] # "free",
           \A k \in DOMAIN states : states[k].parent # tid[t],
           \A u \in Thread : pc'[u] = IF u = t THEN "free" ELSE pc[u],
           \A u \in Thread : tid'[u] = IF u = t THEN NoTid ELSE tid[u],
           ArgStep(t), DOMAIN states' = DOMAIN states,
           \A k \in DOMAIN states : /\ states'[k].parent = states[k].parent
                                    /\ states'[k].exited = states[k].exited
                                    /\ states'[k].status = states[k].status
                                    /\ states'[k].sema = states[k].sema,
           next_tid' = next_tid, gave' = gave
    PROVE  Order'
<1> USE DEF Order
<1>1. \A u \in Thread : tid[u] \in Nat
  BY DEF TypeInv
<1>2. IdInv'
  <2>1. Main # t /\ Main \in Thread
    BY ProcessAssumption, Zenon
  <2>2. \A u \in Thread : (tid[u] = NoTid)' <=> (pc[u] = "free")'
    BY DEF IdInv
  <2>3. \A u \in Thread \ {Main} : tid'[u] # NoTid => tid'[u] \in Issued'
    BY Zenon DEF IdInv, Issued
  <2>4. tid'[Main] = MainTid /\ pc'[Main] \in MainPoints
    BY <2>1, Zenon DEF IdInv
  <2>5. \A u \in Thread \ {Main} : pc'[u] \notin {"boot", "loaded", "halt"}
    BY Zenon DEF IdInv
  <2>6. TidsUnique'
    BY DEF IdInv, TidsUnique
  <2> QED
    BY <2>2, <2>3, <2>4, <2>5, <2>6, Zenon DEF IdInv
<1>3. CallInv'
  <2> SUFFICES ASSUME NEW u \in Thread PROVE CallOK(u)'
    BY Zenon DEF CallInv
  <2>1. CASE u = t
    BY <2>1, Zenon DEF CallOK
  <2>2. CASE u # t
    <3>1. CallOK(u) /\ arg'[u] = arg[u] /\ pc'[u] = pc[u] /\ tid'[u] = tid[u]
      BY <2>2, Zenon DEF CallInv, ArgStep
    <3>2. \A v \in Thread \ {u} : (pc[v] = "state")' => (pc[v] = "state") /\ arg'[v] = arg[v]
      BY Zenon DEF ArgStep
    <3> QED
      BY <3>1, <3>2, ZenonT(40) DEF CallOK, Issued
  <2> QED
    BY <2>1, <2>2, Zenon
<1>4. ExitInv'
  <2>1. ASSUME NEW u \in Thread PROVE ExitOK(u)'
    <3>1. CASE u = t
      <4>1. NoTid \notin DOMAIN gave
        BY DEF TypeInv, Issued, NoTid, FirstTid
      <4> QED
        BY <3>1, <4>1, Zenon DEF ExitOK
    <3>2. CASE u # t
      <4>1. ExitOK(u) /\ arg'[u] = arg[u] /\ pc'[u] = pc[u] /\ tid'[u] = tid[u]
        BY <3>2, Zenon DEF ExitInv, ArgStep
      <4>2. \A v \in Thread : (pc[v] = "state")' => (pc[v] = "state") /\ arg'[v] = arg[v]
        BY Zenon DEF ArgStep
      <4> QED
        BY <4>1, <4>2 DEF ExitOK
    <3> QED
      BY <3>1, <3>2, Zenon
  <2>2. ASSUME NEW k \in DOMAIN states' PROVE StatusOK(k)'
    BY Zenon DEF ExitInv, StatusOK
  <2> QED
    BY <2>1, <2>2, Zenon DEF ExitInv
<1>5. ParentsLive'
  <2> SUFFICES ASSUME NEW k \in DOMAIN states' PROVE Live(states[k].parent)'
    BY Zenon DEF ParentsLive
  <2>1. PICK u \in Thread : pc[u] # "free" /\ tid[u] = states[k].parent
    BY Zenon DEF ParentsLive, Live
  <2>2. u # t
    BY <2>1, Zenon
  <2> QED
    BY <2>1, <2>2, Zenon DEF Live
<1> QED
  BY <1>2, <1>3, <1>4, <1>5, Zenon

(* Every id that is in use is below NEXT_TID.                              *)
LEMMA BelowNext ==
    ASSUME TypeInv, IdInv, NEW u \in Thread
    PROVE  tid[u] \in Nat /\ tid[u] < next_tid
<1>1. tid[u] \in Nat /\ next_tid \in Nat /\ next_tid >= FirstTid
  BY ProcessAssumption DEF TypeInv, FirstTid
<1>2. tid[u] = NoTid \/ tid[u] = MainTid \/ tid[u] \in Issued
  BY Zenon DEF IdInv
<1> QED
  BY <1>1, <1>2 DEF Issued, NoTid, MainTid, FirstTid

(* thread::create: the child has the next id, and nothing is known of it.  *)
LEMMA CreateKeeps ==
    ASSUME "tid" \notin Windows, TypeInv, Order, NEW t \in Thread, NEW c \in Thread, Create(t, c)
    PROVE  Order'
<1> USE DEF Order
<1>1. /\ pc[t] = "tid" /\ pc[c] = "free" /\ c # t /\ c # Main
      /\ \A u \in Thread \ {t} : pc[u] # "tid"
  BY AtMeans, Zenon DEF Create, IdInv, MainPoints
<1>2. arg[t] = next_tid /\ next_tid \in Nat /\ next_tid >= FirstTid /\ next_tid <= MaxTid
  BY <1>1, ProcessAssumption DEF CallInv, CallOK, TypeInv, FirstTid
<1>3. PICK p \in {"load", "user"} : pc' = [pc EXCEPT ![t] = "state", ![c] = p]
  BY Zenon DEF Create
<1>4. /\ \A u \in Thread : pc'[u] = IF u = c THEN p ELSE IF u = t THEN "state" ELSE pc[u]
      /\ \A u \in Thread : tid'[u] = IF u = c THEN next_tid ELSE tid[u]
  BY <1>1, <1>2, <1>3, Zenon DEF Create, TypeInv
<1>5. arg' = arg /\ states' = states /\ gave' = gave /\ next_tid' = next_tid + 1
  BY <1>2, Zenon DEF Create, registry
<1>6. Issued' = Issued \cup {next_tid} /\ next_tid \notin Issued
  BY <1>2, <1>5 DEF Issued, FirstTid
<1>7. \A u \in Thread : tid[u] \in Nat /\ tid[u] < next_tid
  BY BelowNext, Zenon
<1>8. \A k \in DOMAIN states : \E u \in Thread : pc[u] # "free" /\ tid[u] = states[k].parent
  BY Zenon DEF ParentsLive, Live
<1>9. next_tid \notin DOMAIN states /\ next_tid \notin DOMAIN gave
  BY <1>6, Zenon DEF TypeInv
<1>10. IdInv'
  <2>1. \A u \in Thread : (tid[u] = NoTid)' <=> (pc[u] = "free")'
    <3>1. next_tid # NoTid
      BY <1>2 DEF NoTid, FirstTid
    <3> QED
      BY <1>1, <1>4, <3>1, Zenon DEF IdInv
  <2>2. \A u \in Thread \ {Main} : tid'[u] # NoTid => tid'[u] \in Issued'
    BY <1>4, <1>6, Zenon DEF IdInv
  <2>3. tid'[Main] = MainTid /\ pc'[Main] \in MainPoints
    BY <1>1, <1>4, ProcessAssumption, Zenon DEF IdInv, MainPoints
  <2>4. \A u \in Thread \ {Main} : pc'[u] \notin {"boot", "loaded", "halt"}
    BY <1>4, Zenon DEF IdInv
  <2>5. TidsUnique'
    BY <1>4, <1>7 DEF IdInv, TidsUnique
  <2> QED
    BY <2>1, <2>2, <2>3, <2>4, <2>5, Zenon DEF IdInv
<1>11. CallInv'
  <2> SUFFICES ASSUME NEW u \in Thread PROVE CallOK(u)'
    BY Zenon DEF CallInv
  <2>1. CASE u = t
    <3>1. \A v \in Thread \ {t} : (pc[v] = "state")' => arg'[v] # arg'[t]
      BY <1>2, <1>4, <1>5, <1>6, Zenon DEF CallInv, CallOK
    <3> QED
      BY <1>1, <1>2, <1>4, <1>5, <1>6, <1>9, <2>1, <3>1, Zenon DEF CallOK
  <2>2. CASE u = c
    <3>1. \A k \in DOMAIN states : states[k].parent # next_tid
      BY <1>7, <1>8
    <3> QED
      BY <1>4, <1>5, <2>2, <3>1, Zenon DEF CallOK
  <2>3. CASE u # t /\ u # c
    <3>1. CallOK(u) /\ pc'[u] = pc[u] /\ tid'[u] = tid[u] /\ pc[u] # "tid"
      BY <1>1, <1>4, <2>3, Zenon DEF CallInv
    <3>2. pc[u] = "state" => \A v \in Thread \ {u} : (pc[v] = "state")' => arg'[v] # arg'[u]
      BY <1>2, <1>4, <1>5, <1>6, <3>1, Zenon DEF CallOK
    <3> QED
      BY <1>5, <1>6, <3>1, <3>2, Zenon DEF CallOK
  <2> QED
    BY <2>1, <2>2, <2>3, Zenon
<1>12. ExitInv'
  <2>1. ASSUME NEW u \in Thread PROVE ExitOK(u)'
    <3>1. CASE u = c
      BY <1>4, <1>5, <1>9, <3>1, Zenon DEF ExitOK
    <3>2. CASE u = t
      BY <1>1, <1>4, <1>5, <3>2, Zenon DEF ExitInv, ExitOK, ExitPoints
    <3>3. CASE u # c /\ u # t
      <4>1. ExitOK(u) /\ pc'[u] = pc[u] /\ tid'[u] = tid[u]
        BY <1>4, <3>3, Zenon DEF ExitInv
      <4>2. pc[u] = "exit_wake" => \A v \in Thread : (pc[v] = "state")' => arg'[v] # tid[u]
        BY <1>2, <1>4, <1>5, <1>7, <4>1 DEF ExitOK
      <4> QED
        BY <1>5, <4>1, <4>2, Zenon DEF ExitOK
    <3> QED
      BY <3>1, <3>2, <3>3, Zenon
  <2>2. ASSUME NEW k \in DOMAIN states' PROVE StatusOK(k)'
    BY <1>5, Zenon DEF ExitInv, StatusOK
  <2> QED
    BY <2>1, <2>2, Zenon DEF ExitInv
<1>13. ParentsLive'
  <2> SUFFICES ASSUME NEW k \in DOMAIN states' PROVE Live(states[k].parent)'
    BY Zenon DEF ParentsLive
  <2>1. PICK u \in Thread : pc[u] # "free" /\ tid[u] = states[k].parent
    BY <1>5, <1>8, Zenon
  <2>2. u # c /\ pc'[u] # "free" /\ tid'[u] = tid[u]
    BY <1>1, <1>4, <2>1, Zenon
  <2> QED
    BY <1>5, <2>1, <2>2, Zenon DEF Live
<1> QED
  BY <1>10, <1>11, <1>12, <1>13, Zenon

(* The insertion of the ProcessState: no entry for the child was there,    *)
(* and the child has not marked one.                                       *)
LEMMA InsertStateKeeps ==
    ASSUME TypeInv, Order, NEW t \in Thread, InsertState(t)
    PROVE  Order'
<1> USE DEF Order
<1>1. pc[t] = "state" /\ pc[t] # "free"
  BY Zenon DEF InsertState, At
<1>2. /\ arg[t] \in Issued \ DOMAIN states
      /\ \A u \in Thread \ {t} : pc[u] = "state" => arg[u] # arg[t]
  BY <1>1, Zenon DEF CallInv, CallOK
<1>3. /\ \A u \in Thread : pc'[u] = IF u = t THEN "sema" ELSE pc[u]
      /\ tid' = tid /\ arg' = arg /\ next_tid' = next_tid /\ gave' = gave
  BY Zenon DEF InsertState, Goto, locals, TypeInv
<1>4. /\ DOMAIN states' = DOMAIN states \cup {arg[t]}
      /\ \A k \in DOMAIN states : states'[k] = states[k]
      /\ states'[arg[t]].parent = tid[t]
      /\ ~states'[arg[t]].exited /\ states'[arg[t]].sema = 0
  BY <1>2, Zenon DEF InsertState
<1>5. \A u \in Thread \ {t} : tid[u] # tid[t]
  BY <1>1, OwnTid, Zenon
<1>6. IdInv'
  BY <1>1, <1>3, StepKeepsId, Zenon DEF PcStep, MainPoints
<1>7. CallInv'
  <2> SUFFICES ASSUME NEW u \in Thread PROVE CallOK(u)'
    BY Zenon DEF CallInv
  <2>1. CASE u = t
    BY <1>3, <1>4, <2>1, Zenon DEF CallOK
  <2>2. CASE u # t
    <3>1. CallOK(u) /\ pc'[u] = pc[u] /\ Issued' = Issued
      BY <1>3, <2>2, Zenon DEF CallInv, Issued
    <3>2. \A v \in Thread \ {u} : (pc[v] = "state")' => pc[v] = "state"
      BY <1>3, Zenon
    <3> QED
      BY <1>2, <1>3, <1>4, <1>5, <2>2, <3>1, <3>2, Zenon DEF CallOK
  <2> QED
    BY <2>1, <2>2, Zenon
<1>8. ExitInv'
  <2>1. ASSUME NEW u \in Thread PROVE ExitOK(u)'
    <3>1. ExitOK(u)
      BY Zenon DEF ExitInv
    <3>2. \A v \in Thread : (pc[v] = "state")' => pc[v] = "state"
      BY <1>3, Zenon
    <3> QED
      BY <1>1, <1>2, <1>3, <1>4, <3>1, <3>2, Zenon DEF ExitOK, ExitPoints
  <2>2. ASSUME NEW k \in DOMAIN states' PROVE StatusOK(k)'
    <3>1. CASE k = arg[t]
      BY <1>4, <3>1 DEF StatusOK
    <3>2. CASE k # arg[t]
      BY <1>3, <1>4, <3>2, Zenon DEF ExitInv, StatusOK
    <3> QED
      BY <3>1, <3>2, Zenon
  <2> QED
    BY <2>1, <2>2, Zenon DEF ExitInv
<1>9. ParentsLive'
  <2> SUFFICES ASSUME NEW k \in DOMAIN states' PROVE Live(states[k].parent)'
    BY Zenon DEF ParentsLive
  <2>1. PICK u \in Thread : pc[u] # "free" /\ tid[u] = states'[k].parent
    BY <1>1, <1>4, Zenon DEF ParentsLive, Live
  <2> QED
    BY <1>3, <2>1, Zenon DEF Live
<1> QED
  BY <1>6, <1>7, <1>8, <1>9, Zenon

-----------------------------------------------------------------------------
(* Changes of one entry of PROCESS_STATES                                  *)

(* One entry of the registry is replaced.                                  *)
LEMMA StateSet ==
    ASSUME TypeInv, NEW k \in DOMAIN states, NEW r \in PState, states' = [states EXCEPT ![k] = r]
    PROVE  /\ states' \in [DOMAIN states' -> PState] /\ DOMAIN states' = DOMAIN states
           /\ states'[k] = r /\ \A j \in DOMAIN states \ {k} : states'[j] = states[j]
BY Zenon DEF TypeInv

(* One entry of the registry is removed.                                   *)
LEMMA StateDropped ==
    ASSUME TypeInv, NEW k, states' = Restrict(states, DOMAIN states \ {k})
    PROVE  /\ states' \in [DOMAIN states' -> PState] /\ DOMAIN states' = DOMAIN states \ {k}
           /\ \A j \in DOMAIN states \ {k} : states'[j] = states[j]
BY Zenon DEF TypeInv, Restrict

(* Nothing of a state that others rely on has changed.                     *)
Quiet ==
    /\ DOMAIN states' = DOMAIN states
    /\ \A k \in DOMAIN states : /\ states'[k].parent = states[k].parent
                                /\ states'[k].exited = states[k].exited
                                /\ states'[k].status = states[k].status
                                /\ states'[k].sema = states[k].sema

(* A step that leaves the registry as it was.                              *)
LEMMA QuietStep ==
    ASSUME ExitInv, NEW t \in Thread, Quiet, gave' = gave
    PROVE  StateStep(t) /\ GaveStep(t) /\ \A k \in DOMAIN states' : StatusOK(k)'
<1>1. StateStep(t) /\ GaveStep(t)
  BY Zenon DEF StateStep, GaveStep, Quiet
<1>2. ASSUME NEW k \in DOMAIN states' PROVE StatusOK(k)'
  BY Zenon DEF Quiet, ExitInv, StatusOK
<1> QED
  BY <1>1, <1>2, Zenon

(* A step of t that changes no state in a way that matters, and no id.     *)
LEMMA QuietKeeps ==
    ASSUME TypeInv, Order, NEW t \in Thread, PcStep(t), ArgStep(t), Quiet, gave' = gave,
           tid' = tid, next_tid' = next_tid, CallOK(t)',
           pc'[t] \notin ExitPoints, pc[t] \notin ExitPoints
    PROVE  Order'
<1>1. StateStep(t) /\ GaveStep(t) /\ \A k \in DOMAIN states' : StatusOK(k)'
  BY QuietStep, Zenon DEF Order
<1>2. ExitOK(t)'
  BY Zenon DEF Order, ExitInv, ExitOK, ExitPoints
<1> QED
  BY <1>1, <1>2, StepKeeps, Zenon

-----------------------------------------------------------------------------
(* fork and execute                                                        *)

(* allocate_tid reads NEXT_TID.                                            *)
LEMMA ReadTidKeeps ==
    ASSUME TypeInv, Order, NEW t \in Thread, ReadTid(t)
    PROVE  TypeInv' /\ Order'
<1>1. pc[t] \in {"user", "boot"} /\ pc' = [pc EXCEPT ![t] = "tid"] /\ next_tid <= MaxTid
  BY Zenon DEF ReadTid, At, Goto
<1>2. /\ arg' = [arg EXCEPT ![t] = next_tid] /\ ret' = [ret EXCEPT ![t] = <<>>]
      /\ UNCHANGED <<tid, slot, next_tid, states, gave, node, len>>
  BY Zenon DEF ReadTid, registry, semas
<1>3. TypeInv'
  <2>1. next_tid \in Word /\ <<>> \in {<<>>} \cup (Word \X Word) /\ "tid" \in PCs
    BY WordHas DEF TypeInv, PCs
  <2> QED
    BY <1>1, <1>2, <2>1, Zenon DEF TypeInv, Issued
<1>4. pc'[t] = "tid" /\ arg'[t] = next_tid /\ PcStep(t) /\ ArgStep(t)
  BY <1>1, <1>2, Zenon DEF TypeInv, PcStep, ArgStep, MainPoints
<1>5. CallOK(t)'
  BY <1>1, <1>2, <1>4, Zenon DEF CallOK
<1>6. Quiet
  BY <1>2, Zenon DEF Quiet
<1> QED
  BY <1>1, <1>2, <1>3, <1>4, <1>5, <1>6, QuietKeeps, Zenon DEF ExitPoints

(* thread::create makes a thread.                                          *)
LEMMA CreateType ==
    ASSUME "tid" \notin Windows, TypeInv, Order, NEW t \in Thread, NEW c \in Thread, Create(t, c)
    PROVE  TypeInv'
<1>1. pc[t] = "tid"
  BY Zenon DEF Create, At
<1>2. arg[t] = next_tid /\ next_tid \in FirstTid..MaxTid
  BY <1>1, ProcessAssumption DEF Order, CallInv, CallOK, TypeInv, FirstTid
<1>3. pc' \in [Thread -> PCs]
  BY Zenon DEF Create, TypeInv, PCs
<1>4. tid' \in [Thread -> 0..MaxTid]
  BY <1>2 DEF Create, TypeInv, FirstTid
<1>5. next_tid' = next_tid + 1 /\ UNCHANGED <<arg, slot, ret, states, gave, node, len>>
  BY <1>2, Zenon DEF Create, registry, semas
<1>6. next_tid' \in FirstTid..(MaxTid + 1) /\ Issued \subseteq Issued'
  BY <1>2, <1>5, ProcessAssumption DEF FirstTid, Issued
<1> QED
  BY <1>3, <1>4, <1>5, <1>6, Zenon DEF TypeInv

(* fork and execute register the child.                                    *)
LEMMA InsertStateType ==
    ASSUME TypeInv, Order, NEW t \in Thread, InsertState(t)
    PROVE  TypeInv'
<1>1. PICK r : r = [parent |-> tid[t], status |-> -1, exited |-> FALSE,
                    waited |-> FALSE, sema |-> 0,
                    load |-> IF t = Main THEN 0 ELSE 1, success |-> t # Main]
  BY Zenon
<1>2. tid[t] \in Int /\ -1 \in Word
  BY WordHas DEF TypeInv
<1>3. r \in PState
  BY <1>1, <1>2 DEF PState
<1>4. states' = [k \in DOMAIN states \cup {arg[t]} |-> IF k # arg[t] THEN states[k] ELSE r]
  BY <1>1, Zenon DEF InsertState
<1>5. arg[t] \in Issued
  BY Zenon DEF Order, CallInv, CallOK, InsertState, At
<1>6. states' \in [DOMAIN states' -> PState] /\ DOMAIN states' \subseteq Issued
  BY <1>3, <1>4, <1>5, Zenon DEF TypeInv
<1> QED
  BY <1>6, Zenon DEF TypeInv, InsertState, Goto, semas, locals, Issued, PCs

(* start_process signals how the load ended.                               *)
LEMMA LoadKeeps ==
    ASSUME TypeInv, Order, NEW t \in Thread, Load(t)
    PROVE  TypeInv' /\ Order'
<1>1. PICK ok \in BOOLEAN :
         /\ Goto(t, IF ok THEN "user" ELSE "free")
         /\ tid' = IF ok THEN tid ELSE [tid EXCEPT ![t] = NoTid]
         /\ states' = IF tid[t] \notin DOMAIN states THEN states
                      ELSE [states EXCEPT ![tid[t]].success = ok, ![tid[t]].load = @ + 1]
  BY Zenon DEF Load
<1>2. pc[t] = "load" /\ t # Main
  BY Zenon DEF Load, At, Order, IdInv, MainPoints
<1>3. UNCHANGED <<arg, slot, ret, next_tid, gave, node, len>>
  BY Zenon DEF Load, semas
<1>4. Quiet /\ states' \in [DOMAIN states' -> PState]
  <2>1. CASE tid[t] \notin DOMAIN states
    BY <1>1, <2>1, Zenon DEF Quiet, TypeInv
  <2>2. CASE tid[t] \in DOMAIN states
    <3>1. PICK r : r = [states[tid[t]] EXCEPT !.success = ok, !.load = @ + 1]
      BY Zenon
    <3>2. states[tid[t]] \in PState
      BY <2>2, Zenon DEF TypeInv
    <3>3. /\ r.parent = states[tid[t]].parent /\ r.exited = states[tid[t]].exited
          /\ r.status = states[tid[t]].status /\ r.sema = states[tid[t]].sema
      BY <3>1, <3>2, Zenon DEF PState
    <3>4. states[tid[t]].load + 1 \in Int
      BY <3>2 DEF PState
    <3>5. r \in PState
      BY <3>1, <3>2, <3>4, Zenon DEF PState
    <3>6. states' = [states EXCEPT ![tid[t]] = r]
      BY <1>1, <2>2, <3>1, Zenon
    <3> QED
      BY <2>2, <3>3, <3>5, <3>6, StateSet, Zenon DEF Quiet
  <2> QED
    BY <2>1, <2>2, Zenon
<1>5. pc' \in [Thread -> PCs] /\ tid' \in [Thread -> 0..MaxTid]
  BY <1>1, ProcessAssumption DEF Goto, TypeInv, PCs, NoTid, FirstTid
<1>6. TypeInv'
  BY <1>3, <1>4, <1>5, Zenon DEF TypeInv, Issued, Quiet
<1>7. ArgStep(t)
  BY <1>3, Zenon DEF ArgStep
<1>8. CASE ok
  <2>1. pc'[t] = "user" /\ PcStep(t) /\ tid' = tid
    BY <1>1, <1>2, <1>8, Zenon DEF Goto, TypeInv, PcStep
  <2>2. CallOK(t)'
    BY <2>1, Zenon DEF CallOK
  <2> QED
    BY <1>2, <1>3, <1>4, <1>6, <1>7, <2>1, <2>2, QuietKeeps, Zenon DEF ExitPoints
<1>9. CASE ~ok
  <2>1. /\ \A u \in Thread : pc'[u] = IF u = t THEN "free" ELSE pc[u]
        /\ \A u \in Thread : tid'[u] = IF u = t THEN NoTid ELSE tid[u]
    BY <1>1, <1>9, Zenon DEF Goto, TypeInv
  <2>2. \A k \in DOMAIN states : states[k].parent # tid[t]
    BY <1>2, Zenon DEF Order, CallInv, CallOK
  <2> QED
    BY <1>2, <1>3, <1>4, <1>6, <1>7, <2>1, <2>2, DeathKeeps, Zenon DEF Quiet
<1> QED
  BY <1>8, <1>9, Zenon

(* execute learns how the load ended.                                      *)
LEMMA LoadedKeeps ==
    ASSUME TypeInv, Order, NEW t \in Thread, Loaded(t)
    PROVE  TypeInv' /\ Order'
<1>1. pc[t] = "loaded" /\ t = Main /\ UNCHANGED <<tid, arg, slot, ret, next_tid, gave, node, len>>
  BY Zenon DEF Loaded, At, Order, IdInv, locals, semas
<1>2. arg[t] \in DOMAIN states /\ states[arg[t]].parent = tid[t] /\ states[arg[t]] \in PState
  BY <1>1, Zenon DEF Order, CallInv, CallOK, TypeInv
<1>3. ArgStep(t) /\ GaveStep(t)
  BY <1>1, Zenon DEF ArgStep, GaveStep
<1>4. CASE states' = Restrict(states, DOMAIN states \ {arg[t]}) /\ Goto(t, "halt")
  <2>1. /\ states' \in [DOMAIN states' -> PState] /\ DOMAIN states' = DOMAIN states \ {arg[t]}
        /\ \A j \in DOMAIN states \ {arg[t]} : states'[j] = states[j]
    BY <1>4, StateDropped, Zenon
  <2>2. pc' \in [Thread -> PCs] /\ pc'[t] = "halt" /\ \A u \in Thread \ {t} : pc'[u] = pc[u]
    BY <1>4, Zenon DEF Goto, TypeInv, PCs
  <2>3. TypeInv'
    BY <1>1, <2>1, <2>2, Zenon DEF TypeInv, Issued
  <2>4. PcStep(t)
    BY <1>1, <2>2, Zenon DEF PcStep, MainPoints
  <2>5. StateStep(t)
    <3>1. \A u \in Thread \ {t} : tid[u] # tid[t]
      BY <1>1, OwnTid, Zenon DEF Order
    <3> QED
      BY <1>2, <2>1, <3>1, Zenon DEF StateStep
  <2>6. CallOK(t)' /\ ExitOK(t)'
    BY <1>1, <2>2, Zenon DEF CallOK, ExitOK, Order, ExitInv, ExitPoints
  <2>7. ASSUME NEW k \in DOMAIN states' PROVE StatusOK(k)'
    BY <1>1, <2>1, Zenon DEF StatusOK, Order, ExitInv
  <2> QED
    BY <1>1, <1>3, <2>3, <2>4, <2>5, <2>6, <2>7, StepKeeps, Zenon
<1>5. CASE /\ states' = [states EXCEPT ![arg[t]].waited = TRUE, ![arg[t]].load = @ - 1]
           /\ Goto(t, "reap")
  <2>1. PICK r : r = [states[arg[t]] EXCEPT !.waited = TRUE, !.load = @ - 1]
    BY Zenon
  <2>2. states[arg[t]].load - 1 \in Int
    BY <1>2 DEF PState
  <2>3. /\ r.parent = states[arg[t]].parent /\ r.exited = states[arg[t]].exited
        /\ r.status = states[arg[t]].status /\ r.sema = states[arg[t]].sema
    BY <1>2, <2>1, Zenon DEF PState
  <2>4. r \in PState
    BY <1>2, <2>1, <2>2, Zenon DEF PState
  <2>5. states' = [states EXCEPT ![arg[t]] = r]
    BY <1>2, <1>5, <2>1, Zenon
  <2>6. Quiet /\ states' \in [DOMAIN states' -> PState]
    BY <1>2, <2>3, <2>4, <2>5, StateSet, Zenon DEF Quiet
  <2>7. pc' \in [Thread -> PCs] /\ pc'[t] = "reap" /\ \A u \in Thread \ {t} : pc'[u] = pc[u]
    BY <1>5, Zenon DEF Goto, TypeInv, PCs
  <2>8. TypeInv'
    BY <1>1, <2>6, <2>7, Zenon DEF TypeInv, Issued, Quiet
  <2>9. PcStep(t)
    BY <1>1, <2>7, Zenon DEF PcStep, MainPoints
  <2>10. CallOK(t)'
    BY <1>1, <1>2, <2>6, <2>7, Zenon DEF CallOK, Quiet
  <2> QED
    BY <1>1, <1>3, <2>6, <2>7, <2>8, <2>9, <2>10, QuietKeeps, Zenon DEF ExitPoints
<1> QED
  BY <1>4, <1>5, Zenon DEF Loaded

(* EnsureSema and the other operations on the wait semaphores are about    *)
(* node and len alone.                                                     *)
SemaType == node' \in [Slot -> Sema] /\ len' \in 0..MaxTid

(* fork and execute make the wait semaphore of the caller.                 *)
LEMMA ReturnForkKeeps ==
    ASSUME TypeInv, Order, NEW t \in Thread, ReturnFork(t), SemaType
    PROVE  TypeInv' /\ Order'
<1>1. /\ pc[t] = "sema" /\ UNCHANGED <<tid, slot, ret, next_tid, states, gave>>
      /\ arg' = IF t = Main THEN arg ELSE [arg EXCEPT ![t] = NoTid]
      /\ Goto(t, IF t = Main THEN "loaded" ELSE "user")
  BY Zenon DEF ReturnFork, At, registry
<1>2. NoTid \in Word
  BY WordHas DEF NoTid
<1>3. /\ arg' \in [Thread -> Word] /\ ArgStep(t) /\ (t = Main => arg'[t] = arg[t])
      /\ pc' \in [Thread -> PCs] /\ pc'[t] = IF t = Main THEN "loaded" ELSE "user"
      /\ \A u \in Thread \ {t} : pc'[u] = pc[u]
  BY <1>1, <1>2, Zenon DEF Goto, TypeInv, PCs, ArgStep
<1>4. TypeInv'
  BY <1>1, <1>3, Zenon DEF TypeInv, Issued, SemaType
<1>5. PcStep(t)
  BY <1>1, <1>3, Zenon DEF PcStep, MainPoints
<1>6. CallOK(t)'
  BY <1>1, <1>3, Zenon DEF Order, CallInv, CallOK
<1>7. Quiet
  BY <1>1, Zenon DEF Quiet
<1> QED
  BY <1>1, <1>3, <1>4, <1>5, <1>6, <1>7, QuietKeeps, Zenon DEF ExitPoints

-----------------------------------------------------------------------------
(* wait                                                                    *)

(* wait makes the wait semaphore of the caller.                            *)
LEMMA WaitKeeps ==
    ASSUME TypeInv, Order, NEW t \in Thread, Wait(t), SemaType
    PROVE  TypeInv' /\ Order'
<1>1. /\ pc[t] = "user" /\ t # Main /\ UNCHANGED <<tid, arg, slot, next_tid, states, gave>>
      /\ ret' = [ret EXCEPT ![t] = <<>>] /\ Goto(t, "scan")
  BY Zenon DEF Wait, At, registry, Order, IdInv, MainPoints
<1>2. /\ pc' \in [Thread -> PCs] /\ pc'[t] = "scan" /\ \A u \in Thread \ {t} : pc'[u] = pc[u]
      /\ ret' \in [Thread -> {<<>>} \cup (Word \X Word)]
  BY <1>1, Zenon DEF Goto, TypeInv, PCs
<1>3. TypeInv'
  BY <1>1, <1>2, Zenon DEF TypeInv, Issued, SemaType
<1>4. PcStep(t) /\ ArgStep(t) /\ CallOK(t)' /\ Quiet
  BY <1>1, <1>2, Zenon DEF PcStep, ArgStep, CallOK, Quiet
<1> QED
  BY <1>1, <1>2, <1>3, <1>4, QuietKeeps, Zenon DEF ExitPoints

(* What holds of positions and of sets of them: the facts about finite     *)
(* sets that the steps below count with. The theorems that give them       *)
(* (Counts, at the end) speak of their own copy of Cardinality; SizeOf is  *)
(* what both are defined to be.                                            *)
SizeOf(S) ==
    LET CS[T \in SUBSET S] == IF T = {} THEN 0 ELSE 1 + CS[T \ {CHOOSE x : x \in T}] IN CS[S]
Counting ==
    /\ \A T \in SUBSET Nat : T # {} => \E x \in T : \A y \in T : x <= y
    /\ \A n \in Nat : \A S \in SUBSET (1..n) : SizeOf(S) \in 0..n
    /\ \A n \in Nat : \A f \in [1..n -> 1..MaxTid] :
           (\A x, y \in 1..n : x # y => f[x] # f[y]) => n <= MaxTid

(* The number of elements is the size.                                     *)
LEMMA CardinalityIs ==
    ASSUME NEW S
    PROVE  Cardinality(S) = SizeOf(S)
BY DEF Cardinality, SizeOf

(* The least of a set of ids is one of them.                               *)
LEMMA LeastOf ==
    ASSUME Counting, TypeInv, NEW S \in SUBSET DOMAIN states, S # {}
    PROVE  Min(S) \in S
<1>1. S \subseteq Nat
  BY DEF TypeInv, Issued, FirstTid
<1>2. \E x \in S : \A y \in S : x <= y
  BY <1>1, Zenon DEF Counting
<1> QED
  BY <1>2, Zenon DEF Min

(* One turn of the loop of wait_any_child.                                 *)
LEMMA ScanKeeps ==
    ASSUME Counting, TypeInv, Order, NEW t \in Thread, Scan(t),
           slot' \in [Thread -> Slot]
    PROVE  TypeInv' /\ Order'
<1>1. pc[t] = "scan" /\ t # Main /\ UNCHANGED <<tid, next_tid, gave, node, len>>
  BY Zenon DEF Scan, At, semas, Order, IdInv, MainPoints
<1>2. CASE /\ Candidates(t) # {}
           /\ arg' = [arg EXCEPT ![t] = Min(Candidates(t))]
           /\ states' = [states EXCEPT ![Min(Candidates(t))].waited = TRUE]
           /\ Goto(t, "reap")
           /\ UNCHANGED <<slot, ret>>
  <2>1. PICK k : k = Min(Candidates(t))
    BY Zenon
  <2>2. k \in DOMAIN states /\ states[k].parent = tid[t]
    <3>1. k \in Candidates(t)
      BY <1>2, <2>1, LeastOf, Zenon DEF Candidates
    <3> QED
      BY <3>1, Zenon DEF Candidates
  <2>3. states[k] \in PState /\ k \in Word
    BY <2>2, WordHas DEF TypeInv, Issued
  <2>4. PICK r : r = [states[k] EXCEPT !.waited = TRUE]
    BY Zenon
  <2>5. /\ r \in PState /\ r.parent = states[k].parent /\ r.exited = states[k].exited
        /\ r.status = states[k].status /\ r.sema = states[k].sema
    BY <2>3, <2>4, Zenon DEF PState
  <2>6. states' = [states EXCEPT ![k] = r]
    BY <1>2, <2>1, <2>2, <2>4, Zenon
  <2>7. Quiet /\ states' \in [DOMAIN states' -> PState]
    BY <2>2, <2>5, <2>6, StateSet, Zenon DEF Quiet
  <2>8. /\ pc' \in [Thread -> PCs] /\ pc'[t] = "reap" /\ \A u \in Thread \ {t} : pc'[u] = pc[u]
        /\ arg' \in [Thread -> Word] /\ arg'[t] = k /\ ArgStep(t)
    BY <1>2, <2>1, <2>3, Zenon DEF Goto, TypeInv, PCs, ArgStep
  <2>9. TypeInv'
    BY <1>1, <1>2, <2>7, <2>8, Zenon DEF TypeInv, Issued, Quiet
  <2>10. PcStep(t)
    BY <1>1, <2>8, Zenon DEF PcStep
  <2>11. CallOK(t)'
    BY <1>1, <2>2, <2>7, <2>8, Zenon DEF CallOK, Quiet
  <2> QED
    BY <1>1, <2>7, <2>8, <2>9, <2>10, <2>11, QuietKeeps, Zenon DEF ExitPoints
<1>3. CASE /\ ret' = [ret EXCEPT ![t] = <<-1, -1>>] /\ Goto(t, "user")
           /\ UNCHANGED <<arg, slot, states>>
  <2>1. /\ pc' \in [Thread -> PCs] /\ pc'[t] = "user" /\ \A u \in Thread \ {t} : pc'[u] = pc[u]
    BY <1>3, Zenon DEF Goto, TypeInv, PCs
  <2>2. ret' \in [Thread -> {<<>>} \cup (Word \X Word)]
    BY <1>3, WordHas DEF TypeInv
  <2>3. TypeInv'
    BY <1>1, <1>3, <2>1, <2>2, Zenon DEF TypeInv, Issued
  <2>4. PcStep(t) /\ ArgStep(t) /\ CallOK(t)' /\ Quiet
    BY <1>1, <1>3, <2>1, Zenon DEF PcStep, ArgStep, CallOK, Quiet
  <2> QED
    BY <1>1, <2>1, <2>3, <2>4, QuietKeeps, Zenon DEF ExitPoints
<1>4. CASE Goto(t, "down") /\ UNCHANGED <<arg, ret, states>>
  <2>1. /\ pc' \in [Thread -> PCs] /\ pc'[t] = "down" /\ \A u \in Thread \ {t} : pc'[u] = pc[u]
    BY <1>4, Zenon DEF Goto, TypeInv, PCs
  <2>2. TypeInv'
    BY <1>1, <1>4, <2>1, Zenon DEF TypeInv, Issued
  <2>3. PcStep(t) /\ ArgStep(t) /\ CallOK(t)' /\ Quiet
    BY <1>1, <1>4, <2>1, Zenon DEF PcStep, ArgStep, CallOK, Quiet
  <2> QED
    BY <1>1, <2>1, <2>2, <2>3, QuietKeeps, Zenon DEF ExitPoints
<1> QED
  BY <1>2, <1>3, <1>4, Zenon DEF Scan

(* The down of the loop of wait_any_child.                                 *)
LEMMA DownKeeps ==
    ASSUME TypeInv, Order, NEW t \in Thread, Down(t), SemaType
    PROVE  TypeInv' /\ Order'
<1>1. pc[t] = "down" /\ t # Main /\ UNCHANGED <<tid, arg, ret, next_tid, states, gave>>
  BY Zenon DEF Down, At, registry, Order, IdInv, MainPoints
<1>2. PICK p \in {"scan", "asleep"} : Goto(t, p)
  BY Zenon DEF Down
<1>3. slot' \in [Thread -> Slot]
  <2>1. 1 \in Slot
    BY ProcessAssumption DEF Slot, FirstTid
  <2> QED
    BY <2>1, Zenon DEF Down, TypeInv
<1>4. pc' \in [Thread -> PCs] /\ pc'[t] = p /\ \A u \in Thread \ {t} : pc'[u] = pc[u]
  BY <1>2, Zenon DEF Goto, TypeInv, PCs
<1>5. TypeInv'
  BY <1>1, <1>3, <1>4, Zenon DEF TypeInv, Issued, SemaType
<1>6. PcStep(t) /\ ArgStep(t) /\ CallOK(t)' /\ Quiet
  BY <1>1, <1>4, Zenon DEF PcStep, ArgStep, CallOK, Quiet
<1> QED
  BY <1>1, <1>4, <1>5, <1>6, QuietKeeps, Zenon DEF ExitPoints

(* wait removes the entry of the child.                                    *)
LEMMA ReapKeeps ==
    ASSUME TypeInv, Order, NEW t \in Thread, Reap(t)
    PROVE  TypeInv' /\ Order'
<1>1. /\ pc[t] = "reap" /\ UNCHANGED <<tid, slot, next_tid, gave, node, len>>
      /\ arg[t] \in DOMAIN states /\ states' = Restrict(states, DOMAIN states \ {arg[t]})
      /\ arg' = [arg EXCEPT ![t] = NoTid] /\ Goto(t, IF t = Main THEN "halt" ELSE "user")
  BY Zenon DEF Reap, At, semas
<1>2. states[arg[t]].parent = tid[t] /\ states[arg[t]] \in PState
  BY <1>1, Zenon DEF Order, CallInv, CallOK, TypeInv
<1>3. states[arg[t]].status \in Word /\ arg[t] \in Word /\ NoTid \in Word
  BY <1>2, WordHas DEF PState, TypeInv, NoTid
<1>4. ret' \in [Thread -> {<<>>} \cup (Word \X Word)]
  BY <1>3, Zenon DEF Reap, TypeInv
<1>5. /\ states' \in [DOMAIN states' -> PState] /\ DOMAIN states' = DOMAIN states \ {arg[t]}
      /\ \A j \in DOMAIN states \ {arg[t]} : states'[j] = states[j]
  BY <1>1, StateDropped, Zenon
<1>6. /\ pc' \in [Thread -> PCs] /\ pc'[t] = IF t = Main THEN "halt" ELSE "user"
      /\ \A u \in Thread \ {t} : pc'[u] = pc[u]
      /\ arg' \in [Thread -> Word] /\ ArgStep(t) /\ GaveStep(t)
  BY <1>1, <1>3, Zenon DEF Goto, TypeInv, PCs, ArgStep, GaveStep
<1>7. TypeInv'
  BY <1>1, <1>4, <1>5, <1>6, Zenon DEF TypeInv, Issued
<1>8. PcStep(t)
  BY <1>1, <1>6, Zenon DEF PcStep, MainPoints
<1>9. StateStep(t)
  <2>1. \A u \in Thread \ {t} : tid[u] # tid[t]
    BY <1>1, OwnTid, Zenon DEF Order
  <2> QED
    BY <1>2, <1>5, <2>1, Zenon DEF StateStep
<1>10. CallOK(t)' /\ ExitOK(t)'
  BY <1>1, <1>6, Zenon DEF CallOK, ExitOK, Order, ExitInv, ExitPoints
<1>11. ASSUME NEW k \in DOMAIN states' PROVE StatusOK(k)'
  BY <1>1, <1>5, Zenon DEF StatusOK, Order, ExitInv
<1> QED
  BY <1>1, <1>6, <1>7, <1>8, <1>9, <1>10, <1>11, StepKeeps, Zenon

-----------------------------------------------------------------------------
(* exit_with_status                                                        *)

(* exit_with_status is called.                                             *)
LEMMA ExitKeeps ==
    ASSUME TypeInv, Order, NEW t \in Thread, Exit(t)
    PROVE  TypeInv' /\ Order'
<1>1. /\ pc[t] = "user" /\ t # Main /\ UNCHANGED <<tid, slot, next_tid, states, node, len>>
      /\ ret' = [ret EXCEPT ![t] = <<>>] /\ Goto(t, "exit_up")
  BY Zenon DEF Exit, At, semas, Order, IdInv, MainPoints
<1>2. PICK s \in Status[tid[t]] :
         /\ arg' = [arg EXCEPT ![t] = s]
         /\ gave' = [k \in DOMAIN gave \cup {tid[t]} |-> IF k = tid[t] THEN s ELSE gave[k]]
  BY Zenon DEF Exit
<1>3. tid[t] \in Issued /\ tid[t] \in FirstTid..MaxTid
  <2>1. tid[t] \in Issued
    BY <1>1, OwnTid, Zenon DEF Order
  <2> QED
    BY <2>1, ProcessAssumption DEF Issued, TypeInv, FirstTid
<1>4. s \in Word
  BY <1>3, WordHas, Zenon
<1>5. tid[t] \notin DOMAIN gave
  BY <1>1, Zenon DEF Order, ExitInv, ExitOK, ExitPoints
<1>6. /\ gave' \in [DOMAIN gave' -> Word] /\ DOMAIN gave' = DOMAIN gave \cup {tid[t]}
      /\ gave'[tid[t]] = s /\ \A k \in DOMAIN gave : gave'[k] = gave[k]
  BY <1>2, <1>4, <1>5, Zenon DEF TypeInv
<1>7. /\ pc' \in [Thread -> PCs] /\ pc'[t] = "exit_up" /\ \A u \in Thread \ {t} : pc'[u] = pc[u]
      /\ ret' \in [Thread -> {<<>>} \cup (Word \X Word)]
      /\ arg' \in [Thread -> Word] /\ arg'[t] = s /\ ArgStep(t)
  BY <1>1, <1>2, <1>4, Zenon DEF Goto, TypeInv, PCs, ArgStep
<1>8. TypeInv'
  BY <1>1, <1>3, <1>6, <1>7, Zenon DEF TypeInv, Issued
<1>9. PcStep(t) /\ GaveStep(t) /\ StateStep(t)
  BY <1>1, <1>6, <1>7, Zenon DEF PcStep, GaveStep, StateStep
<1>10. CallOK(t)' /\ ExitOK(t)'
  BY <1>1, <1>6, <1>7, Zenon DEF CallOK, ExitOK, ExitPoints
<1>11. ASSUME NEW k \in DOMAIN states' PROVE StatusOK(k)'
  BY <1>1, <1>6, Zenon DEF StatusOK, Order, ExitInv
<1> QED
  BY <1>1, <1>7, <1>8, <1>9, <1>10, <1>11, StepKeeps, Zenon

(* Of the points, ExitUp changes that of t and that of a sleeper.          *)
LEMMA ExitUpKeeps ==
    ASSUME TypeInv, Order, NEW t \in Thread, ExitUp(t), SemaType,
           pc' \in [Thread -> PCs], pc'[t] = "exit_mark",
           \A u \in Thread \ {t} : pc'[u] = pc[u] \/ (pc[u] = "asleep" /\ pc'[u] = "down")
    PROVE  TypeInv' /\ Order'
<1>1. pc[t] = "exit_up" /\ t # Main /\ UNCHANGED <<tid, arg, slot, ret, next_tid, states, gave>>
  BY Zenon DEF ExitUp, At, locals, registry, Order, IdInv, MainPoints
<1>2. TypeInv'
  BY <1>1, Zenon DEF TypeInv, Issued, SemaType
<1>3. PcStep(t) /\ ArgStep(t) /\ CallOK(t)' /\ Quiet
  BY <1>1, Zenon DEF PcStep, ArgStep, CallOK, Quiet
<1>4. StateStep(t) /\ GaveStep(t) /\ \A k \in DOMAIN states' : StatusOK(k)'
  BY <1>1, <1>3, QuietStep, Zenon DEF Order
<1>5. ExitOK(t)'
  BY <1>1, Zenon DEF Order, ExitInv, ExitOK, ExitPoints
<1> QED
  BY <1>1, <1>2, <1>3, <1>4, <1>5, StepKeeps, Zenon

(* exit_with_status records the status.                                    *)
LEMMA ExitMarkKeeps ==
    ASSUME TypeInv, Order, NEW t \in Thread, ExitMark(t)
    PROVE  TypeInv' /\ Order'
<1>1. /\ pc[t] = "exit_mark" /\ t # Main
      /\ UNCHANGED <<tid, arg, slot, ret, next_tid, gave, node, len>>
  BY Zenon DEF ExitMark, At, locals, semas, Order, IdInv, MainPoints
<1>2. tid[t] \in DOMAIN gave /\ gave[tid[t]] = arg[t]
  BY <1>1, Zenon DEF Order, ExitInv, ExitOK
<1>3. ArgStep(t) /\ GaveStep(t)
  BY <1>1, Zenon DEF ArgStep, GaveStep
<1>4. CASE tid[t] \notin DOMAIN states
  <2>1. states' = states /\ Goto(t, "exit_children")
    BY <1>4, Zenon DEF ExitMark
  <2>2. /\ pc' \in [Thread -> PCs] /\ pc'[t] = "exit_children"
        /\ \A u \in Thread \ {t} : pc'[u] = pc[u]
    BY <2>1, Zenon DEF Goto, TypeInv, PCs
  <2>3. TypeInv'
    BY <1>1, <2>1, <2>2, Zenon DEF TypeInv, Issued
  <2>4. PcStep(t) /\ CallOK(t)' /\ Quiet /\ ExitOK(t)'
    BY <1>1, <2>1, <2>2, Zenon DEF PcStep, CallOK, Quiet, ExitOK, ExitPoints
  <2>5. StateStep(t) /\ \A k \in DOMAIN states' : StatusOK(k)'
    BY <1>1, <2>4, QuietStep, Zenon DEF Order
  <2> QED
    BY <1>1, <1>3, <2>3, <2>4, <2>5, StepKeeps, Zenon
<1>5. CASE tid[t] \in DOMAIN states
  <2>1. PICK r : r = [states[tid[t]] EXCEPT !.status = arg[t], !.exited = TRUE]
    BY Zenon
  <2>2. states[tid[t]] \in PState /\ arg[t] \in Word
    BY <1>5, Zenon DEF TypeInv
  <2>3. r \in PState /\ r.parent = states[tid[t]].parent /\ r.exited /\ r.status = arg[t]
    BY <2>1, <2>2, Zenon DEF PState
  <2>4. states' = [states EXCEPT ![tid[t]] = r] /\ Goto(t, "exit_wake")
    BY <1>5, <2>1, Zenon DEF ExitMark
  <2>5. /\ states' \in [DOMAIN states' -> PState] /\ DOMAIN states' = DOMAIN states
        /\ states'[tid[t]] = r /\ \A j \in DOMAIN states \ {tid[t]} : states'[j] = states[j]
    BY <1>5, <2>3, <2>4, StateSet, Zenon
  <2>6. /\ pc' \in [Thread -> PCs] /\ pc'[t] = "exit_wake"
        /\ \A u \in Thread \ {t} : pc'[u] = pc[u]
    BY <2>4, Zenon DEF Goto, TypeInv, PCs
  <2>7. TypeInv'
    BY <1>1, <2>5, <2>6, Zenon DEF TypeInv, Issued
  <2>8. PcStep(t) /\ CallOK(t)'
    BY <1>1, <2>6, Zenon DEF PcStep, CallOK
  <2>9. StateStep(t)
    BY <2>3, <2>5, Zenon DEF StateStep
  <2>10. \A u \in Thread : (pc[u] = "state")' => arg'[u] # tid'[t]
    BY <1>1, <1>5, <2>6, Zenon DEF Order, CallInv, CallOK
  <2>11. ExitOK(t)'
    BY <1>1, <2>3, <2>5, <2>6, <2>10, Zenon DEF ExitOK, ExitPoints
  <2>12. ASSUME NEW k \in DOMAIN states' PROVE StatusOK(k)'
    <3>1. CASE k = tid[t]
      BY <1>1, <1>2, <2>3, <2>5, <3>1, Zenon DEF StatusOK
    <3>2. CASE k # tid[t]
      BY <1>1, <2>5, <3>2, Zenon DEF StatusOK, Order, ExitInv
    <3> QED
      BY <3>1, <3>2, Zenon
  <2> QED
    BY <1>1, <1>3, <2>7, <2>8, <2>9, <2>11, <2>12, StepKeeps, Zenon
<1> QED
  BY <1>4, <1>5, Zenon

(* exit_with_status signals the wait semaphore of the entry.               *)
LEMMA ExitWakeKeeps ==
    ASSUME TypeInv, Order, NEW t \in Thread, ExitWake(t)
    PROVE  TypeInv' /\ Order'
<1>1. /\ pc[t] = "exit_wake" /\ t # Main /\ Goto(t, "exit_children")
      /\ UNCHANGED <<tid, arg, slot, ret, next_tid, gave, node, len>>
  BY Zenon DEF ExitWake, At, locals, semas, Order, IdInv, MainPoints
<1>2. tid[t] \in DOMAIN states => states[tid[t]].exited
  BY <1>1, Zenon DEF Order, ExitInv, ExitOK
<1>3. ArgStep(t) /\ GaveStep(t)
  BY <1>1, Zenon DEF ArgStep, GaveStep
<1>4. /\ pc' \in [Thread -> PCs] /\ pc'[t] = "exit_children"
      /\ \A u \in Thread \ {t} : pc'[u] = pc[u]
  BY <1>1, Zenon DEF Goto, TypeInv, PCs
<1>5. PcStep(t) /\ CallOK(t)' /\ ExitOK(t)'
  BY <1>1, <1>4, Zenon DEF PcStep, CallOK, ExitOK, ExitPoints
<1>6. CASE tid[t] \notin DOMAIN states
  <2>1. states' = states
    BY <1>6, Zenon DEF ExitWake
  <2>2. TypeInv' /\ Quiet
    BY <1>1, <1>4, <2>1, Zenon DEF TypeInv, Issued, Quiet
  <2>3. StateStep(t) /\ \A k \in DOMAIN states' : StatusOK(k)'
    BY <1>1, <2>2, QuietStep, Zenon DEF Order
  <2> QED
    BY <1>1, <1>3, <1>5, <2>2, <2>3, StepKeeps, Zenon
<1>7. CASE tid[t] \in DOMAIN states
  <2>1. PICK r : r = [states[tid[t]] EXCEPT !.sema = @ + 1]
    BY Zenon
  <2>2. states[tid[t]] \in PState
    BY <1>7, Zenon DEF TypeInv
  <2>3. /\ r \in PState /\ r.parent = states[tid[t]].parent
        /\ r.exited = states[tid[t]].exited /\ r.status = states[tid[t]].status
    BY <2>1, <2>2 DEF PState
  <2>4. states' = [states EXCEPT ![tid[t]] = r]
    BY <1>7, <2>1, Zenon DEF ExitWake
  <2>5. /\ states' \in [DOMAIN states' -> PState] /\ DOMAIN states' = DOMAIN states
        /\ states'[tid[t]] = r /\ \A j \in DOMAIN states \ {tid[t]} : states'[j] = states[j]
    BY <1>7, <2>3, <2>4, StateSet, Zenon
  <2>6. TypeInv'
    BY <1>1, <1>4, <2>5, Zenon DEF TypeInv, Issued
  <2>7. StateStep(t)
    BY <2>3, <2>5, Zenon DEF StateStep
  <2>8. ASSUME NEW k \in DOMAIN states' PROVE StatusOK(k)'
    <3>1. CASE k = tid[t]
      BY <1>1, <1>2, <1>7, <2>3, <2>5, <3>1, Zenon DEF StatusOK, Order, ExitInv
    <3>2. CASE k # tid[t]
      BY <1>1, <2>5, <3>2, Zenon DEF StatusOK, Order, ExitInv
    <3> QED
      BY <3>1, <3>2, Zenon
  <2> QED
    BY <1>1, <1>3, <1>5, <2>6, <2>7, <2>8, StepKeeps, Zenon
<1> QED
  BY <1>6, <1>7, Zenon

(* The next child of t: it is dropped from the registry when it has        *)
(* exited, and given to main when it has not.                              *)
LEMMA ExitChildrenKeeps ==
    ASSUME Counting, TypeInv, Order, NEW t \in Thread, ExitChildren(t)
    PROVE  TypeInv' /\ Order'
<1>1. /\ pc[t] = "exit_children" /\ t # Main
      /\ UNCHANGED <<tid, arg, slot, ret, next_tid, gave, node, len>>
  BY Zenon DEF ExitChildren, At, locals, semas, Order, IdInv, MainPoints
<1>2. ArgStep(t) /\ GaveStep(t)
  BY <1>1, Zenon DEF ArgStep, GaveStep
<1>3. CASE Children(t) = {}
  <2>1. states' = states /\ Goto(t, "exit_sema")
    BY <1>3, Zenon DEF ExitChildren
  <2>2. /\ pc' \in [Thread -> PCs] /\ pc'[t] = "exit_sema"
        /\ \A u \in Thread \ {t} : pc'[u] = pc[u]
    BY <2>1, Zenon DEF Goto, TypeInv, PCs
  <2>3. TypeInv'
    BY <1>1, <2>1, <2>2, Zenon DEF TypeInv, Issued
  <2>4. PcStep(t) /\ CallOK(t)' /\ Quiet /\ ExitOK(t)'
    BY <1>1, <1>3, <2>1, <2>2, Zenon DEF PcStep, CallOK, Quiet, ExitOK, ExitPoints, Children
  <2>5. StateStep(t) /\ \A k \in DOMAIN states' : StatusOK(k)'
    BY <1>1, <2>4, QuietStep, Zenon DEF Order
  <2> QED
    BY <1>1, <1>2, <2>3, <2>4, <2>5, StepKeeps, Zenon
<1>4. CASE Children(t) # {}
  <2>1. PICK k : k = Min(Children(t))
    BY Zenon
  <2>2. k \in DOMAIN states /\ states[k].parent = tid[t]
    <3>1. k \in Children(t)
      BY <1>4, <2>1, LeastOf, Zenon DEF Children
    <3> QED
      BY <3>1, Zenon DEF Children
  <2>3. /\ pc' = pc
        /\ states' = IF states[k].exited THEN Restrict(states, DOMAIN states \ {k})
                     ELSE [states EXCEPT ![k].parent = MainTid]
    BY <1>4, <2>1, Zenon DEF ExitChildren
  <2>4. PcStep(t) /\ CallOK(t)' /\ ExitOK(t)'
    BY <1>1, <2>3, Zenon DEF PcStep, CallOK, ExitOK, ExitPoints, Order, IdInv
  <2>5. \A u \in Thread \ {t} : tid[u] # tid[t]
    BY <1>1, OwnTid, Zenon DEF Order
  <2>6. CASE states[k].exited
    <3>1. /\ states' \in [DOMAIN states' -> PState] /\ DOMAIN states' = DOMAIN states \ {k}
          /\ \A j \in DOMAIN states \ {k} : states'[j] = states[j]
      BY <2>3, <2>6, StateDropped, Zenon
    <3>2. TypeInv'
      BY <1>1, <2>3, <3>1, Zenon DEF TypeInv, Issued
    <3>3. StateStep(t)
      BY <2>2, <2>5, <3>1, Zenon DEF StateStep
    <3>4. ASSUME NEW j \in DOMAIN states' PROVE StatusOK(j)'
      BY <1>1, <3>1, Zenon DEF StatusOK, Order, ExitInv
    <3> QED
      BY <1>1, <1>2, <2>4, <3>2, <3>3, <3>4, StepKeeps, Zenon
  <2>7. CASE ~states[k].exited
    <3>1. PICK r : r = [states[k] EXCEPT !.parent = MainTid]
      BY Zenon
    <3>2. states[k] \in PState /\ MainTid \in Int
      BY <2>2 DEF TypeInv, MainTid
    <3>3. /\ r \in PState /\ r.parent = MainTid /\ r.exited = states[k].exited
          /\ r.status = states[k].status /\ r.sema = states[k].sema
      BY <3>1, <3>2, Zenon DEF PState
    <3>4. states' = [states EXCEPT ![k] = r]
      BY <2>2, <2>3, <2>7, <3>1, Zenon
    <3>5. /\ states' \in [DOMAIN states' -> PState] /\ DOMAIN states' = DOMAIN states
          /\ states'[k] = r /\ \A j \in DOMAIN states \ {k} : states'[j] = states[j]
      BY <2>2, <3>3, <3>4, StateSet, Zenon
    <3>6. TypeInv'
      BY <1>1, <2>3, <3>5, Zenon DEF TypeInv, Issued
    <3>7. StateStep(t)
      BY <2>2, <3>3, <3>5, Zenon DEF StateStep
    <3>8. ASSUME NEW j \in DOMAIN states' PROVE StatusOK(j)'
      <4>1. CASE j = k
        BY <1>1, <2>2, <3>3, <3>5, <4>1, Zenon DEF StatusOK, Order, ExitInv
      <4>2. CASE j # k
        BY <1>1, <3>5, <4>2, Zenon DEF StatusOK, Order, ExitInv
      <4> QED
        BY <4>1, <4>2, Zenon
    <3> QED
      BY <1>1, <1>2, <2>4, <3>6, <3>7, <3>8, StepKeeps, Zenon
  <2> QED
    BY <2>6, <2>7, Zenon
<1> QED
  BY <1>3, <1>4, Zenon

(* The end of an exit.                                                     *)
LEMMA ExitSemaKeeps ==
    ASSUME TypeInv, Order, NEW t \in Thread, ExitSema(t), SemaType
    PROVE  TypeInv' /\ Order'
<1>1. /\ pc[t] = "exit_sema" /\ t # Main /\ Goto(t, "free")
      /\ tid' = [tid EXCEPT ![t] = NoTid] /\ arg' = [arg EXCEPT ![t] = NoTid]
      /\ UNCHANGED <<slot, ret, next_tid, states, gave>>
  BY Zenon DEF ExitSema, At, registry, Order, IdInv, MainPoints
<1>2. NoTid \in Word /\ NoTid \in 0..MaxTid
  BY WordHas, ProcessAssumption DEF NoTid, FirstTid
<1>3. /\ pc' \in [Thread -> PCs] /\ tid' \in [Thread -> 0..MaxTid] /\ arg' \in [Thread -> Word]
      /\ \A u \in Thread : pc'[u] = IF u = t THEN "free" ELSE pc[u]
      /\ \A u \in Thread : tid'[u] = IF u = t THEN NoTid ELSE tid[u]
      /\ ArgStep(t)
  BY <1>1, <1>2, Zenon DEF Goto, TypeInv, PCs, ArgStep
<1>4. TypeInv'
  BY <1>1, <1>3, Zenon DEF TypeInv, Issued, SemaType
<1>5. \A k \in DOMAIN states : states[k].parent # tid[t]
  BY <1>1, Zenon DEF Order, CallInv, CallOK
<1> QED
  BY <1>1, <1>3, <1>4, <1>5, DeathKeeps, Zenon

-----------------------------------------------------------------------------
(* The wait semaphores                                                     *)

QueueOK(i) ==
    /\ node[i].key \in 1..MaxTid
    /\ IsInjective(node[i].waiters)
    /\ \A t \in Range(node[i].waiters) : pc[t] = "asleep"

QueuesApart(i, j) ==
    /\ node[i].key # node[j].key
    /\ Range(node[i].waiters) \cap Range(node[j].waiters) = {}

Keyed(t) == pc[t] \in {"scan", "down", "asleep"} => tid[t] \in Keys

(* The conjuncts of SemaInv, by name.                                      *)
LEMMA SemaParts ==
    SemaInv <=> /\ \A i \in 1..len : QueueOK(i)
                /\ \A i, j \in 1..len : i # j => QueuesApart(i, j)
                /\ \A t \in Thread : Keyed(t)
BY Zenon DEF SemaInv, QueueOK, QueuesApart, Keyed

(* The same in the state after a step.                                     *)
LEMMA SemaPartsNext ==
    ASSUME \A i \in 1..len' : QueueOK(i)',
           \A i, j \in 1..len' : i # j => QueuesApart(i, j)',
           \A t \in Thread : Keyed(t)'
    PROVE  SemaInv'
BY Zenon DEF SemaInv, QueueOK, QueuesApart, Keyed

(* Steps that leave the semaphores and those who sleep alone.              *)
LEMMA SemaFrame ==
    ASSUME SemaInv, node' = node, len' = len,
           \A u \in Thread : pc[u] = "asleep" => pc'[u] = "asleep",
           \A u \in Thread : pc'[u] \in {"scan", "down", "asleep"} =>
                                pc[u] \in {"scan", "down", "asleep"} /\ tid'[u] = tid[u],
           node \in [Slot -> Sema], len \in 0..MaxTid
    PROVE  SemaInv'
<1>1. ASSUME NEW i \in 1..len' PROVE QueueOK(i)'
  <2>1. QueueOK(i)
    BY SemaParts, Zenon
  <2>2. i \in Slot
    BY ProcessAssumption DEF Slot, FirstTid
  <2>3. Range(node[i].waiters) \subseteq Thread
    BY <2>2, ElementOfSeq, LenProperties DEF Sema, Range
  <2> QED
    BY <2>1, <2>3, Zenon DEF QueueOK
<1>2. ASSUME NEW i \in 1..len', NEW j \in 1..len', i # j PROVE QueuesApart(i, j)'
  BY <1>2, SemaParts, Zenon DEF QueuesApart
<1>3. ASSUME NEW u \in Thread PROVE Keyed(u)'
  BY SemaParts, Zenon DEF Keyed, Keys
<1> QED
  BY <1>1, <1>2, <1>3, SemaPartsNext, Zenon

(* One slot holds the semaphore of k.                                      *)
LEMMA SlotOfKey ==
    ASSUME NEW k \in Keys PROVE SlotOf(k) \in 1..len /\ node[SlotOf(k)].key = k
BY Zenon DEF Keys, SlotOf

(* An id without a semaphore leaves room for one: keys are distinct ids.   *)
LEMMA RoomForKey ==
    ASSUME Counting, TypeInv, SemaInv, NEW k \in (1..MaxTid) \ Keys
    PROVE  len + 1 <= MaxTid
<1>1. len \in Nat /\ MaxTid \in Nat
  BY ProcessAssumption DEF TypeInv, FirstTid
<1>2. PICK f : f = [j \in 1..(len + 1) |-> IF j = len + 1 THEN k ELSE node[j].key]
  BY Zenon
<1>3. \A j \in 1..len : node[j].key \in 1..MaxTid /\ node[j].key # k
  BY SemaParts, Zenon DEF QueueOK, Keys
<1>4. f \in [1..(len + 1) -> 1..MaxTid]
  BY <1>1, <1>2, <1>3
<1>5. \A x, y \in 1..(len + 1) : x # y => f[x] # f[y]
  <2>1. \A i, j \in 1..len : i # j => node[i].key # node[j].key
    BY SemaParts, Zenon DEF QueuesApart
  <2> QED
    BY <1>1, <1>2, <1>3, <2>1
<1>6. len + 1 \in Nat
  BY <1>1
<1> QED
  BY <1>4, <1>5, <1>6, Zenon DEF Counting

(* EnsureSema(tid[t]), whatever t does next in one of the points before.   *)
LEMMA EnsureSemaKeeps ==
    ASSUME Counting, TypeInv, IdInv, SemaInv, NEW t \in Thread, pc[t] \notin {"free", "asleep"},
           EnsureSema(tid[t]), tid' = tid,
           \A u \in Thread \ {t} : pc'[u] = pc[u], pc'[t] # "asleep"
    PROVE  SemaType /\ SemaInv'
<1>1. tid[t] \in 1..MaxTid /\ len \in Nat /\ MaxTid \in Nat
  <2>1. tid[t] # NoTid /\ tid[t] \in 0..MaxTid
    BY OwnTid, Zenon DEF TypeInv
  <2> QED
    BY <2>1, ProcessAssumption DEF TypeInv, NoTid, FirstTid
<1>2. node \in [Slot -> Sema] /\ len \in 0..MaxTid
  BY Zenon DEF TypeInv
<1>3. \A i \in 1..len : Range(node[i].waiters) \subseteq Thread \ {t}
  <2> SUFFICES ASSUME NEW i \in 1..len, NEW u \in Range(node[i].waiters) PROVE u \in Thread /\ u # t
    BY Zenon
  <2>1. node[i].waiters \in Seq(Thread)
    BY <1>1, <1>2 DEF Sema, Slot
  <2>2. u \in Thread
    BY <2>1, ElementOfSeq, LenProperties DEF Range
  <2>3. pc[u] = "asleep"
    BY SemaParts, Zenon DEF QueueOK
  <2> QED
    BY <2>2, <2>3, Zenon
<1>4. CASE tid[t] \in Keys
  <2>1. node' = node /\ len' = len
    BY <1>4, Zenon DEF EnsureSema, semas
  <2>2. SemaType
    BY <1>2, <2>1, Zenon DEF SemaType
  <2>3. ASSUME NEW i \in 1..len' PROVE QueueOK(i)'
    BY <1>3, <2>1, SemaParts, Zenon DEF QueueOK
  <2>4. ASSUME NEW i \in 1..len', NEW j \in 1..len', i # j PROVE QueuesApart(i, j)'
    BY <2>1, <2>4, SemaParts, Zenon DEF QueuesApart
  <2>5. Keys' = Keys
    BY <2>1, Zenon DEF Keys
  <2>6. ASSUME NEW u \in Thread PROVE Keyed(u)'
    BY <1>4, <2>5, SemaParts, Zenon DEF Keyed
  <2> QED
    BY <2>2, <2>3, <2>4, <2>6, SemaPartsNext, Zenon
<1>5. CASE tid[t] \notin Keys
  <2>1. PICK i : i = Cardinality({j \in 1..len : node[j].key < tid[t]}) + 1
    BY Zenon
  <2>2. i \in 1..(len + 1)
    <3>2. PICK S : S = {j \in 1..len : node[j].key < tid[t]}
      BY Zenon
    <3>3. S \subseteq 1..len
      BY <3>2, Zenon
    <3>4. Cardinality(S) \in 0..len
      BY <1>1, <3>3, CardinalityIs, Zenon DEF Counting
    <3> QED
      BY <1>1, <2>1, <3>2, <3>4
  <2>3. len + 1 <= MaxTid
    BY <1>1, <1>5, RoomForKey, Zenon
  <2>4. /\ node' = [j \in Slot |-> IF j = i THEN NewSema(tid[t])
                                   ELSE IF j \in (i + 1)..(len + 1) THEN node[j - 1]
                                   ELSE node[j]]
        /\ len' = len + 1
    BY <1>5, <2>1, Zenon DEF EnsureSema
  <2>5. /\ NewSema(tid[t]) \in Sema /\ NewSema(tid[t]).key = tid[t]
        /\ NewSema(tid[t]).waiters = <<>>
    BY <1>1 DEF NewSema, Sema
  <2>6. \A j \in Slot : node'[j] \in Sema
    BY <1>1, <1>2, <2>2, <2>3, <2>4, <2>5 DEF Slot
  <2>7. SemaType
    <3>1. node' \in [Slot -> Sema]
      BY <2>4, <2>6, Zenon
    <3> QED
      BY <1>1, <2>3, <2>4, <3>1 DEF SemaType
  <2>8. \A j \in 1..(len + 1) :
           node'[j] = IF j < i THEN node[j] ELSE IF j = i THEN NewSema(tid[t]) ELSE node[j - 1]
    BY <1>1, <2>2, <2>3, <2>4 DEF Slot
  <2>9. Range(<<>>) = {} /\ IsInjective(<<>>)
    BY DEF Range, IsInjective
  <2>10. len' = len + 1
    BY <2>4, Zenon
  <2>11. ASSUME NEW j \in 1..len' PROVE QueueOK(j)'
    <3>1. CASE j = i
      BY <1>1, <2>2, <2>10, <2>5, <2>8, <2>9, <3>1 DEF QueueOK
    <3>2. ASSUME NEW h \in 1..len, node'[j] = node[h] PROVE QueueOK(j)'
      BY <1>3, <3>2, SemaParts, Zenon DEF QueueOK
    <3>3. CASE j # i
      <4>1. PICK h \in 1..len : node'[j] = node[h]
        BY <1>1, <2>2, <2>10, <2>8, <3>3
      <4> QED
        BY <3>2, <4>1, Zenon
    <3> QED
      BY <3>1, <3>3, Zenon
  <2>12. ASSUME NEW g \in 1..len', NEW h \in 1..len', g # h PROVE QueuesApart(g, h)'
    <3>1. ASSUME NEW x \in 1..len
          PROVE  node[x].key # tid[t] /\ Range(node[x].waiters) \cap {} = {}
      BY <1>5, Zenon DEF Keys
    <3>2. CASE g = i
      <4>1. node'[g] = NewSema(tid[t])
        BY <2>2, <2>8, <3>2
      <4>2. PICK x \in 1..len : node'[h] = node[x]
        BY <1>1, <2>2, <2>10, <2>8, <2>12, <3>2
      <4> QED
        BY <2>5, <2>9, <3>1, <4>1, <4>2, Zenon DEF QueuesApart
    <3>3. CASE h = i
      <4>1. node'[h] = NewSema(tid[t])
        BY <2>2, <2>8, <3>3
      <4>2. PICK x \in 1..len : node'[g] = node[x]
        BY <1>1, <2>2, <2>10, <2>8, <2>12, <3>3
      <4> QED
        BY <2>5, <2>9, <3>1, <4>1, <4>2, Zenon DEF QueuesApart
    <3>4. CASE g # i /\ h # i
      <4>1. PICK x \in 1..len, y \in 1..len : x # y /\ node'[g] = node[x] /\ node'[h] = node[y]
        BY <1>1, <2>2, <2>10, <2>8, <2>12, <3>4
      <4>2. QueuesApart(x, y)
        BY <4>1, SemaParts, Zenon
      <4> QED
        BY <4>1, <4>2, Zenon DEF QueuesApart
    <3> QED
      BY <3>2, <3>3, <3>4, Zenon
  <2>13. Keys \subseteq Keys' /\ tid[t] \in Keys'
    <3>1. tid[t] \in Keys'
      BY <2>2, <2>10, <2>5, <2>8 DEF Keys
    <3>2. ASSUME NEW j \in 1..len PROVE node[j].key \in Keys'
      <4>1. node[j] = node'[j] \/ node[j] = node'[j + 1]
        BY <1>1, <2>2, <2>8
      <4>2. j \in 1..len' /\ j + 1 \in 1..len'
        BY <1>1, <2>10
      <4> QED
        BY <4>1, <4>2, Zenon DEF Keys
    <3> QED
      BY <3>1, <3>2, Zenon DEF Keys
  <2>14. ASSUME NEW u \in Thread PROVE Keyed(u)'
    BY <2>13, SemaParts, Zenon DEF Keyed
  <2> QED
    BY <2>7, <2>11, <2>12, <2>14, SemaPartsNext, Zenon
<1> QED
  BY <1>4, <1>5, Zenon

(* Pushing a thread on a queue without duplicates that does not hold it.   *)
LEMMA AppendQueue ==
    ASSUME NEW S, NEW q \in Seq(S), NEW x \in S, IsInjective(q), x \notin Range(q)
    PROVE  /\ Append(q, x) \in Seq(S)
           /\ IsInjective(Append(q, x))
           /\ Range(Append(q, x)) = Range(q) \cup {x}
<1> DEFINE r == Append(q, x)
<1> HIDE DEF r
<1>1. /\ r \in Seq(S)
      /\ Len(r) = Len(q) + 1
      /\ \A j \in 1..Len(q) : r[j] = q[j]
      /\ r[Len(q) + 1] = x
  BY AppendProperties DEF r
<1>2. /\ Len(q) \in Nat /\ DOMAIN q = 1..Len(q)
      /\ DOMAIN r = 1..(Len(q) + 1)
  BY <1>1, LenProperties, Zenon
<1>3. \A j \in 1..(Len(q) + 1) : j \in 1..Len(q) \/ j = Len(q) + 1
  BY <1>2
<1>4. IsInjective(r)
  BY <1>1, <1>2, <1>3, Zenon DEF IsInjective, Range
<1>5. Range(r) = Range(q) \cup {x}
  <2>1. \A j \in 1..Len(q) : j \in 1..(Len(q) + 1)
    BY <1>2
  <2>2. Len(q) + 1 \in 1..(Len(q) + 1)
    BY <1>2
  <2> QED
    BY <1>1, <1>2, <1>3, <2>1, <2>2, Zenon DEF Range
<1> QED
  BY <1>1, <1>4, <1>5, Zenon DEF r

(* The queue of a semaphore after its head is popped.                      *)
LEMMA TailQueue ==
    ASSUME NEW S, NEW q \in Seq(S), q # <<>>, IsInjective(q)
    PROVE  /\ Tail(q) \in Seq(S) /\ IsInjective(Tail(q))
           /\ Head(q) \in Range(q) /\ Range(Tail(q)) = Range(q) \ {Head(q)}
<1>1. /\ Tail(q) \in Seq(S) /\ Len(Tail(q)) = Len(q) - 1
      /\ \A i \in 1..Len(Tail(q)) : Tail(q)[i] = q[i + 1]
  BY HeadTailProperties, Zenon
<1>2. /\ Len(q) \in Nat /\ DOMAIN q = 1..Len(q) /\ DOMAIN Tail(q) = 1..Len(Tail(q))
      /\ Len(q) > 0 /\ Head(q) = q[1]
  BY <1>1, LenProperties, EmptySeq
<1>3. PICK p : p = Tail(q)
  BY Zenon
<1>4. DOMAIN p = 1..(Len(q) - 1) /\ \A i \in 1..(Len(q) - 1) : p[i] = q[i + 1]
  BY <1>1, <1>2, <1>3, Zenon
<1>5. \A i, j \in 1..Len(q) : q[i] = q[j] => i = j
  BY <1>2, Zenon DEF IsInjective
<1>6. IsInjective(p)
  BY <1>2, <1>4, <1>5 DEF IsInjective
<1>7. Range(p) = Range(q) \ {q[1]}
  <2>1. ASSUME NEW x \in Range(p) PROVE x \in Range(q) /\ x # q[1]
    <3>1. PICK i \in 1..(Len(q) - 1) : x = p[i]
      BY <1>4, Zenon DEF Range
    <3>2. i + 1 \in 1..Len(q) /\ i + 1 # 1 /\ x = q[i + 1] /\ 1 \in 1..Len(q)
      BY <1>2, <1>4, <3>1
    <3> QED
      BY <1>2, <1>5, <3>2, Zenon DEF Range
  <2>2. ASSUME NEW x \in Range(q), x # q[1] PROVE x \in Range(p)
    <3>1. PICK i \in 1..Len(q) : x = q[i]
      BY <1>2, Zenon DEF Range
    <3>2. i - 1 \in 1..(Len(q) - 1) /\ x = p[i - 1]
      BY <1>2, <1>4, <2>2, <3>1
    <3> QED
      BY <1>4, <3>2, Zenon DEF Range
  <2> QED
    BY <2>1, <2>2, Zenon
<1>8. q[1] \in Range(q)
  BY <1>2 DEF Range
<1> QED
  BY <1>1, <1>2, <1>3, <1>6, <1>7, <1>8, Zenon

(* Who is in a queue is asleep.                                            *)
LEMMA QueuedSleeps ==
    ASSUME TypeInv, SemaInv, NEW i \in 1..len
    PROVE  /\ i \in Slot /\ node[i] \in Sema /\ node[i].waiters \in Seq(Thread)
           /\ \A u \in Range(node[i].waiters) : u \in Thread /\ pc[u] = "asleep"
<1>1. i \in Slot
  BY ProcessAssumption DEF TypeInv, Slot, FirstTid
<1>2. node[i] \in Sema
  BY <1>1, Zenon DEF TypeInv
<1>3. node[i].waiters \in Seq(Thread)
  BY <1>2, Zenon DEF Sema
<1>4. ASSUME NEW u \in Range(node[i].waiters) PROVE u \in Thread /\ pc[u] = "asleep"
  <2>1. u \in Thread
    BY <1>3, ElementOfSeq, LenProperties DEF Range
  <2>2. pc[u] = "asleep"
    BY SemaParts, Zenon DEF QueueOK
  <2> QED
    BY <2>1, <2>2, Zenon
<1> QED
  BY <1>1, <1>2, <1>3, <1>4, Zenon

(* remove, by the thread the semaphore belonged to.                        *)
LEMMA RemoveSemaKeeps ==
    ASSUME TypeInv, IdInv, SemaInv, NEW t \in Thread, pc[t] \notin {"free", "asleep"},
           RemoveSema(tid[t]),
           \A u \in Thread \ {t} : pc'[u] = pc[u] /\ tid'[u] = tid[u], pc'[t] = "free"
    PROVE  SemaType /\ SemaInv'
<1>1. node \in [Slot -> Sema] /\ len \in 0..MaxTid /\ len \in Nat /\ MaxTid \in Nat
  BY ProcessAssumption DEF TypeInv, FirstTid
<1>2. ASSUME NEW i \in 1..len, NEW u \in Range(node[i].waiters) PROVE pc'[u] = "asleep"
  BY QueuedSleeps, Zenon
<1>3. \A u \in Thread \ {t} : tid[u] # tid[t]
  BY OwnTid, Zenon
<1>4. CASE tid[t] \notin Keys
  <2>1. node' = node /\ len' = len
    BY <1>4, Zenon DEF RemoveSema, semas
  <2>2. SemaType
    BY <1>1, <2>1, Zenon DEF SemaType
  <2>3. \A u \in Thread : pc[u] = "asleep" => pc'[u] = "asleep"
    BY Zenon
  <2>4. \A u \in Thread : pc'[u] \in {"scan", "down", "asleep"} =>
                             pc[u] \in {"scan", "down", "asleep"} /\ tid'[u] = tid[u]
    BY Zenon
  <2> QED
    BY <1>1, <2>1, <2>2, <2>3, <2>4, SemaFrame, Zenon
<1>5. CASE tid[t] \in Keys
  <2>1. PICK s \in 1..len : /\ node[s].key = tid[t] /\ len' = len - 1
                            /\ node' = [j \in Slot |-> IF j \in s..(len - 1) THEN node[j + 1] ELSE node[j]]
    <3>1. SlotOf(tid[t]) \in 1..len /\ node[SlotOf(tid[t])].key = tid[t]
      BY <1>5, SlotOfKey, Zenon
    <3> QED
      BY <1>5, <3>1, Zenon DEF RemoveSema
  <2>2. len' = len - 1 /\ len' \in 0..MaxTid
    BY <1>1, <2>1
  <2>3. SemaType
    <3>1. \A j \in Slot : node'[j] \in Sema
      BY <1>1, <2>1 DEF Slot
    <3>2. node' \in [Slot -> Sema]
      BY <2>1, <3>1, Zenon
    <3> QED
      BY <2>2, <3>2, Zenon DEF SemaType
  <2>4. \A j \in 1..(len - 1) : node'[j] = IF j < s THEN node[j] ELSE node[j + 1]
    BY <1>1, <2>1 DEF Slot
  <2>5. ASSUME NEW j \in 1..len' PROVE QueueOK(j)'
    <3>1. PICK h \in 1..len : node'[j] = node[h]
      BY <1>1, <2>2, <2>4
    <3>2. QueueOK(h)
      BY SemaParts, Zenon
    <3> QED
      BY <1>2, <3>1, <3>2, Zenon DEF QueueOK
  <2>6. ASSUME NEW g \in 1..len', NEW h \in 1..len', g # h PROVE QueuesApart(g, h)'
    <3>1. PICK x \in 1..len, y \in 1..len : x # y /\ node'[g] = node[x] /\ node'[h] = node[y]
      BY <1>1, <2>2, <2>4, <2>6
    <3>2. QueuesApart(x, y)
      BY <3>1, SemaParts, Zenon
    <3> QED
      BY <3>1, <3>2, Zenon DEF QueuesApart
  <2>7. ASSUME NEW k \in Keys, k # tid[t] PROVE k \in Keys'
    <3>1. PICK x \in 1..len : node[x].key = k
      BY Zenon DEF Keys
    <3>2. x # s
      BY <2>1, <2>7, <3>1, Zenon
    <3>3. PICK j \in 1..(len - 1) : node'[j] = node[x]
      <4>1. CASE x < s
        BY <1>1, <2>4, <4>1
      <4>2. CASE x > s
        <5>1. x - 1 \in 1..(len - 1) /\ node'[x - 1] = node[x]
          BY <1>1, <2>4, <4>2
        <5> QED
          BY <5>1, Zenon
      <4> QED
        BY <3>2, <4>1, <4>2
    <3> QED
      BY <2>2, <3>1, <3>3, Zenon DEF Keys
  <2>8. ASSUME NEW u \in Thread PROVE Keyed(u)'
    BY <1>3, <2>7, SemaParts, Zenon DEF Keyed
  <2> QED
    BY <2>3, <2>5, <2>6, <2>8, SemaPartsNext, Zenon
<1> QED
  BY <1>4, <1>5, Zenon

(* A semaphore that keeps its key and whose queue x is any without         *)
(* duplicates of threads that sleep and are in no other queue.             *)
LEMMA QueueSet ==
    ASSUME TypeInv, SemaInv, NEW s \in 1..len, len' = len,
           \A i \in 1..len : i # s => node'[i] = node[i],
           node'[s].key = node[s].key,
           IsInjective(node'[s].waiters),
           \A i \in 1..len : i # s => \A u \in Range(node[i].waiters) : pc'[u] = "asleep",
           \A i \in 1..len, u \in Range(node'[s].waiters) :
              pc'[u] = "asleep" /\ (i # s => u \notin Range(node[i].waiters)),
           \A u \in Thread : pc'[u] \in {"scan", "down", "asleep"} =>
                                pc[u] \in {"scan", "down", "asleep"} /\ tid'[u] = tid[u]
    PROVE  SemaInv'
<1>1. ASSUME NEW i \in 1..len' PROVE QueueOK(i)'
  <2>1. QueueOK(i) /\ i \in 1..len
    BY SemaParts, Zenon
  <2>2. CASE i = s
    BY <2>1, <2>2, Zenon DEF QueueOK
  <2>3. CASE i # s
    BY <2>1, <2>3, Zenon DEF QueueOK
  <2> QED
    BY <2>2, <2>3, Zenon
<1>2. ASSUME NEW i \in 1..len', NEW j \in 1..len', i # j PROVE QueuesApart(i, j)'
  <2>1. QueuesApart(i, j) /\ i \in 1..len /\ j \in 1..len
    BY <1>2, SemaParts, Zenon
  <2>2. CASE i = s
    BY <1>2, <2>1, <2>2, Zenon DEF QueuesApart
  <2>3. CASE j = s
    BY <1>2, <2>1, <2>3, Zenon DEF QueuesApart
  <2>4. CASE i # s /\ j # s
    BY <2>1, <2>4, Zenon DEF QueuesApart
  <2> QED
    BY <2>2, <2>3, <2>4, Zenon
<1>3. Keys' = Keys
  <2>1. \A i \in 1..len : node'[i].key = node[i].key
    BY Zenon
  <2> QED
    BY <2>1, Zenon DEF Keys
<1>4. ASSUME NEW u \in Thread PROVE Keyed(u)'
  BY <1>3, SemaParts, Zenon DEF Keyed
<1> QED
  BY <1>1, <1>2, <1>4, SemaPartsNext, Zenon

(* up: the waiter at the head, if there is one, wakes.                     *)
LEMMA UpSemaKeeps ==
    ASSUME TypeInv, SemaInv, NEW t \in Thread, pc[t] \in ExitPoints,
           NEW k, UpSema(k, t, "exit_mark"), tid' = tid
    PROVE  /\ SemaType /\ SemaInv'
           /\ pc' \in [Thread -> PCs] /\ pc'[t] = "exit_mark"
           /\ \A u \in Thread \ {t} : pc'[u] = pc[u] \/ (pc[u] = "asleep" /\ pc'[u] = "down")
<1>1. node \in [Slot -> Sema] /\ len \in 0..MaxTid /\ pc \in [Thread -> PCs]
  BY Zenon DEF TypeInv
<1>2. pc[t] # "asleep"
  BY Zenon DEF ExitPoints
<1>3. {"exit_mark", "down"} \subseteq PCs
  BY Zenon DEF PCs
<1>4. CASE k \notin Keys
  <2>1. pc' = [pc EXCEPT ![t] = "exit_mark"] /\ node' = node /\ len' = len
    BY <1>4, Zenon DEF UpSema, Goto, semas
  <2>2. SemaType
    BY <1>1, <2>1, Zenon DEF SemaType
  <2>3. /\ \A u \in Thread : pc[u] = "asleep" => pc'[u] = "asleep"
        /\ \A u \in Thread : pc'[u] \in {"scan", "down", "asleep"} =>
                                pc[u] \in {"scan", "down", "asleep"} /\ tid'[u] = tid[u]
    BY <1>1, <1>2, <2>1, Zenon
  <2>4. SemaInv'
    BY <1>1, <2>1, <2>3, SemaFrame, Zenon
  <2> QED
    BY <1>1, <1>3, <2>1, <2>2, <2>4, Zenon
<1>5. CASE k \in Keys
  <2>1. PICK s : s = SlotOf(k)
    BY Zenon
  <2>2. s \in 1..len
    BY <1>5, <2>1, SlotOfKey, Zenon
  <2>3. PICK q : q = node[s].waiters
    BY Zenon
  <2>4. s \in Slot /\ node[s] \in Sema /\ q \in Seq(Thread)
        /\ \A u \in Range(q) : u \in Thread /\ pc[u] = "asleep"
    BY <2>2, <2>3, QueuedSleeps, Zenon
  <2>5. IsInjective(q)
    BY <2>2, <2>3, SemaParts, Zenon DEF QueueOK
  <2>6. PICK r : r = IF q = <<>> THEN q ELSE Tail(q)
    BY Zenon
  <2>7. /\ node' = [node EXCEPT ![s].value = @ + 1, ![s].waiters = r] /\ len' = len
        /\ pc' = IF q = <<>> THEN [pc EXCEPT ![t] = "exit_mark"]
                 ELSE [pc EXCEPT ![t] = "exit_mark", ![Head(q)] = "down"]
    BY <1>5, <2>1, <2>3, <2>6, Zenon DEF UpSema
  <2>8. r \in Seq(Thread) /\ IsInjective(r) /\ Range(r) \subseteq Range(q)
        /\ (q # <<>> => Head(q) \in Range(q) /\ Head(q) \notin Range(r))
    BY <2>4, <2>5, <2>6, TailQueue, Zenon
  <2>9. /\ node'[s] = [node[s] EXCEPT !.value = node[s].value + 1, !.waiters = r]
        /\ \A i \in Slot \ {s} : node'[i] = node[i]
    BY <1>1, <2>4, <2>7, Zenon
  <2>10. node'[s] \in Sema /\ node'[s].key = node[s].key /\ node'[s].waiters = r
    <3>1. PICK v \in Nat : v = node[s].value + 1
      BY <2>4 DEF Sema
    <3>2. node'[s] = [node[s] EXCEPT !.value = v, !.waiters = r]
      BY <2>9, <3>1, Zenon
    <3> QED
      BY <2>4, <2>8, <3>2, Zenon DEF Sema
  <2>11. SemaType
    <3>1. node' \in [Slot -> Sema]
      <4>1. DOMAIN node' = Slot /\ node' = [i \in Slot |-> node'[i]]
        BY <1>1, <2>7, Zenon
      <4>2. \A i \in Slot : node'[i] \in Sema
        BY <1>1, <2>9, <2>10, Zenon
      <4> QED
        BY <4>1, <4>2, Zenon
    <3> QED
      BY <1>1, <2>7, <3>1, Zenon DEF SemaType
  <2>12. /\ pc' \in [Thread -> PCs] /\ pc'[t] = "exit_mark"
         /\ \A u \in Thread \ {t} : pc'[u] = pc[u] \/ (q # <<>> /\ u = Head(q) /\ pc'[u] = "down")
    <3>1. CASE q = <<>>
      BY <1>1, <1>3, <2>7, <3>1, Zenon
    <3>2. CASE q # <<>>
      <4>1. PICK h : h = Head(q)
        BY Zenon
      <4>2. h \in Thread /\ pc[h] = "asleep" /\ h # t
        BY <1>2, <2>4, <2>8, <3>2, <4>1, Zenon
      <4>3. pc' = [pc EXCEPT ![t] = "exit_mark", ![h] = "down"]
        BY <2>7, <3>2, <4>1, Zenon
      <4>4. /\ pc' \in [Thread -> PCs] /\ pc'[t] = "exit_mark"
            /\ \A u \in Thread \ {t} : pc'[u] = pc[u] \/ (u = h /\ pc'[u] = "down")
        BY <1>1, <1>3, <4>2, <4>3, Zenon
      <4> QED
        BY <3>2, <4>1, <4>4, Zenon
    <3> QED
      BY <3>1, <3>2, Zenon
  <2>13. \A u \in Thread \ {t} : pc'[u] = pc[u] \/ (pc[u] = "asleep" /\ pc'[u] = "down")
    BY <2>4, <2>8, <2>12, Zenon
  <2>14. ASSUME NEW i \in 1..len, i # s
         PROVE  /\ node'[i] = node[i]
                /\ \A u \in Range(node[i].waiters) : pc'[u] = "asleep"
                /\ \A u \in Range(r) : u \notin Range(node[i].waiters)
    <3>1. i \in Slot /\ \A u \in Range(node[i].waiters) : u \in Thread /\ pc[u] = "asleep"
      BY QueuedSleeps, Zenon
    <3>2. \A u \in Range(node[i].waiters) : u \notin Range(q)
      BY <2>2, <2>3, <2>14, SemaParts, Zenon DEF QueuesApart
    <3>3. \A u \in Range(node[i].waiters) : pc'[u] = "asleep"
      BY <1>2, <2>8, <2>12, <3>1, <3>2, Zenon
    <3> QED
      BY <2>8, <2>9, <2>14, <3>1, <3>2, <3>3, Zenon
  <2>15. \A u \in Range(r) : pc'[u] = "asleep"
    BY <1>2, <2>4, <2>8, <2>12, Zenon
  <2>16. \A u \in Thread : pc'[u] \in {"scan", "down", "asleep"} =>
                              pc[u] \in {"scan", "down", "asleep"} /\ tid'[u] = tid[u]
    BY <2>12, <2>13, Zenon
  <2>17. SemaInv'
    <3>1. len' = len /\ \A i \in 1..len : i # s => node'[i] = node[i]
      BY <2>7, <2>14, Zenon
    <3>2. \A i \in 1..len : i # s => \A u \in Range(node[i].waiters) : pc'[u] = "asleep"
      BY <2>14, Zenon
    <3>3. IsInjective(node'[s].waiters) /\ Range(node'[s].waiters) = Range(r)
      BY <2>8, <2>10, Zenon
    <3>4. \A i \in 1..len, u \in Range(node'[s].waiters) :
             pc'[u] = "asleep" /\ (i # s => u \notin Range(node[i].waiters))
      BY <2>14, <2>15, <3>3, Zenon
    <3> QED
      BY <2>2, <2>10, <2>16, <3>1, <3>2, <3>3, <3>4, QueueSet, Zenon
  <2> QED
    BY <2>11, <2>12, <2>13, <2>17, Zenon
<1> QED
  BY <1>4, <1>5, Zenon

(* down on whatever the slot holds: a live semaphore takes one off or a    *)
(* sleeper on; a slot past the last one is nobody's.                       *)
LEMMA DownSema ==
    ASSUME TypeInv, SemaInv, NEW t \in Thread, Down(t)
    PROVE  SemaType /\ SemaInv'
<1>1. /\ node \in [Slot -> Sema] /\ len \in 0..MaxTid /\ pc \in [Thread -> PCs]
      /\ slot[t] \in Slot
  BY Zenon DEF TypeInv
<1>2. PICK s \in Slot : s = slot[t]
  BY <1>1, Zenon
<1>3. /\ pc[t] = "down" /\ tid' = tid /\ len' = len
      /\ \/ /\ node[s].value > 0 /\ Goto(t, "scan")
            /\ node' = [node EXCEPT ![s].value = @ - 1]
         \/ /\ Goto(t, "asleep")
            /\ node' = [node EXCEPT ![s].waiters = Append(@, t)]
  BY <1>2, Zenon DEF Down, At
<1>4. node[s] \in Sema /\ node[s].waiters \in Seq(Thread) /\ node[s].value \in Nat
  BY <1>1, Zenon DEF Sema
<1>5. PICK x : x = node'[s]
  BY Zenon
<1>6. ASSUME x \in Sema, node' = [node EXCEPT ![s] = x] PROVE SemaType
  BY <1>1, <1>3, <1>6, Zenon DEF SemaType
<1>7. \A i \in 1..len : i \in Slot /\ t \notin Range(node[i].waiters)
  BY <1>3, QueuedSleeps, Zenon
<1>8. ASSUME NEW i \in 1..len, NEW u \in Range(node[i].waiters), pc'[t] \in PCs,
             \A v \in Thread \ {t} : pc'[v] = pc[v]
      PROVE  pc'[u] = "asleep"
  BY <1>7, <1>8, QueuedSleeps, Zenon
<1>9. CASE /\ node[s].value > 0 /\ Goto(t, "scan")
           /\ node' = [node EXCEPT ![s].value = @ - 1]
  <2>1. x = [node[s] EXCEPT !.value = node[s].value - 1] /\ node' = [node EXCEPT ![s] = x]
    BY <1>1, <1>5, <1>9, Zenon
  <2>2. node[s].value - 1 \in Nat
    BY <1>4, <1>9
  <2>3. x \in Sema /\ x.key = node[s].key /\ x.waiters = node[s].waiters
    BY <1>4, <2>1, <2>2, Zenon DEF Sema
  <2>4. SemaType
    BY <1>6, <2>1, <2>3, Zenon
  <2>5. pc'[t] = "scan" /\ \A v \in Thread \ {t} : pc'[v] = pc[v]
    BY <1>1, <1>9, Zenon DEF Goto
  <2>6. \A u \in Thread : pc'[u] \in {"scan", "down", "asleep"} =>
                             pc[u] \in {"scan", "down", "asleep"} /\ tid'[u] = tid[u]
    BY <1>3, <2>5, Zenon
  <2>7. \A i \in 1..len : /\ node'[i].key = node[i].key
                          /\ node'[i].waiters = node[i].waiters
    BY <1>1, <1>7, <2>1, <2>3, Zenon
  <2>8. \A i \in 1..len' : QueueOK(i)'
    <3>1. ASSUME NEW i \in 1..len PROVE QueueOK(i)'
      <4>1. \A u \in Range(node[i].waiters) : pc'[u] = "asleep"
        BY <1>7, <2>5, QueuedSleeps, Zenon
      <4> QED
        BY <2>7, <4>1, SemaParts, Zenon DEF QueueOK
    <3> QED
      BY <1>3, <3>1, Zenon
  <2>9. \A i, j \in 1..len' : i # j => QueuesApart(i, j)'
    BY <1>3, <2>7, SemaParts DEF QueuesApart
  <2>10. Keys' = Keys
    BY <1>3, <2>7 DEF Keys
  <2>11. \A u \in Thread : Keyed(u)'
    BY <2>6, <2>10, SemaParts, Zenon DEF Keyed
  <2> QED
    BY <2>4, <2>8, <2>9, <2>11, SemaPartsNext, Zenon
<1>10. CASE Goto(t, "asleep") /\ node' = [node EXCEPT ![s].waiters = Append(@, t)]
  <2>1. PICK q : q = Append(node[s].waiters, t)
    BY Zenon
  <2>2. x = [node[s] EXCEPT !.waiters = q] /\ node' = [node EXCEPT ![s] = x]
    BY <1>1, <1>5, <1>10, <2>1, Zenon
  <2>3. q \in Seq(Thread)
    BY <1>4, <2>1, AppendProperties, Zenon
  <2>4. x \in Sema /\ x.key = node[s].key /\ x.waiters = q
    BY <1>4, <2>2, <2>3, Zenon DEF Sema
  <2>5. SemaType
    BY <1>6, <2>2, <2>4, Zenon
  <2>6. pc'[t] = "asleep" /\ \A v \in Thread \ {t} : pc'[v] = pc[v]
    BY <1>1, <1>10, Zenon DEF Goto
  <2>7. \A u \in Thread : pc'[u] \in {"scan", "down", "asleep"} =>
                             pc[u] \in {"scan", "down", "asleep"} /\ tid'[u] = tid[u]
    BY <1>3, <2>6, Zenon
  <2>8. \A i \in 1..len : i # s => node'[i] = node[i]
    BY <1>1, <1>7, <2>2, Zenon
  <2>9. ASSUME NEW i \in 1..len PROVE \A u \in Range(node[i].waiters) : pc'[u] = "asleep"
    BY <1>7, <2>6, QueuedSleeps, Zenon
  <2>10. CASE s \in 1..len
    <3>1. IsInjective(node[s].waiters) /\ t \notin Range(node[s].waiters)
      BY <1>7, <2>10, SemaParts, Zenon DEF QueueOK
    <3>2. IsInjective(q) /\ Range(q) = Range(node[s].waiters) \cup {t}
      BY <1>4, <2>1, <3>1, AppendQueue
    <3>3. \A u \in Range(q) : pc'[u] = "asleep"
      BY <2>6, <2>9, <2>10, <3>2, Zenon
    <3>4. \A i \in 1..len : i # s => \A u \in Range(q) : u \notin Range(node[i].waiters)
      <4>1. \A i \in 1..len : i # s => QueuesApart(i, s)
        BY <2>10, SemaParts, Zenon
      <4> QED
        BY <1>7, <3>2, <4>1, Zenon DEF QueuesApart
    <3>5. node'[s].key = node[s].key /\ node'[s].waiters = q
      BY <1>5, <2>4, Zenon
    <3>6. SemaInv'
      BY <1>3, <2>7, <2>8, <2>9, <2>10, <3>2, <3>3, <3>4, <3>5, QueueSet
    <3> QED
      BY <2>5, <3>6, Zenon
  <2>11. CASE s \notin 1..len
    <3>1. \A i \in 1..len : node'[i] = node[i]
      BY <2>8, <2>11, Zenon
    <3>2. \A i \in 1..len' : QueueOK(i)'
      BY <1>3, <2>9, <3>1, SemaParts, Zenon DEF QueueOK
    <3>3. \A i, j \in 1..len' : i # j => QueuesApart(i, j)'
      <4>1. ASSUME NEW i \in 1..len, NEW j \in 1..len, i # j PROVE QueuesApart(i, j)'
        <5>1. QueuesApart(i, j)
          BY <4>1, SemaParts, Zenon
        <5>2. node'[i] = node[i] /\ node'[j] = node[j]
          BY <3>1, Zenon
        <5> QED
          BY <5>1, <5>2, Zenon DEF QueuesApart
      <4> QED
        BY <1>3, <4>1, Zenon
    <3>4. Keys' = Keys
      BY <1>3, <3>1, Zenon DEF Keys
    <3>5. \A u \in Thread : Keyed(u)'
      BY <2>7, <3>4, SemaParts, Zenon DEF Keyed
    <3> QED
      BY <2>5, <3>2, <3>3, <3>5, SemaPartsNext, Zenon
  <2> QED
    BY <2>10, <2>11, Zenon
<1> QED
  BY <1>3, <1>9, <1>10, Zenon

-----------------------------------------------------------------------------
(* One step                                                                *)

(* A step of t that leaves the semaphores and the sleepers alone.          *)
LEMMA QuietSema ==
    ASSUME TypeInv, SemaInv, NEW t \in Thread, node' = node, len' = len, pc[t] # "asleep",
           \A u \in Thread \ {t} : pc'[u] = pc[u] /\ tid'[u] = tid[u],
           pc'[t] \in {"scan", "down", "asleep"} => pc[t] = "scan" /\ tid'[t] = tid[t]
    PROVE  SemaInv'
<1>1. node \in [Slot -> Sema] /\ len \in 0..MaxTid
  BY Zenon DEF TypeInv
<1>2. /\ \A u \in Thread : pc[u] = "asleep" => pc'[u] = "asleep"
      /\ \A u \in Thread : pc'[u] \in {"scan", "down", "asleep"} =>
                              pc[u] \in {"scan", "down", "asleep"} /\ tid'[u] = tid[u]
  BY Zenon
<1> QED
  BY <1>1, <1>2, SemaFrame, Zenon

(* A step that leaves what the waits returned, or has one that returned    *)
(* nothing, and forgets no exit.                                           *)
LEMMA RetKept ==
    ASSUME WaitTellsStatus,
           \A u \in Thread : ret'[u] = ret[u] \/ ret'[u] \in {<<>>, <<-1, -1>>},
           \A k \in DOMAIN gave : k \in DOMAIN gave' /\ gave'[k] = gave[k]
    PROVE  WaitTellsStatus'
BY ZenonT(40) DEF WaitTellsStatus

(* A step in which no wait returns and no process exits.                   *)
LEMMA RetSame ==
    ASSUME WaitTellsStatus, ret' = ret, gave' = gave
    PROVE  WaitTellsStatus'
BY Zenon DEF WaitTellsStatus

(* allocate_tid, up to the read of NEXT_TID, keeps the invariant.          *)
LEMMA ReadTidInv ==
    ASSUME IInv, NEW t \in Thread, ReadTid(t)
    PROVE  IInv'
<1>1. TypeInv /\ Order /\ SemaInv /\ WaitTellsStatus
  BY Zenon DEF IInv, Order
<1>2. TypeInv' /\ Order'
  BY <1>1, ReadTidKeeps, Zenon
<1>3. /\ pc[t] \in {"user", "boot"} /\ pc' = [pc EXCEPT ![t] = "tid"]
      /\ ret' = [ret EXCEPT ![t] = <<>>] /\ UNCHANGED <<tid, gave, node, len>>
  BY Zenon DEF ReadTid, At, Goto, registry, semas
<1>4. pc \in [Thread -> PCs] /\ ret \in [Thread -> {<<>>} \cup (Word \X Word)]
  BY <1>1, Zenon DEF TypeInv
<1>5. pc'[t] = "tid" /\ \A u \in Thread \ {t} : pc'[u] = pc[u]
  BY <1>3, <1>4, Zenon
<1>6. SemaInv'
  BY <1>1, <1>3, <1>5, QuietSema, Zenon
<1>7. \A u \in Thread : ret'[u] = ret[u] \/ ret'[u] = <<>>
  BY <1>3, <1>4, Zenon
<1>8. WaitTellsStatus'
  BY <1>1, <1>3, <1>7, RetKept, Zenon
<1> QED
  BY <1>2, <1>6, <1>8, Zenon DEF IInv, Order

(* The rest of thread::create keeps the invariant.                         *)
LEMMA CreateInv ==
    ASSUME "tid" \notin Windows, IInv, NEW t \in Thread, NEW c \in Thread, Create(t, c)
    PROVE  IInv'
<1>1. TypeInv /\ Order /\ SemaInv /\ WaitTellsStatus
  BY Zenon DEF IInv, Order
<1>2. TypeInv' /\ Order'
  BY <1>1, CreateType, CreateKeeps, Zenon
<1>3. /\ pc[t] = "tid" /\ pc[c] = "free" /\ tid' = [tid EXCEPT ![c] = arg[t]]
      /\ pc' = [pc EXCEPT ![t] = "state", ![c] = IF t = Main THEN "load" ELSE "user"]
      /\ UNCHANGED <<ret, gave, node, len>>
  BY Zenon DEF Create, At, registry, semas
<1>4. /\ pc \in [Thread -> PCs] /\ tid \in [Thread -> 0..MaxTid]
      /\ node \in [Slot -> Sema] /\ len \in 0..MaxTid
  BY <1>1, Zenon DEF TypeInv
<1>5. /\ \A u \in Thread : pc[u] = "asleep" => pc'[u] = "asleep"
      /\ \A u \in Thread : pc'[u] \in {"scan", "down", "asleep"} =>
                              pc[u] \in {"scan", "down", "asleep"} /\ tid'[u] = tid[u]
  BY <1>3, <1>4, Zenon
<1>6. SemaInv'
  BY <1>1, <1>3, <1>4, <1>5, SemaFrame, Zenon
<1>7. WaitTellsStatus'
  BY <1>1, <1>3, RetSame, Zenon
<1> QED
  BY <1>2, <1>6, <1>7, Zenon DEF IInv, Order

(* The registration of a child keeps the invariant.                        *)
LEMMA InsertStateInv ==
    ASSUME IInv, NEW t \in Thread, InsertState(t)
    PROVE  IInv'
<1>1. TypeInv /\ Order /\ SemaInv /\ WaitTellsStatus
  BY Zenon DEF IInv, Order
<1>2. TypeInv' /\ Order'
  BY <1>1, InsertStateType, InsertStateKeeps, Zenon
<1>3. /\ pc[t] = "state" /\ pc' = [pc EXCEPT ![t] = "sema"]
      /\ UNCHANGED <<tid, ret, gave, node, len>>
  BY Zenon DEF InsertState, At, Goto, locals, semas
<1>4. pc'[t] = "sema" /\ \A u \in Thread \ {t} : pc'[u] = pc[u]
  BY <1>1, <1>3, Zenon DEF TypeInv
<1>5. SemaInv'
  BY <1>1, <1>3, <1>4, QuietSema, Zenon
<1>6. WaitTellsStatus'
  BY <1>1, <1>3, RetSame, Zenon
<1> QED
  BY <1>2, <1>5, <1>6, Zenon DEF IInv, Order

(* The end of fork and execute keeps the invariant.                        *)
LEMMA ReturnForkInv ==
    ASSUME Counting, IInv, NEW t \in Thread, ReturnFork(t)
    PROVE  IInv'
<1>1. TypeInv /\ Order /\ SemaInv /\ WaitTellsStatus /\ IdInv
  BY Zenon DEF IInv, Order
<1>2. /\ pc[t] = "sema" /\ EnsureSema(tid[t])
      /\ pc' = [pc EXCEPT ![t] = IF t = Main THEN "loaded" ELSE "user"]
      /\ UNCHANGED <<tid, ret, gave>>
  BY Zenon DEF ReturnFork, At, Goto, registry
<1>3. pc'[t] # "asleep" /\ \A u \in Thread \ {t} : pc'[u] = pc[u]
  BY <1>1, <1>2, Zenon DEF TypeInv
<1>4. SemaType /\ SemaInv'
  BY <1>1, <1>2, <1>3, EnsureSemaKeeps, Zenon
<1>5. TypeInv' /\ Order'
  BY <1>1, <1>4, ReturnForkKeeps, Zenon
<1>6. WaitTellsStatus'
  BY <1>1, <1>2, RetSame, Zenon
<1> QED
  BY <1>4, <1>5, <1>6, Zenon DEF IInv, Order

(* start_process keeps the invariant.                                      *)
LEMMA LoadInv ==
    ASSUME IInv, NEW t \in Thread, Load(t)
    PROVE  IInv'
<1>1. TypeInv /\ Order /\ SemaInv /\ WaitTellsStatus
  BY Zenon DEF IInv, Order
<1>2. TypeInv' /\ Order'
  BY <1>1, LoadKeeps, Zenon
<1>3. PICK ok \in BOOLEAN : /\ Goto(t, IF ok THEN "user" ELSE "free")
                            /\ tid' = IF ok THEN tid ELSE [tid EXCEPT ![t] = NoTid]
  BY Zenon DEF Load
<1>4. pc[t] = "load" /\ UNCHANGED <<ret, gave, node, len>>
  BY Zenon DEF Load, At, semas
<1>5. pc'[t] \in {"user", "free"} /\ \A u \in Thread \ {t} : pc'[u] = pc[u] /\ tid'[u] = tid[u]
  BY <1>1, <1>3, Zenon DEF TypeInv, Goto
<1>6. SemaInv'
  BY <1>1, <1>4, <1>5, QuietSema, Zenon
<1>7. WaitTellsStatus'
  BY <1>1, <1>4, RetSame, Zenon
<1> QED
  BY <1>2, <1>6, <1>7, Zenon DEF IInv, Order

(* execute after the load keeps the invariant.                             *)
LEMMA LoadedInv ==
    ASSUME IInv, NEW t \in Thread, Loaded(t)
    PROVE  IInv'
<1>1. TypeInv /\ Order /\ SemaInv /\ WaitTellsStatus
  BY Zenon DEF IInv, Order
<1>2. TypeInv' /\ Order'
  BY <1>1, LoadedKeeps, Zenon
<1>3. /\ pc[t] = "loaded" /\ (Goto(t, "halt") \/ Goto(t, "reap"))
      /\ UNCHANGED <<tid, ret, gave, node, len>>
  BY Zenon DEF Loaded, At, locals, semas
<1>4. pc'[t] \in {"halt", "reap"} /\ \A u \in Thread \ {t} : pc'[u] = pc[u]
  BY <1>1, <1>3, Zenon DEF TypeInv, Goto
<1>5. SemaInv'
  BY <1>1, <1>3, <1>4, QuietSema, Zenon
<1>6. WaitTellsStatus'
  BY <1>1, <1>3, RetSame, Zenon
<1> QED
  BY <1>2, <1>5, <1>6, Zenon DEF IInv, Order

(* The call of wait keeps the invariant.                                   *)
LEMMA WaitInv ==
    ASSUME Counting, IInv, NEW t \in Thread, Wait(t)
    PROVE  IInv'
<1>1. TypeInv /\ Order /\ SemaInv /\ WaitTellsStatus /\ IdInv
  BY Zenon DEF IInv, Order
<1>2. /\ pc[t] = "user" /\ EnsureSema(tid[t]) /\ pc' = [pc EXCEPT ![t] = "scan"]
      /\ ret' = [ret EXCEPT ![t] = <<>>] /\ UNCHANGED <<tid, gave>>
  BY Zenon DEF Wait, At, Goto, registry
<1>3. pc'[t] # "asleep" /\ \A u \in Thread \ {t} : pc'[u] = pc[u]
  BY <1>1, <1>2, Zenon DEF TypeInv
<1>4. SemaType /\ SemaInv'
  BY <1>1, <1>2, <1>3, EnsureSemaKeeps, Zenon
<1>5. TypeInv' /\ Order'
  BY <1>1, <1>4, WaitKeeps, Zenon
<1>6. \A u \in Thread : ret'[u] = ret[u] \/ ret'[u] = <<>>
  BY <1>1, <1>2, Zenon DEF TypeInv
<1>7. WaitTellsStatus'
  BY <1>1, <1>2, <1>6, RetKept, Zenon
<1> QED
  BY <1>4, <1>5, <1>7, Zenon DEF IInv, Order

(* The loop of wait_any_child keeps the invariant: a thread in it has a    *)
(* semaphore to find.                                                      *)
LEMMA ScanInv ==
    ASSUME Counting, IInv, NEW t \in Thread, Scan(t)
    PROVE  IInv'
<1>1. TypeInv /\ Order /\ SemaInv /\ WaitTellsStatus
  BY Zenon DEF IInv, Order
<1>2. /\ pc[t] = "scan" /\ UNCHANGED <<tid, gave, node, len>>
      /\ (Goto(t, "reap") \/ Goto(t, "user") \/ Goto(t, "down"))
      /\ ret' = ret \/ ret' = [ret EXCEPT ![t] = <<-1, -1>>]
      /\ slot' = slot \/ slot' = [slot EXCEPT ![t] = SlotOf(tid[t])]
  BY Zenon DEF Scan, At, semas
<1>3. SlotOf(tid[t]) \in Slot
  <2>1. tid[t] \in Keys
    BY <1>1, <1>2, SemaParts, Zenon DEF Keyed
  <2>2. SlotOf(tid[t]) \in 1..len
    BY <2>1, SlotOfKey, Zenon
  <2> QED
    BY <1>1, <2>2, QueuedSleeps, Zenon
<1>4. slot' \in [Thread -> Slot]
  BY <1>1, <1>2, <1>3, Zenon DEF TypeInv
<1>5. TypeInv' /\ Order'
  BY <1>1, <1>4, ScanKeeps, Zenon
<1>6. \A u \in Thread \ {t} : pc'[u] = pc[u]
  BY <1>1, <1>2, Zenon DEF TypeInv, Goto
<1>7. SemaInv'
  BY <1>1, <1>2, <1>6, QuietSema, Zenon
<1>8. \A u \in Thread : ret'[u] = ret[u] \/ ret'[u] = <<-1, -1>>
  BY <1>1, <1>2, Zenon DEF TypeInv
<1>9. WaitTellsStatus'
  BY <1>1, <1>2, <1>8, RetKept, Zenon
<1> QED
  BY <1>5, <1>7, <1>9, Zenon DEF IInv, Order

(* The down of a waiter keeps the invariant.                               *)
LEMMA DownInv ==
    ASSUME IInv, NEW t \in Thread, Down(t)
    PROVE  IInv'
<1>1. TypeInv /\ Order /\ SemaInv /\ WaitTellsStatus
  BY Zenon DEF IInv, Order
<1>2. SemaType /\ SemaInv'
  BY <1>1, DownSema, Zenon
<1>3. TypeInv' /\ Order'
  BY <1>1, <1>2, DownKeeps, Zenon
<1>4. ret' = ret /\ gave' = gave
  BY Zenon DEF Down, registry
<1>5. WaitTellsStatus'
  BY <1>1, <1>4, RetSame, Zenon
<1> QED
  BY <1>2, <1>3, <1>5, Zenon DEF IInv, Order

(* The status that wait returns is the one the child gave: its semaphore   *)
(* is up, so it has exited.                                                *)
LEMMA ReapInv ==
    ASSUME IInv, NEW t \in Thread, Reap(t)
    PROVE  IInv'
<1>1. TypeInv /\ Order /\ SemaInv /\ WaitTellsStatus /\ ExitInv
  BY Zenon DEF IInv, Order
<1>2. TypeInv' /\ Order'
  BY <1>1, ReapKeeps, Zenon
<1>3. PICK k \in DOMAIN states : k = arg[t] /\ states[k].sema > 0
  BY Zenon DEF Reap
<1>4. PICK s : s = states[k].status
  BY Zenon
<1>5. /\ pc[t] = "reap" /\ pc' = [pc EXCEPT ![t] = IF t = Main THEN "halt" ELSE "user"]
      /\ ret' = [ret EXCEPT ![t] = <<k, s>>] /\ UNCHANGED <<tid, gave, node, len>>
  BY <1>3, <1>4, Zenon DEF Reap, At, Goto, semas
<1>6. pc'[t] \in {"halt", "user"} /\ \A u \in Thread \ {t} : pc'[u] = pc[u]
  BY <1>1, <1>5, Zenon DEF TypeInv
<1>7. SemaInv'
  BY <1>1, <1>5, <1>6, QuietSema, Zenon
<1>8. k \in DOMAIN gave /\ gave[k] = s
  BY <1>1, <1>3, <1>4, Zenon DEF ExitInv, StatusOK
<1>9. ret'[t] = <<k, s>> /\ \A u \in Thread \ {t} : ret'[u] = ret[u]
  BY <1>1, <1>5, Zenon DEF TypeInv
<1>10. ASSUME NEW u \in Thread, ret'[u] \notin {<<>>, <<-1, -1>>}
       PROVE  ret'[u][1] \in DOMAIN gave /\ gave[ret'[u][1]] = ret'[u][2]
  <2>1. CASE u = t
    BY <1>8, <1>9, <2>1
  <2>2. CASE u # t
    BY <1>1, <1>9, <1>10, <2>2, Zenon DEF WaitTellsStatus
  <2> QED
    BY <2>1, <2>2, Zenon
<1>11. WaitTellsStatus'
  BY <1>5, <1>10, Zenon DEF WaitTellsStatus
<1> QED
  BY <1>2, <1>7, <1>11, Zenon DEF IInv, Order

(* A process that exits gave no status before.                             *)
LEMMA ExitInvKept ==
    ASSUME IInv, NEW t \in Thread, Exit(t)
    PROVE  IInv'
<1>1. TypeInv /\ Order /\ SemaInv /\ WaitTellsStatus /\ ExitInv
  BY Zenon DEF IInv, Order
<1>2. TypeInv' /\ Order'
  BY <1>1, ExitKeeps, Zenon
<1>3. /\ pc[t] = "user" /\ pc' = [pc EXCEPT ![t] = "exit_up"]
      /\ ret' = [ret EXCEPT ![t] = <<>>] /\ UNCHANGED <<tid, node, len>>
  BY Zenon DEF Exit, At, Goto, semas
<1>4. tid[t] \notin DOMAIN gave
  BY <1>1, <1>3, Zenon DEF ExitInv, ExitOK, ExitPoints
<1>5. \A k \in DOMAIN gave : k \in DOMAIN gave' /\ gave'[k] = gave[k]
  BY <1>4, Zenon DEF Exit
<1>6. pc'[t] = "exit_up" /\ \A u \in Thread \ {t} : pc'[u] = pc[u]
  BY <1>1, <1>3, Zenon DEF TypeInv
<1>7. SemaInv'
  BY <1>1, <1>3, <1>6, QuietSema, Zenon
<1>8. \A u \in Thread : ret'[u] = ret[u] \/ ret'[u] = <<>>
  BY <1>1, <1>3, Zenon DEF TypeInv
<1>9. WaitTellsStatus'
  BY <1>1, <1>5, <1>8, RetKept, Zenon
<1> QED
  BY <1>2, <1>7, <1>9, Zenon DEF IInv, Order

(* The signal to the parent keeps the invariant.                           *)
LEMMA ExitUpInv ==
    ASSUME IInv, NEW t \in Thread, ExitUp(t)
    PROVE  IInv'
<1>1. TypeInv /\ Order /\ SemaInv /\ WaitTellsStatus
  BY Zenon DEF IInv, Order
<1>2. pc[t] = "exit_up" /\ UNCHANGED <<tid, ret, gave>>
  BY Zenon DEF ExitUp, At, locals, registry
<1>3. /\ SemaType /\ SemaInv'
      /\ pc' \in [Thread -> PCs] /\ pc'[t] = "exit_mark"
      /\ \A u \in Thread \ {t} : pc'[u] = pc[u] \/ (pc[u] = "asleep" /\ pc'[u] = "down")
  <2>1. CASE tid[t] \in DOMAIN states
    <3>1. PICK k : UpSema(k, t, "exit_mark")
      BY <2>1, Zenon DEF ExitUp
    <3>2. pc[t] \in ExitPoints
      BY <1>2, Zenon DEF ExitPoints
    <3> QED
      BY <1>1, <1>2, <3>1, <3>2, UpSemaKeeps, Zenon
  <2>2. CASE tid[t] \notin DOMAIN states
    <3>1. pc' = [pc EXCEPT ![t] = "exit_mark"] /\ UNCHANGED <<node, len>>
      BY <2>2, Zenon DEF ExitUp, Goto, semas
    <3>2. /\ pc' \in [Thread -> PCs] /\ pc'[t] = "exit_mark"
          /\ \A u \in Thread \ {t} : pc'[u] = pc[u]
      BY <1>1, <3>1, Zenon DEF TypeInv, PCs
    <3>3. SemaInv'
      BY <1>1, <1>2, <3>1, <3>2, QuietSema, Zenon
    <3>4. SemaType
      BY <1>1, <3>1, Zenon DEF TypeInv, SemaType
    <3> QED
      BY <3>2, <3>3, <3>4, Zenon
  <2> QED
    BY <2>1, <2>2, Zenon
<1>4. TypeInv' /\ Order'
  BY <1>1, <1>3, ExitUpKeeps, Zenon
<1>5. WaitTellsStatus'
  BY <1>1, <1>2, RetSame, Zenon
<1> QED
  BY <1>3, <1>4, <1>5, Zenon DEF IInv, Order

(* The record of the status keeps the invariant.                           *)
LEMMA ExitMarkInv ==
    ASSUME IInv, NEW t \in Thread, ExitMark(t)
    PROVE  IInv'
<1>1. TypeInv /\ Order /\ SemaInv /\ WaitTellsStatus
  BY Zenon DEF IInv, Order
<1>2. TypeInv' /\ Order'
  BY <1>1, ExitMarkKeeps, Zenon
<1>3. /\ pc[t] = "exit_mark" /\ (Goto(t, "exit_wake") \/ Goto(t, "exit_children"))
      /\ UNCHANGED <<tid, ret, gave, node, len>>
  BY Zenon DEF ExitMark, At, locals, semas
<1>4. /\ pc'[t] \in {"exit_wake", "exit_children"}
      /\ \A u \in Thread \ {t} : pc'[u] = pc[u]
  BY <1>1, <1>3, Zenon DEF TypeInv, Goto
<1>5. SemaInv'
  BY <1>1, <1>3, <1>4, QuietSema, Zenon
<1>6. WaitTellsStatus'
  BY <1>1, <1>3, RetSame, Zenon
<1> QED
  BY <1>2, <1>5, <1>6, Zenon DEF IInv, Order

(* The signal to a thread that waits for this child keeps the invariant.   *)
LEMMA ExitWakeInv ==
    ASSUME IInv, NEW t \in Thread, ExitWake(t)
    PROVE  IInv'
<1>1. TypeInv /\ Order /\ SemaInv /\ WaitTellsStatus
  BY Zenon DEF IInv, Order
<1>2. TypeInv' /\ Order'
  BY <1>1, ExitWakeKeeps, Zenon
<1>3. /\ pc[t] = "exit_wake" /\ Goto(t, "exit_children")
      /\ UNCHANGED <<tid, ret, gave, node, len>>
  BY Zenon DEF ExitWake, At, locals, semas
<1>4. pc'[t] = "exit_children" /\ \A u \in Thread \ {t} : pc'[u] = pc[u]
  BY <1>1, <1>3, Zenon DEF TypeInv, Goto
<1>5. SemaInv'
  BY <1>1, <1>3, <1>4, QuietSema, Zenon
<1>6. WaitTellsStatus'
  BY <1>1, <1>3, RetSame, Zenon
<1> QED
  BY <1>2, <1>5, <1>6, Zenon DEF IInv, Order

(* The loop of exit over the children keeps the invariant.                 *)
LEMMA ExitChildrenInv ==
    ASSUME Counting, IInv, NEW t \in Thread, ExitChildren(t)
    PROVE  IInv'
<1>1. TypeInv /\ Order /\ SemaInv /\ WaitTellsStatus
  BY Zenon DEF IInv, Order
<1>2. TypeInv' /\ Order'
  BY <1>1, ExitChildrenKeeps, Zenon
<1>3. /\ pc[t] = "exit_children" /\ (Goto(t, "exit_sema") \/ pc' = pc)
      /\ UNCHANGED <<tid, ret, gave, node, len>>
  BY Zenon DEF ExitChildren, At, locals, semas
<1>4. /\ pc'[t] \in {"exit_sema", "exit_children"}
      /\ \A u \in Thread \ {t} : pc'[u] = pc[u]
  BY <1>1, <1>3, Zenon DEF TypeInv, Goto
<1>5. SemaInv'
  BY <1>1, <1>3, <1>4, QuietSema, Zenon
<1>6. WaitTellsStatus'
  BY <1>1, <1>3, RetSame, Zenon
<1> QED
  BY <1>2, <1>5, <1>6, Zenon DEF IInv, Order

(* The end of an exit keeps the invariant.                                 *)
LEMMA ExitSemaInv ==
    ASSUME IInv, NEW t \in Thread, ExitSema(t)
    PROVE  IInv'
<1>1. TypeInv /\ Order /\ SemaInv /\ WaitTellsStatus /\ IdInv
  BY Zenon DEF IInv, Order
<1>2. /\ pc[t] = "exit_sema" /\ RemoveSema(tid[t]) /\ Goto(t, "free")
      /\ tid' = [tid EXCEPT ![t] = NoTid] /\ UNCHANGED <<ret, gave>>
  BY Zenon DEF ExitSema, At, registry
<1>3. pc'[t] = "free" /\ \A u \in Thread \ {t} : pc'[u] = pc[u] /\ tid'[u] = tid[u]
  BY <1>1, <1>2, Zenon DEF TypeInv, Goto
<1>4. SemaType /\ SemaInv'
  BY <1>1, <1>2, <1>3, RemoveSemaKeeps, Zenon
<1>5. TypeInv' /\ Order'
  BY <1>1, <1>4, ExitSemaKeeps, Zenon
<1>6. WaitTellsStatus'
  BY <1>1, <1>2, RetSame, Zenon
<1> QED
  BY <1>4, <1>5, <1>6, Zenon DEF IInv, Order

(* The invariant holds when main boots.                                    *)
LEMMA InitInv == Init => IInv
<1> SUFFICES ASSUME Init PROVE IInv
  BY Zenon
<1>1. /\ Main \in Thread /\ MaxTid \in Nat /\ MaxTid >= 4 /\ FirstTid = 4
      /\ NoTid = 0 /\ MainTid = 1
  BY ProcessAssumption DEF FirstTid, NoTid, MainTid
<1>2. /\ pc = [t \in Thread |-> IF t = Main THEN "boot" ELSE "free"]
      /\ tid = [t \in Thread |-> IF t = Main THEN MainTid ELSE NoTid]
      /\ states = <<>> /\ gave = <<>> /\ len = 0 /\ next_tid = FirstTid
      /\ ret = [t \in Thread |-> <<>>]
  BY Zenon DEF Init
<1>3. DOMAIN states = {} /\ DOMAIN gave = {} /\ Keys = {} /\ Issued = {}
  BY <1>1, <1>2 DEF Keys, Issued
<1>4. TypeInv
  <2>1. pc \in [Thread -> PCs] /\ tid \in [Thread -> 0..MaxTid]
    BY <1>1, <1>2 DEF PCs
  <2>2. arg \in [Thread -> Word]
    BY <1>1, WordHas DEF Init
  <2>3. slot \in [Thread -> Slot] /\ ret \in [Thread -> {<<>>} \cup (Word \X Word)]
    BY <1>1 DEF Init, Slot
  <2>4. next_tid \in FirstTid..(MaxTid + 1) /\ len \in 0..MaxTid
    BY <1>1, <1>2
  <2>5. /\ states \in [DOMAIN states -> PState] /\ DOMAIN states \subseteq Issued
        /\ gave \in [DOMAIN gave -> Word] /\ DOMAIN gave \subseteq Issued
    BY <1>2, <1>3
  <2>6. node \in [Slot -> Sema]
    <3>1. <<>> \in Seq(Thread)
      BY EmptySeq, Zenon
    <3>2. NewSema(NoTid) \in Sema
      BY <1>1, <3>1 DEF NewSema, Sema
    <3> QED
      BY <3>2, Zenon DEF Init
  <2> QED
    BY <2>1, <2>2, <2>3, <2>4, <2>5, <2>6, Zenon DEF TypeInv
<1>5. IdInv
  BY <1>1, <1>2 DEF IdInv, TidsUnique, MainPoints
<1>6. CallInv
  BY <1>2, <1>3, Zenon DEF CallInv, CallOK
<1>7. ExitInv
  BY <1>2, <1>3, Zenon DEF ExitInv, ExitOK
<1>8. SemaInv
  BY <1>2 DEF SemaInv
<1>9. ParentsLive /\ WaitTellsStatus
  BY <1>2, <1>3, Zenon DEF ParentsLive, WaitTellsStatus
<1> QED
  BY <1>4, <1>5, <1>6, <1>7, <1>8, <1>9, Zenon DEF IInv

(* Every step keeps the invariant.                                         *)
LEMMA NextInv ==
    ASSUME Counting, "tid" \notin Windows, IInv, [Next]_vars
    PROVE  IInv'
<1>1. CASE Next
  <2>1. PICK t \in Thread : Kernel(t) \/ User(t)
    BY <1>1, Zenon DEF Next
  <2>2. CASE \E c \in Thread : Create(t, c)
    BY <2>2, CreateInv, Zenon
  <2>3. CASE ReadTid(t) \/ InsertState(t) \/ ReturnFork(t) \/ Load(t) \/ Loaded(t)
    BY <2>3, ReadTidInv, InsertStateInv, ReturnForkInv, LoadInv, LoadedInv, Zenon
  <2>4. CASE Wait(t) \/ Scan(t) \/ Down(t) \/ Reap(t)
    BY <2>4, WaitInv, ScanInv, DownInv, ReapInv, Zenon
  <2>5. CASE \/ Exit(t) \/ ExitUp(t) \/ ExitMark(t)
             \/ ExitWake(t) \/ ExitChildren(t) \/ ExitSema(t)
    BY <2>5, ExitInvKept, ExitUpInv, ExitMarkInv, ExitWakeInv, ExitChildrenInv, ExitSemaInv, Zenon
  <2> QED
    BY <2>1, <2>2, <2>3, <2>4, <2>5, Zenon DEF Kernel, User
<1>2. CASE UNCHANGED vars
  <2>1. UNCHANGED <<pc, tid, arg, slot, ret, next_tid, states, gave, node, len>>
    BY <1>2, Zenon DEF vars, locals, registry, semas
  <2>2. TypeInv'
    BY <2>1, Zenon DEF IInv, TypeInv, Issued
  <2>3. IdInv'
    BY <2>1, Zenon DEF IInv, IdInv, TidsUnique, Issued
  <2>4. CallInv'
    BY <2>1, Zenon DEF IInv, CallInv, CallOK, Issued
  <2>5. ExitInv'
    BY <2>1, Zenon DEF IInv, ExitInv, ExitOK, StatusOK
  <2>6. SemaInv'
    BY <2>1, Zenon DEF IInv, SemaInv, Keys
  <2>7. ParentsLive' /\ WaitTellsStatus'
    BY <2>1, Zenon DEF IInv, ParentsLive, Live, WaitTellsStatus
  <2> QED
    BY <2>2, <2>3, <2>4, <2>5, <2>6, <2>7, Zenon DEF IInv
<1> QED
  BY <1>1, <1>2, Zenon

-----------------------------------------------------------------------------
(* Theorems                                                                *)

(* What may leave the registry in a step.                                  *)
LEMMA ReapedByParent ==
    ASSUME Counting, IInv, Next, NEW k \in DOMAIN states \ DOMAIN states'
    PROVE  \E t \in Thread : tid[t] = states[k].parent /\ (states[k].exited \/ pc[t] = "loaded")
<1>1. TypeInv /\ CallInv /\ ExitInv
  BY Zenon DEF IInv
<1>2. PICK t \in Thread : Kernel(t) \/ User(t)
  BY Zenon DEF Next
<1>3. DOMAIN states' # DOMAIN states
  BY Zenon
<1>4. CASE Loaded(t)
  <2>1. pc[t] = "loaded"
    BY <1>4, Zenon DEF Loaded, At
  <2>2. k = arg[t]
    <3>1. CASE states' = Restrict(states, DOMAIN states \ {arg[t]})
      BY <3>1, Zenon DEF Restrict
    <3>2. CASE states' = [states EXCEPT ![arg[t]].waited = TRUE, ![arg[t]].load = @ - 1]
      BY <3>2, Zenon
    <3> QED
      BY <1>4, <3>1, <3>2, Zenon DEF Loaded
  <2> QED
    BY <1>1, <2>1, <2>2, Zenon DEF CallInv, CallOK
<1>5. CASE Reap(t)
  <2>1. pc[t] = "reap" /\ states[arg[t]].sema > 0
        /\ states' = Restrict(states, DOMAIN states \ {arg[t]})
    BY <1>5, Zenon DEF Reap, At
  <2>2. k = arg[t]
    BY <2>1, Zenon DEF Restrict
  <2>3. states[k].exited
    BY <1>1, <2>1, <2>2, Zenon DEF ExitInv, StatusOK
  <2>4. states[k].parent = tid[t]
    BY <1>1, <2>1, <2>2, Zenon DEF CallInv, CallOK
  <2> QED
    BY <2>3, <2>4, Zenon
<1>6. CASE ExitChildren(t)
  <2>1. Children(t) # {}
    BY <1>6, Zenon DEF ExitChildren
  <2>2. PICK c : c = Min(Children(t))
    BY Zenon
  <2>3. states' = IF states[c].exited THEN Restrict(states, DOMAIN states \ {c})
                  ELSE [states EXCEPT ![c].parent = MainTid]
    BY <1>6, <2>1, <2>2, Zenon DEF ExitChildren
  <2>4. k = c /\ states[c].exited
    BY <2>3, Zenon DEF Restrict
  <2>5. Children(t) \in SUBSET DOMAIN states
    BY Zenon DEF Children
  <2>6. c \in Children(t)
    BY <1>1, <2>1, <2>2, <2>5, LeastOf, Zenon
  <2> QED
    BY <2>4, <2>6, Zenon DEF Children
<1>7. CASE ~(Loaded(t) \/ Reap(t) \/ ExitChildren(t))
  <2>1. ~\E c \in Thread : Create(t, c)
    BY Zenon DEF Create, registry
  <2>2. ~(ReadTid(t) \/ InsertState(t) \/ ReturnFork(t) \/ Load(t))
    BY Zenon DEF ReadTid, InsertState, ReturnFork, Load, registry
  <2>3. ~(Wait(t) \/ Scan(t) \/ Down(t))
    BY Zenon DEF Wait, Scan, Down, registry
  <2>4. ~(Exit(t) \/ ExitUp(t) \/ ExitMark(t) \/ ExitWake(t) \/ ExitSema(t))
    BY Zenon DEF Exit, ExitUp, ExitMark, ExitWake, ExitSema, registry
  <2> QED
    BY <1>2, <1>7, <2>1, <2>2, <2>3, <2>4, Zenon DEF Kernel, User
<1> QED
  BY <1>4, <1>5, <1>6, <1>7, Zenon

LOCAL INSTANCE FiniteSetTheorems

(* A set of natural numbers has a least element.                           *)
LEMMA LeastPosition ==
    ASSUME NEW T \in SUBSET Nat, T # {}
    PROVE  \E x \in T : \A y \in T : x <= y
<1> DEFINE R == OpToRel(<, Nat)
<1>1. IsWellFoundedOn(R, Nat)
  BY NatLessThanWellFounded, Zenon
<1>2. \A x, y \in Nat : <<y, x>> \in R <=> y < x
  BY Zenon DEF OpToRel
<1> HIDE DEF R
<1>3. PICK x \in T : \A y \in T : ~(<<y, x>> \in R)
  BY <1>1, WFMin, Zenon
<1>4. \A y \in T : ~(y < x) /\ x \in Nat /\ y \in Nat
  BY <1>2, <1>3, Zenon
<1> QED
  BY <1>4

(* What the steps count with holds.                                        *)
LEMMA Counts ==
    Counting
<1>0. \A S : Cardinality(S) = SizeOf(S)
  BY Zenon DEF Cardinality, SizeOf
<1>1. ASSUME NEW n \in Nat PROVE IsFiniteSet(1..n) /\ Cardinality(1..n) = n
  BY FS_Interval
<1>2. ASSUME NEW n \in Nat, NEW S \in SUBSET (1..n) PROVE Cardinality(S) \in 0..n
  <2>1. IsFiniteSet(S) /\ Cardinality(S) <= Cardinality(1..n)
    BY <1>1, FS_Subset
  <2>2. Cardinality(S) \in Nat
    BY <2>1, FS_CardinalityType, Zenon
  <2> QED
    BY <1>1, <2>1, <2>2
<1>3. ASSUME NEW n \in Nat, NEW f \in [1..n -> 1..MaxTid], \A x, y \in 1..n : x # y => f[x] # f[y]
      PROVE  n <= MaxTid
  <2>1. MaxTid \in Nat
    BY ProcessAssumption DEF FirstTid
  <2>2. ~(MaxTid < n)
    BY <1>1, <1>3, <2>1, FS_PigeonHole, Zenon
  <2> QED
    BY <2>1, <2>2
<1>4. \A T \in SUBSET Nat : T # {} => \E x \in T : \A y \in T : x <= y
  BY LeastPosition, Zenon
<1>5. \A n \in Nat : \A S \in SUBSET (1..n) : SizeOf(S) \in 0..n
  BY <1>0, <1>2, Zenon
<1>6. \A n \in Nat : \A f \in [1..n -> 1..MaxTid] :
         (\A x, y \in 1..n : x # y => f[x] # f[y]) => n <= MaxTid
  BY <1>3, Zenon
<1> QED
  BY <1>4, <1>5, <1>6, Zenon DEF Counting

(* The invariant holds in every state of a kernel in which no tick falls   *)
(* between the load and the store of NEXT_TID in allocate_tid.             *)
LEMMA Invariant ==
    ASSUME "tid" \notin Windows
    PROVE  Spec => []IInv
<1>1. Init => IInv
  BY InitInv, Zenon
<1>2. IInv /\ [Next]_vars => IInv'
  BY Counts, NextInv, Zenon
<1> QED
  BY <1>1, <1>2, PTL DEF Spec

(* wait returns the status of the child it names: the value that           *)
(* exit_with_status of that child was called with, whichever order the     *)
(* exits and the waits of a family take.                                   *)
THEOREM WaitTellsTheStatus ==
    ASSUME "tid" \notin Windows
    PROVE  Spec => []WaitTellsStatus
<1>1. IInv => WaitTellsStatus
  BY Zenon DEF IInv
<1>2. Spec => []IInv
  BY Invariant, Zenon
<1> QED
  BY <1>1, <1>2, PTL

(* Every entry of PROCESS_STATES names a parent that is alive: the loop of *)
(* exit over the children leaves none that names the thread that is going. *)
THEOREM ParentsAreLive ==
    ASSUME "tid" \notin Windows
    PROVE  Spec => []ParentsLive
<1>1. IInv => ParentsLive
  BY Zenon DEF IInv
<1>2. Spec => []IInv
  BY Invariant, Zenon
<1> QED
  BY <1>1, <1>2, PTL

(* An entry leaves PROCESS_STATES only by its parent: in a wait or an exit *)
(* of the parent once the child has exited, or in the execute that         *)
(* learned that the child failed to load.                                  *)
THEOREM ReapedOnlyByParents ==
    ASSUME "tid" \notin Windows
    PROVE  Spec => OnlyParentsReap
<1>1. IInv /\ [Next]_vars =>
        [\A k \in DOMAIN states \ DOMAIN states' :
            \E t \in Thread : tid[t] = states[k].parent
                              /\ (states[k].exited \/ pc[t] = "loaded")]_vars
  BY Counts, ReapedByParent, Zenon
<1>2. Spec => []IInv
  BY Invariant, Zenon
<1> QED
  BY <1>1, <1>2, PTL DEF Spec, OnlyParentsReap

=============================================================================
