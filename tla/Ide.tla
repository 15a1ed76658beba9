--------------------------------- MODULE Ide ---------------------------------
(* One channel of the disk driver (devices/ide.rs) and the disk behind it.  *)
(* Threads read and write sectors; the channel's lock admits one at a time. *)
(* The interrupt handler and the disk take their steps between any two      *)
(* steps of a thread.                                                       *)
EXTENDS Integers, FiniteSets

CONSTANTS Thread, Sector, Value,
          Junk,           \* what a data port gives that has no data
          Faults,         \* "late": the disk may miss a deadline; "error": it may fail
          MaxCompletion   \* completions are counted up to this

ASSUME IdeAssumption == Junk \notin Value /\ MaxCompletion \in Nat \ {0}

VARIABLES lock, expecting, completion,  \* Channel
          pc, req, got,                 \* where a thread is, its request, what it read
          disk, dev, irq,               \* the disk, its registers, the interrupt line
          faulted                       \* ghost: the disk has failed or been late

vars == <<lock, expecting, completion, pc, req, got, disk, dev, irq, faulted>>

None == [op |-> "read", sector |-> CHOOSE s \in Sector : TRUE, value |-> Junk]
Request == {[op |-> "read", sector |-> s, value |-> Junk] : s \in Sector}
             \cup [op : {"write"}, sector : Sector, value : Value]

(* dev.sel: the selected sector; dev.cmd: the request being carried out.    *)
Init ==
    /\ lock = {} /\ expecting = FALSE /\ completion = 0
    /\ pc = [t \in Thread |-> "idle"]
    /\ req = [t \in Thread |-> None]
    /\ got = [t \in Thread |-> Junk]
    /\ disk \in [Sector -> Value]
    /\ dev = [st |-> "ready", err |-> FALSE, sel |-> None.sector, cmd |-> None]
    /\ irq = FALSE /\ faulted = FALSE

Goto(t, l) == pc' = [pc EXCEPT ![t] = l]
channel == <<lock, expecting, completion>>

(* The end of a call: the lock is released.                                 *)
Leave(t, v) ==
    /\ lock' = lock \ {t}
    /\ Goto(t, "idle")
    /\ req' = [req EXCEPT ![t] = None]
    /\ got' = [got EXCEPT ![t] = v]

(* -------------------------- the disk, external -------------------------- *)
(* Registers cannot be written while the disk is busy or has DRQ set.       *)
Selected(s) == IF dev.st = "ready" THEN [dev EXCEPT !.sel = s] ELSE dev

DiskStep ==
    \/ /\ dev.st = "reading"
       /\ dev' = [dev EXCEPT !.st = "data", !.cmd.value = disk[dev.cmd.sector]]
       /\ irq' = TRUE /\ disk' = disk
    \/ /\ dev.st = "seeking"
       /\ dev' = [dev EXCEPT !.st = "drq"]
       /\ UNCHANGED <<irq, disk>>
    \/ /\ dev.st = "writing"
       /\ disk' = [disk EXCEPT ![dev.cmd.sector] = dev.cmd.value]
       /\ dev' = [dev EXCEPT !.st = "ready", !.cmd = None]
       /\ irq' = TRUE
Disk == DiskStep /\ UNCHANGED <<channel, pc, req, got, faulted>>

(* read and write: the lock, then select_sector.                            *)
Acquire(t, r) ==
    /\ pc[t] = "idle" /\ lock = {}
    /\ lock' = {t}
    /\ req' = [req EXCEPT ![t] = r]
    /\ got' = [got EXCEPT ![t] = Junk]
    /\ dev' = Selected(r.sector)
    /\ Goto(t, "expect")
    /\ UNCHANGED <<expecting, completion, disk, irq, faulted>>

(* issue_command: first the flag, then the command register.                *)
Expect(t) ==
    /\ pc[t] = "expect"
    /\ expecting' = TRUE
    /\ Goto(t, "command")
    /\ UNCHANGED <<lock, completion, req, got, disk, dev, irq, faulted>>

Command(t) ==
    /\ pc[t] = "command"
    /\ Goto(t, IF req[t].op = "read" THEN "wait" ELSE "check")
    /\ \/ /\ dev.st = "ready"
          /\ dev' = [dev EXCEPT !.st = IF req[t].op = "read" THEN "reading" ELSE "seeking",
                                !.cmd = [req[t] EXCEPT !.sector = dev.sel, !.value = Junk],
                                !.err = FALSE]
          /\ irq' = FALSE /\ faulted' = faulted
       \/ /\ dev.st = "ready" /\ "error" \in Faults
          /\ dev' = [dev EXCEPT !.err = TRUE]
          /\ irq' = TRUE /\ faulted' = TRUE
       \/ dev.st # "ready" /\ UNCHANGED <<dev, irq, faulted>>
    /\ UNCHANGED <<channel, req, got, disk>>

(* Faulty CheckStatus: the command is tried again for as long as it fails.  *)
CheckStatusRetries(t) ==
    /\ pc[t] = "check"
    /\ Goto(t, IF dev.err THEN "expect" ELSE "drq")
    /\ UNCHANGED <<channel, req, got, disk, dev, irq, faulted>>

(* write: check_status, with the return on an error.                        *)
CheckStatus(t) ==
    /\ pc[t] = "check"
    /\ IF dev.err
       THEN Leave(t, Junk)
       ELSE Goto(t, "drq") /\ UNCHANGED <<lock, req, got>>
    /\ UNCHANGED <<expecting, completion, disk, dev, irq, faulted>>

(* write: the loop that waits for DRQ, and outsw; a disk that has data to   *)
(* be read shows DRQ too, and what is written to its port is dropped.       *)
Outsw(t) ==
    /\ pc[t] = "drq" /\ dev.st \in {"drq", "data"}
    /\ dev' = IF dev.st = "drq"
              THEN [dev EXCEPT !.st = "writing", !.cmd.value = req[t].value]
              ELSE [dev EXCEPT !.st = "ready", !.cmd = None]
    /\ Goto(t, "wait")
    /\ UNCHANGED <<channel, req, got, disk, irq, faulted>>

DrqTimeout(t) ==
    /\ pc[t] = "drq" /\ "late" \in Faults /\ dev.st \notin {"drq", "data"}
    /\ Leave(t, Junk)
    /\ faulted' = TRUE
    /\ UNCHANGED <<expecting, completion, disk, dev, irq>>

(* Faulty Wait: wait_completion returns at once.                            *)
WaitNot(t) ==
    /\ pc[t] = "wait"
    /\ Goto(t, "done")
    /\ UNCHANGED <<channel, req, got, disk, dev, irq, faulted>>

(* wait_completion: try_down, or a turn of the loop; the deadline with what *)
(* follows it.                                                              *)
Wait(t) ==
    /\ pc[t] = "wait"
    /\ IF completion > 0
       THEN completion' = completion - 1 /\ Goto(t, "done")
       ELSE UNCHANGED <<completion, pc>>
    /\ UNCHANGED <<lock, expecting, req, got, disk, dev, irq, faulted>>

Deadline(t) ==
    /\ pc[t] = "wait" /\ completion = 0 /\ "late" \in Faults
    /\ Goto(t, "late")
    /\ faulted' = TRUE
    /\ UNCHANGED <<channel, req, got, disk, dev, irq>>

GiveUp(t) ==
    /\ pc[t] = "late"
    /\ expecting' = FALSE
    /\ Goto(t, "done")
    /\ UNCHANGED <<lock, completion, req, got, disk, dev, irq, faulted>>

(* The end of read, with insw, and of write: neither looks at what          *)
(* wait_completion returned.                                                *)
Finish(t) ==
    /\ pc[t] = "done"
    /\ IF req[t].op = "read" /\ dev.st = "data"
       THEN Leave(t, dev.cmd.value) /\ dev' = [dev EXCEPT !.st = "ready", !.cmd = None]
       ELSE Leave(t, Junk) /\ dev' = dev
    /\ UNCHANGED <<expecting, completion, disk, irq, faulted>>

Counted(n) == IF n < MaxCompletion THEN n ELSE MaxCompletion

(* Faulty Interrupt: the flag stays set.                                    *)
InterruptTwice ==
    /\ irq /\ irq' \in BOOLEAN
    /\ completion' = Counted(completion + 1)
    /\ UNCHANGED <<lock, expecting, pc, req, got, disk, dev, faulted>>

(* ide_interrupt.                                                           *)
Interrupt ==
    /\ irq /\ irq' = FALSE
    /\ expecting' = FALSE
    /\ completion' = IF expecting THEN Counted(completion + 1) ELSE completion
    /\ UNCHANGED <<lock, pc, req, got, disk, dev, faulted>>

Step(t) ==
    \/ Expect(t) \/ Command(t) \/ CheckStatus(t) \/ Outsw(t) \/ DrqTimeout(t)
    \/ Wait(t) \/ Deadline(t) \/ GiveUp(t) \/ Finish(t)

Next ==
    \/ \E t \in Thread : Step(t) \/ \E r \in Request : Acquire(t, r)
    \/ Interrupt \/ Disk

Spec == Init /\ [][Next]_vars

(* The scheduler runs every thread and interrupts are taken.  Only the      *)
(* second specification counts on the disk.                                 *)
FairSpec == Spec /\ WF_vars(Interrupt) /\ \A t \in Thread : WF_vars(Step(t))

(* ------------------------------- properties ----------------------------- *)
(* The state has its type.                                                  *)
TypeOK ==
    /\ lock \subseteq Thread /\ expecting \in BOOLEAN /\ completion \in 0..MaxCompletion
    /\ pc \in [Thread -> {"idle", "expect", "command", "check", "drq", "wait", "late", "done"}]
    /\ req \in [Thread -> Request]
    /\ got \in [Thread -> Value \cup {Junk}]
    /\ disk \in [Sector -> Value]
    /\ dev.st \in {"ready", "reading", "data", "seeking", "drq", "writing"}
    /\ irq \in BOOLEAN /\ faulted \in BOOLEAN

(* As long as the disk has neither failed nor been late, when the lock is   *)
(* free nothing of the last request is left over: no completion, no         *)
(* interrupt to come and a disk that is ready.                              *)
Quiet == ~faulted /\ lock = {} => completion = 0 /\ ~expecting /\ ~irq /\ dev.st = "ready"

(* As long as the disk has neither failed nor been late, a read that ends   *)
(* gives what its sector holds, and a write that ends has put its value in  *)
(* its sector.                                                              *)
Exact ==
    [][\A t \in Thread : ~faulted /\ Finish(t) =>
          IF req[t].op = "read" THEN got'[t] = disk[req[t].sector]
                                ELSE disk[req[t].sector] = req[t].value]_vars

(* wait_completion returns after the completion of the request it waits     *)
(* for: the disk has that sector's data, or has written it, or has failed.  *)
OwnCompletion ==
    [][\A t \in Thread : Wait(t) /\ ~dev.err =>
          IF req[t].op = "read"
          THEN dev.st = "data" /\ dev.cmd.sector = req[t].sector
          ELSE disk[req[t].sector] = req[t].value]_vars

(* No call keeps the channel for ever, even if the disk does nothing.       *)
LockReleased == \A t \in Thread : t \in lock ~> t \notin lock
===============================================================================
