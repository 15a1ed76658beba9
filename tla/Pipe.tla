-------------------------------- MODULE Pipe --------------------------------
(***************************************************************************)
(* One kernel pipe (pipe.rs), the condition variables it waits on          *)
(* (sync/condvar.rs) and the descriptor tables (FdTable, process.rs) of    *)
(* the processes that share its ends.                                      *)
(*                                                                         *)
(* Every operation works under the pipe's lock, which Sync shows to be a   *)
(* mutex, and gives it up only to wait or to return: what it does from an  *)
(* acquire to the next release is one step.  User threads have one         *)
(* priority, so Semaphore::up never yields inside signal().  pc[t]:        *)
(*   unborn          not forked yet                                        *)
(*   run             outside the pipe                                      *)
(*   write, read     about to acquire the lock in Pipe::write, Pipe::read, *)
(*                   at the entry or again after Condvar::wait's down      *)
(*   wpre, rpre      in Condvar::wait: queued, lock released, not asleep   *)
(*   wsleep, rsleep  asleep in the down of Condvar::wait                   *)
(*   destroy         the close closed both ends: about to destroy the pipe *)
(***************************************************************************)
EXTENDS Vec, FiniteSetsExt

CONSTANTS Proc,       \* processes; each has one thread
          Byte,
          PIPE_SIZE,
          Word,       \* 2^32: usize arithmetic that reaches it panics
          Creator,    \* the process that calls pipe()
          MaxLen,     \* bound on the length of a read or a write
          MaxFd       \* bound on the length of a descriptor table

ASSUME PipeAssumption ==
    /\ PIPE_SIZE \in Nat \ {0} /\ Word \in Nat /\ Word > PIPE_SIZE
    /\ IsFiniteSet(Proc) /\ Creator \in Proc /\ Byte # {}
    /\ MaxLen \in Nat /\ MaxFd \in Nat /\ MaxFd >= 2

End == {"read", "write"}
Fd == 0..(MaxFd - 1)

VARIABLES buf, nread, nwrite,   \* the ring and the totals read and written
          open,                 \* read_open and write_open
          refcnt,               \* read_refcnt and write_refcnt
          exists,               \* the pipe is in PIPES
          files,                \* which end each descriptor of each process is for
          waiters,              \* the readers on not_empty, the writers on not_full
          pc,
          data,                 \* what a write has still to write
          wrote,                \* it has written something already
          want,                 \* buf.len() of a read
          out,                  \* what the last read returned
          eof,                  \* some read returned 0 for end of file
          killed,               \* processes that SIGPIPE terminates
          halted                \* the kernel panicked on overflow

ring == <<buf, nread, nwrite>>
ends == <<open, refcnt, exists, files>>
call == <<data, wrote, want>>
outcome == <<out, eof, killed, halted>>
vars == <<ring, ends, waiters, pc, call, outcome>>

Used == nwrite - nread

Init ==
    /\ buf = [i \in 0..(PIPE_SIZE - 1) |-> CHOOSE b \in Byte : TRUE]
    /\ nread = 0 /\ nwrite = 0
    /\ open = [e \in End |-> TRUE]
    /\ refcnt = [e \in End |-> 1]
    /\ exists = TRUE
    /\ files = [t \in Proc |-> [f \in Fd |-> IF t # Creator \/ f > 1 THEN "none"
                                            ELSE IF f = 0 THEN "read" ELSE "write"]]
    /\ pc = [t \in Proc |-> IF t = Creator THEN "run" ELSE "unborn"]
    /\ waiters = [e \in End |-> <<>>]
    /\ data = [t \in Proc |-> <<>>]
    /\ wrote = [t \in Proc |-> FALSE]
    /\ want = [t \in Proc |-> 0]
    /\ out = <<>> /\ eof = FALSE /\ killed = {} /\ halted = FALSE

Running(t) == ~halted /\ pc[t] = "run"
InUser(t) == Running(t) /\ t \notin killed

(* The process has end e at some descriptor.                               *)
Has(t, e) == \E f \in Fd : files[t][f] = e

-----------------------------------------------------------------------------
(* Condition variables                                                     *)

(* The waiter Condvar::signal picks: the first that sleeps already (all    *)
(* have one priority), or the first of all when none does.                 *)
Chosen(q) ==
    LET asleep == {i \in DOMAIN q : pc[q[i]] \in {"wsleep", "rsleep"}}
    IN  {i \in DOMAIN q : IF asleep = {} THEN i = 1
                          ELSE i \in asleep /\ \A j \in asleep : i <= j}

(* Faulty Signal: nobody is woken.                                         *)
SignalNobody(e, t, point, W) == pc' = [pc EXCEPT ![t] = point] /\ waiters' = W

(* signal(), with the queues W: one of the threads that wait to use end e  *)
(* returns from its down, now or as soon as it gets there, and goes back   *)
(* for the lock.  The caller t goes on at its own point.                   *)
Signal(e, t, point, W) ==
    \/ W[e] = <<>> /\ pc' = [pc EXCEPT ![t] = point] /\ waiters' = W
    \/ \E i \in Chosen(W[e]) :
          /\ pc' = [pc EXCEPT ![t] = point, ![W[e][i]] = e]
          /\ waiters' = [W EXCEPT ![e] = RemoveAt(@, i)]

(* wait() goes to sleep in the down of its own semaphore.                  *)
Sleep(t) ==
    /\ ~halted
    /\ \/ pc[t] = "wpre" /\ pc' = [pc EXCEPT ![t] = "wsleep"]
       \/ pc[t] = "rpre" /\ pc' = [pc EXCEPT ![t] = "rsleep"]
    /\ UNCHANGED <<ring, ends, waiters, call, outcome>>

-----------------------------------------------------------------------------
(* Writing and reading                                                     *)

BeginWrite(t, d) ==
    /\ InUser(t) /\ Has(t, "write")
    /\ pc' = [pc EXCEPT ![t] = "write"]
    /\ data' = [data EXCEPT ![t] = d]
    /\ UNCHANGED <<ring, ends, waiters, wrote, want, outcome>>

(* The test for a full pipe adds PIPE_SIZE to nread.                       *)
Overflows(t) == data[t] # <<>> /\ nread + PIPE_SIZE >= Word

(* Faulty CopyIn: the bytes are placed from nread on.                      *)
CopyInAtRead(d, n) ==
    [i \in DOMAIN buf |-> LET k == (i - nread) % PIPE_SIZE
                          IN  IF k < n THEN d[k + 1] ELSE buf[i]]

(* The ring after the first n bytes of d are copied in at nwrite.          *)
CopyIn(d, n) ==
    [i \in DOMAIN buf |-> LET k == (i - nwrite) % PIPE_SIZE
                          IN  IF k < n THEN d[k + 1] ELSE buf[i]]

(* Pipe::write from an acquire to its next wait or its return: copy what   *)
(* fits; with nothing left, return; else the pipe is full.  With no reader *)
(* the write then fails, and if it has written nothing SIGPIPE kills the   *)
(* process, unless it ignores the signal.                                  *)
WriteSection(t) ==
    LET n == Min({Len(data[t]), PIPE_SIZE - Used})
        rest == SubSeq(data[t], n + 1, Len(data[t]))
    IN  /\ ~halted /\ pc[t] = "write" /\ ~Overflows(t)
        /\ buf' = CopyIn(data[t], n)
        /\ nwrite' = nwrite + n
        /\ \/ /\ rest = <<>>
              /\ Signal("read", t, "run", waiters)
              /\ data' = [data EXCEPT ![t] = <<>>]
              /\ wrote' = [wrote EXCEPT ![t] = FALSE]
              /\ UNCHANGED killed
           \/ /\ rest # <<>> /\ ~open["read"]
              /\ pc' = [pc EXCEPT ![t] = "run"]
              /\ data' = [data EXCEPT ![t] = <<>>]
              /\ wrote' = [wrote EXCEPT ![t] = FALSE]
              /\ killed' \in IF wrote[t] \/ n > 0 THEN {killed} ELSE {killed, killed \cup {t}}
              /\ UNCHANGED waiters
           \/ /\ rest # <<>> /\ open["read"]
              /\ Signal("read", t, "wpre", [waiters EXCEPT !["write"] = Append(@, t)])
              /\ data' = [data EXCEPT ![t] = rest]
              /\ wrote' = [wrote EXCEPT ![t] = @ \/ n > 0]
              /\ UNCHANGED killed
        /\ UNCHANGED <<nread, ends, want, out, eof, halted>>

WritePanic(t) ==
    /\ ~halted /\ pc[t] = "write" /\ Overflows(t)
    /\ halted' = TRUE
    /\ UNCHANGED <<ring, ends, waiters, pc, call, out, eof, killed>>

BeginRead(t, n) ==
    /\ InUser(t) /\ Has(t, "read")
    /\ pc' = [pc EXCEPT ![t] = "read"]
    /\ want' = [want EXCEPT ![t] = n]
    /\ UNCHANGED <<ring, ends, waiters, data, wrote, outcome>>

(* Pipe::read from an acquire to its next wait or its return.              *)
ReadSection(t) ==
    LET n == Min({want[t], Used})
    IN  /\ ~halted /\ pc[t] = "read"
        /\ \/ /\ Used = 0 /\ ~open["write"]
              /\ pc' = [pc EXCEPT ![t] = "run"]
              /\ want' = [want EXCEPT ![t] = 0]
              /\ eof' = TRUE
              /\ UNCHANGED <<nread, out, waiters>>
           \/ /\ Used = 0 /\ open["write"]
              /\ waiters' = [waiters EXCEPT !["read"] = Append(@, t)]
              /\ pc' = [pc EXCEPT ![t] = "rpre"]
              /\ UNCHANGED <<nread, out, eof, want>>
           \/ /\ Used > 0
              /\ out' = [i \in 1..n |-> buf[(nread + i - 1) % PIPE_SIZE]]
              /\ nread' = nread + n
              /\ want' = [want EXCEPT ![t] = 0]
              /\ Signal("write", t, "run", waiters)
              /\ UNCHANGED eof
        /\ UNCHANGED <<buf, nwrite, ends, data, wrote, killed, halted>>

-----------------------------------------------------------------------------
(* Descriptors                                                             *)

(* alloc_fd: the first free slot of the table.                             *)
FirstFree(t, f) == files[t][f] = "none" /\ \A g \in 0..(f - 1) : files[t][g] # "none"

(* dup: ref_read or ref_write, and a slot for the copy.                    *)
Dup(t, f) ==
    /\ InUser(t) /\ files[t][f] # "none"
    /\ refcnt' = [refcnt EXCEPT ![files[t][f]] = @ + 1]
    /\ \E g \in Fd : FirstFree(t, g) /\ files' = [files EXCEPT ![t][g] = files[t][f]]
    /\ UNCHANGED <<ring, open, exists, waiters, pc, call, outcome>>

(* Faulty Fork: the child shares the descriptors uncounted.                *)
ForkUncounted(t, u) ==
    /\ InUser(t) /\ pc[u] = "unborn"
    /\ files' = [files EXCEPT ![u] = files[t]]
    /\ pc' = [pc EXCEPT ![u] = "run"]
    /\ UNCHANGED <<ring, open, refcnt, exists, waiters, call, outcome>>

(* clone_fd_table refers once more to the pipe for each descriptor.  The   *)
(* parent's own descriptors keep the ends open meanwhile.                  *)
Fork(t, u) ==
    /\ InUser(t) /\ pc[u] = "unborn"
    /\ files' = [files EXCEPT ![u] = files[t]]
    /\ refcnt' = [e \in End |-> refcnt[e] + Cardinality({f \in Fd : files[t][f] = e})]
    /\ pc' = [pc EXCEPT ![u] = "run"]
    /\ UNCHANGED <<ring, open, exists, waiters, call, outcome>>

(* Faulty Close: the first close closes the end, whoever still has it.     *)
CloseAtOnce(t, f) ==
    LET e == files[t][f]
    IN  /\ Running(t) /\ e # "none"
        /\ files' = [files EXCEPT ![t][f] = "none"]
        /\ refcnt' = [refcnt EXCEPT ![e] = @ - 1]
        /\ open' = [open EXCEPT ![e] = FALSE]
        /\ UNCHANGED <<ring, exists, waiters, pc, call, outcome>>

(* close_kind with close_read and close_write: the last close of an end    *)
(* wakes one of the threads that wait to use the other.                    *)
Close(t, f) ==
    LET e == files[t][f]
        other == IF e = "read" THEN "write" ELSE "read"
        last == refcnt[e] = 1
    IN  /\ Running(t) /\ e # "none"
        /\ files' = [files EXCEPT ![t][f] = "none"]
        /\ refcnt' = [refcnt EXCEPT ![e] = @ - 1]
        /\ open' = [open EXCEPT ![e] = ~last]
        /\ IF last
           THEN Signal(other, t, IF open[other] THEN "run" ELSE "destroy", waiters)
           ELSE UNCHANGED <<pc, waiters>>
        /\ UNCHANGED <<ring, exists, call, outcome>>

(* close_kind, when the close closed both ends.                            *)
Destroy(t) ==
    /\ ~halted /\ pc[t] = "destroy"
    /\ exists' = FALSE
    /\ pc' = [pc EXCEPT ![t] = "run"]
    /\ UNCHANGED <<ring, open, refcnt, files, waiters, call, outcome>>

(* A process that SIGPIPE terminates closes all its descriptors in         *)
(* exit_with_status.  One that exits of itself is among those that Close.  *)
CloseAll(t) ==
    /\ t \in killed
    /\ \E f \in Fd : Close(t, f) /\ \A g \in 0..(f - 1) : files[t][g] = "none"

-----------------------------------------------------------------------------

Inputs == UNION {[1..n -> Byte] : n \in 0..MaxLen}

(* What a process does because it is in an operation.                      *)
Continue(t) == \/ Sleep(t) \/ WriteSection(t) \/ WritePanic(t) \/ ReadSection(t)
               \/ CloseAll(t) \/ Destroy(t)

Start(t) == \/ \E d \in Inputs : BeginWrite(t, d)
            \/ \E n \in 0..MaxLen : BeginRead(t, n)
            \/ \E f \in Fd : Dup(t, f) \/ (InUser(t) /\ Close(t, f))
            \/ \E u \in Proc : Fork(t, u)

Next == \E t \in Proc : Continue(t) \/ Start(t)

Spec == Init /\ [][Next]_vars

(* A thread in an operation goes on: threads are scheduled round robin and *)
(* the lock is handed on.  Processes need not start anything.              *)
FairSpec == Spec /\ \A t \in Proc : WF_vars(Continue(t))

-----------------------------------------------------------------------------
(* Properties                                                              *)

PCs == {"unborn", "run", "write", "read", "wpre", "rpre", "wsleep", "rsleep", "destroy"}

(* Every variable has its type, and the ring never holds more than         *)
(* PIPE_SIZE bytes.                                                        *)
TypeOK ==
    /\ buf \in [0..(PIPE_SIZE - 1) -> Byte]
    /\ nread \in Nat /\ nwrite \in 0..(Word - 1) /\ Used \in 0..PIPE_SIZE
    /\ open \in [End -> BOOLEAN] /\ refcnt \in [End -> Nat] /\ exists \in BOOLEAN
    /\ files \in [Proc -> [Fd -> End \cup {"none"}]]
    /\ waiters \in [End -> Seq(Proc)]
    /\ pc \in [Proc -> PCs]
    /\ data \in [Proc -> Seq(Byte)] /\ wrote \in [Proc -> BOOLEAN]
    /\ want \in [Proc -> 0..MaxLen]
    /\ out \in Seq(Byte) /\ eof \in BOOLEAN /\ killed \subseteq Proc /\ halted \in BOOLEAN

(* The pipe implements Channel: through waits, wake-ups and pieces of      *)
(* writes, readers get the bytes of each write once and in order.          *)
C == INSTANCE Channel WITH
        Capacity <- PIPE_SIZE,
        queue <- [i \in 1..Used |-> buf[(nread + i - 1) % PIPE_SIZE]],
        todo <- data

ImplementsChannel == C!Spec

(* The descriptors for end e.                                              *)
Refs(e) == {p \in Proc \X Fd : files[p[1]][p[2]] = e}

(* The reference counts are the descriptors that exist; an end is open     *)
(* exactly while it has one.  The pipe is destroyed when both ends are     *)
(* closed, once, and nobody who is in an operation finds it gone.          *)
ReferencesExact ==
    /\ \A e \in End : refcnt[e] = Cardinality(Refs(e)) /\ (open[e] <=> refcnt[e] > 0)
    /\ ~exists => \A e \in End : ~open[e]
    /\ \A t \in Proc : pc[t] \notin {"unborn", "run"} => exists
    /\ \A t, u \in Proc : pc[t] = "destroy" /\ pc[u] = "destroy" => t = u

(* End of file is final: once a read has returned it, no byte ever enters  *)
(* the pipe again.                                                         *)
EofIsFinal == eof => ~open["write"] /\ Used = 0

(* Between two processes no wake-up is lost: a thread that waits to use an *)
(* end goes on when it can, a reader as soon as there are bytes or the     *)
(* last writer is gone, a writer as soon as there is room or no reader.    *)
SleepersGoOn ==
    \A t \in Proc :
        (\/ pc[t] = "rsleep" /\ (Used > 0 \/ ~open["write"])
         \/ pc[t] = "wsleep" /\ (Used < PIPE_SIZE \/ ~open["read"]))
            ~> (pc[t] \notin {"rsleep", "wsleep"} \/ halted)

-----------------------------------------------------------------------------
(* What the comments of pipe.rs say                                        *)

(* pipe.rs: "EOF is signaled when all write ends are closed", and in       *)
(* close_write "wake blocked readers".  With no writer left every reader   *)
(* goes on.                                                                *)
EofWakesReaders ==
    \A t \in Proc : (pc[t] = "rsleep" /\ ~open["write"]) ~> (pc[t] # "rsleep" \/ halted)

(* pipe.rs: "Readers block when empty".  No reader goes on waiting while   *)
(* bytes are left in the pipe.                                             *)
ReadersBlockWhenEmpty ==
    \A t \in Proc : (pc[t] = "rsleep" /\ Used > 0)
                       ~> (pc[t] # "rsleep" \/ Used = 0 \/ halted)

(* pipe.rs, write: "-1 if read end closed".  Nothing enters a pipe that    *)
(* nobody can read.                                                        *)
NoWriteAfterClose == [][~open["read"] => nwrite' = nwrite]_vars

=============================================================================
