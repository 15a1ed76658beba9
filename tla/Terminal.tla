------------------------------ MODULE Terminal ------------------------------
(***************************************************************************)
(* The terminal: the keyboard and serial interrupts, the ring of Console,  *)
(* and the processes that read it, fork, form groups and are killed by     *)
(* signals.  A signal only sets a flag; its process dies when it next      *)
(* returns to user mode, where intr_handler calls check_signals, and the   *)
(* console read is a place where it gives up waiting.                      *)
(***************************************************************************)
EXTENDS Console, Keyboard

CONSTANTS Key,         \* the keys of the keyboard
          InitTid,     \* the process that the kernel starts
          Signal,
          Serial,      \* the bytes that the serial line sends
          Acts         \* for each process: the system calls that it makes

INSTANCE Signals WITH Tid <- Reader

ASSUME TerminalAssumption ==
    /\ Unshifted \in [Letter \cup Sign -> Byte] /\ Shifted \in [Letter \cup Sign -> Byte]
    /\ CtrlByte \in [Letter -> Byte]
    /\ Reader \subseteq Nat \ {0} /\ InitTid \in Reader
    /\ Serial \subseteq Byte
    /\ Key \subseteq {"none", "e0"} \X ({"ctrl", "lshift", "rshift", "caps"}
                                         \cup Letter \cup Sign \cup Arrow)

VARIABLES flags,       \* the flags of the keyboard driver that are set
          prefix,      \* E0_PENDING
          held,        \* the modifier keys that are down
          wire,        \* the code that follows a prefix, as a sequence
          proc,        \* the table of processes
          job          \* the child that a process in fork is setting up, or 0

keyboard == <<flags, prefix, held, wire>>
processes == <<proc, job>>
tvars == <<vars, keyboard, processes>>

TInit ==
    /\ Init
    /\ flags = {} /\ prefix = "none" /\ held = {} /\ wire = <<>>
    /\ proc = [t \in Reader |-> IF t = InitTid THEN [NoProc EXCEPT !.state = "up"]
                                ELSE NoProc]
    /\ job = [t \in Reader |-> 0]

-----------------------------------------------------------------------------
(* Interrupts                                                              *)

(* In raw mode the editing keys are bytes like any other.                  *)
Ordinary(c) ==
    IF c \in {"intr", "susp", "kill", "erase"} THEN CHOOSE x \in Char : TRUE ELSE c

(* putc: a byte is put, edits the line, signals the foreground group, is   *)
(* ignored or finds no room, or the kernel panics on it.                   *)
Putc(c) ==
    \/ PutcRawMode(Ordinary(c))
    \/ c = "intr" /\ Interrupt(Foreground(proc, "INT"))
    \/ c = "kill" /\ KillLine
    \/ c = "erase" /\ Erase
    \/ PutcCooked(c)
    \/ PutcPanic /\ IF raw THEN e + 1 >= Word
                    ELSE c \in Char \cup {"nl", "cr", "eof"} /\ Overflows(c)
    \/ /\ \/ c = "susp" /\ ~raw
          \/ c = "erase" /\ ~raw /\ e = w
          \/ (raw \/ c \notin {"intr", "kill", "erase"}) /\ ~HasRoom
       /\ UNCHANGED vars

(* An arrow key.                                                           *)
PutEscape == EmitEscape \/ (PutcPanic /\ e + Len(Escape) >= Word
                            /\ BUF_SIZE - (e - r) >= Word - e)
                        \/ (~HasRoom /\ UNCHANGED vars)

(* A modifier key is released after it was pressed.                        *)
Modifier == {<<"none", "ctrl">>, <<"e0", "ctrl">>, <<"none", "lshift">>, <<"none", "rshift">>}
Possible(k, move) == k \in Modifier /\ move = "release" => k \in held
Down(k, move) == IF move = "release" THEN held \ {k} ELSE held \cup ({k} \cap Modifier)

(* The first byte of an extended key.                                      *)
KeyboardPrefix(k, move) ==
    /\ wire = <<>> /\ k[1] = "e0" /\ Possible(k, move)
    /\ prefix' = "e0" /\ wire' = <<k, move>>
    /\ UNCHANGED <<vars, flags, held, processes>>

(* The code of a key, pressed, repeated or released.                       *)
KeyboardCode(k, move) ==
    /\ \/ wire = <<k, move>>
       \/ wire = <<>> /\ k[1] = "none" /\ Possible(k, move)
    /\ wire' = <<>>
    /\ held' = Down(k, move)
    /\ prefix' = "none"
    /\ flags' = Flags(flags, prefix, k[2], move)
    /\ \/ IsArrow(prefix, k[2], move) /\ PutEscape
       \/ IsByte(prefix, k[2], move) /\ Putc(ByteOf(flags, k[2]))
       \/ /\ ~IsArrow(prefix, k[2], move) /\ ~IsByte(prefix, k[2], move)
          /\ UNCHANGED vars
    /\ UNCHANGED processes

(* A byte on the serial line; control-\ comes from nowhere else.           *)
SerialInterrupt ==
    /\ \/ \E c \in Serial : Putc(c)
       \/ Interrupt(Foreground(proc, "QUIT"))
    /\ UNCHANGED <<keyboard, processes>>

-----------------------------------------------------------------------------
(* Processes                                                               *)

(* t runs in user mode and has not met check_signals since it was killed.  *)
User(t) ==
    /\ \/ proc[t].state = "up" /\ t \notin killed
       \/ proc[t].state = "late"
    /\ reading[t] = "no" /\ job[t] = 0

(* A system call of t that makes the table p and kills K.  Its own flag is *)
(* looked at when it returns.                                              *)
Call(t, p, K) ==
    /\ User(t) /\ Killed(K)
    /\ proc' = [p EXCEPT ![t].state = "up"]
    /\ UNCHANGED <<keyboard, job>>

Kill(t) ==
    /\ "kill" \in Acts[t]
    /\ \E sig \in Signal :
        \/ \E u \in Reader : Call(t, proc, SendSignal(proc, u, sig))
        \/ \E g \in {proc[t].pgid} \cup ({proc[u].pgid : u \in Reader} \ {0}) :
               Call(t, proc, SendSignalPgid(proc, g, sig))

(* setpgid(pid, 0), as a shell uses it: on itself or on a child.           *)
SysSetPgid(t) ==
    /\ "setpgid" \in Acts[t]
    /\ \E u \in {t} \cup {c \in Reader : proc[c].parent = t} :
           Call(t, SetPgid(proc, u, 0), {})

SysSignal(t) ==
    /\ "signal" \in Acts[t]
    /\ \E sig \in Signal \ {"KILL"} :
           \/ Call(t, [proc EXCEPT ![t].ignore = @ \cup {sig}], {})
           \/ Call(t, [proc EXCEPT ![t].ignore = @ \ {sig}], {})

(* fork as far as thread::create.                                          *)
Fork(t) ==
    /\ "fork" \in Acts[t] /\ User(t)
    /\ \E c \in Reader :
        /\ proc[c].state = "none" /\ \A u \in Reader : proc[u].state = "none" => c <= u
        /\ proc' = [InitThread(proc, c) EXCEPT ![t].state = "up"]
        /\ job' = [job EXCEPT ![t] = c]
    /\ UNCHANGED <<vars, keyboard>>

(* The rest of fork: the child may have run by now, and be gone.           *)
ForkReturn(t) ==
    /\ job[t] # 0
    /\ proc' = SetThreadParentInfo(proc, job[t], t)
    /\ job' = [job EXCEPT ![t] = 0]
    /\ UNCHANGED <<vars, keyboard>>

(* fork_child_entry takes its page directory, and goes to user mode        *)
(* without a look at killed.                                               *)
ForkChildEntry(t) ==
    /\ \/ proc[t].state = "new" /\ proc' = [proc EXCEPT ![t].state = "start"]
       \/ /\ proc[t].state = "start"
          /\ proc' = [proc EXCEPT ![t].state = IF t \in killed THEN "late" ELSE "up"]
    /\ UNCHANGED <<vars, keyboard, job>>

SysRead(t) ==
    /\ "read" \in Acts[t] /\ User(t) /\ BeginRead(t)
    /\ proc' = [proc EXCEPT ![t].state = "up"]
    /\ UNCHANGED <<keyboard, job>>

ReadStep(t) ==
    /\ Getc(t) \/ GetcKilled(t)
    /\ UNCHANGED <<keyboard, processes>>

SysIoctl(t) ==
    /\ "ioctl" \in Acts[t] /\ User(t) /\ \E b \in BOOLEAN : SetRaw(b)
    /\ proc' = [proc EXCEPT ![t].state = "up"]
    /\ UNCHANGED <<keyboard, job>>

SysExit(t) ==
    /\ "exit" \in Acts[t] /\ User(t)
    /\ proc' = [proc EXCEPT ![t].state = "gone"]
    /\ UNCHANGED <<vars, keyboard, job>>

(* t returns to user mode, from a system call or an interrupt.             *)
CheckSignals(t) ==
    /\ proc[t].state \in {"up", "late"} /\ reading[t] = "no" /\ job[t] = 0
    /\ t \in killed
    /\ proc' = [proc EXCEPT ![t].state = "gone"]
    /\ UNCHANGED <<vars, keyboard, job>>

-----------------------------------------------------------------------------

Goes(t) == ForkReturn(t) \/ ForkChildEntry(t) \/ ReadStep(t) \/ CheckSignals(t)

Calls(t) == Kill(t) \/ SysSetPgid(t) \/ SysSignal(t) \/ Fork(t) \/ SysRead(t)
            \/ SysIoctl(t) \/ SysExit(t)

TNext ==
    /\ ~halted
    /\ \/ \E k \in Key, move \in {"press", "release"} : KeyboardPrefix(k, move) \/ KeyboardCode(k, move)
       \/ SerialInterrupt
       \/ \E t \in Reader : Goes(t) \/ Calls(t)

TSpec == TInit /\ [][TNext]_tvars

(* Threads of one priority take turns, so each that can go on does.        *)
FairTSpec == TSpec /\ \A t \in Reader : WF_tvars(~halted /\ Goes(t))

-----------------------------------------------------------------------------
(* Properties                                                              *)

TTypeOK ==
    /\ TypeOK
    /\ flags \subseteq Flag /\ prefix \in {"none", "e0"} /\ held \subseteq Key
    /\ wire \in {<<>>} \cup (Key \X {"press", "release"})
    /\ proc \in [Reader -> Proc]
    /\ job \in [Reader -> Reader \cup {0}]

(* The flags of the keyboard driver tell which modifier keys are down, in  *)
(* whatever order keys are pressed, repeated and released; between the two *)
(* bytes of an extended key the prefix is remembered, and at no other      *)
(* time.                                                                   *)
ModifiersFollowKeys ==
    /\ "lctrl" \in flags <=> <<"none", "ctrl">> \in held
    /\ "rctrl" \in flags <=> <<"e0", "ctrl">> \in held
    /\ "lshift" \in flags <=> <<"none", "lshift">> \in held
    /\ "rshift" \in flags <=> <<"none", "rshift">> \in held
    /\ prefix = "e0" <=> wire # <<>>

(* A process that was killed by a signal goes away, whether it is in user  *)
(* mode, reads an empty console, is in the middle of fork or was only just *)
(* forked.                                                                 *)
KilledLeaves ==
    \A t \in Reader : t \in killed ~> (proc[t].state = "gone" \/ halted)
=============================================================================
