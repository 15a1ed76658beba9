------------------------------- MODULE FileSys -------------------------------
(* Files on the disk: the free map (filesys/free_map.rs), inodes           *)
(* (filesys/inode.rs), the root directory (filesys/directory.rs) and the   *)
(* system calls open, mkdir, link, unlink, write and close on them         *)
(* (filesys/filesys.rs, filesys/file.rs), with shutdown and crash.         *)
(*                                                                         *)
(* None of these layers has a lock.  A call is cut into steps where        *)
(* another thread may come in: at the waits for the disk, and inside       *)
(* free_map::allocate, where only the timer can.  Windows says at which of *)
(* these places the others do come in; with Windows = {} a call is atomic. *)
(*                                                                         *)
(* The unit of length is the sector.  Sectors are read and written through *)
(* the buffer cache, which is a store of sectors (module Bio).  Of a       *)
(* file's index levels only the first is kept.  There is one directory, of *)
(* NSlot entries, which does not grow.  A thread has one file open.        *)
EXTENDS Integers, FiniteSets

CONSTANTS Thread, Name,
          NBlock,   \* sectors that the free map has to give
          MaxBlk,   \* sectors of a file
          NSlot,    \* entries of the directory
          MaxCnt,   \* no link while some open_cnt is this: link raises it for good
          Op,       \* the calls that the threads make
          Flags,    \* the flags of their opens: O_CREATE or not, with O_TRUNC or O_APPEND
          Windows,  \* where another thread may run
          Stop,     \* the ways in which the machine stops
          MaxStop   \* the run ends with this many stops

ASSUME Bounds == {NBlock, MaxBlk, NSlot, MaxCnt, MaxStop} \subseteq Nat \ {0}
ASSUME Names == 0 \notin Name
ASSUME Threads == IsFiniteSet(Thread)
ASSUME OpenFlags == Flags \subseteq BOOLEAN \X {"none", "trunc", "append"}
ASSUME StopWays == Stop \subseteq {"shutdown", "crash"}

VARIABLES used,     \* sectors marked in FREE_MAP
          saved,    \* the same on the disk, as of the last flush
          inode,    \* the InodeDisk in each sector
          slot,     \* entries of the directory
          open,     \* OPEN_INODES; an inode with open_cnt 0 is not in it
          pc, loc,  \* where each thread is, and its local variables
          fd, pos,  \* the sector of its open File, or None, and its position
          stops,    \* how often the machine has stopped
          lossy     \* ghost: a stop has lost what memory alone knew

mem == <<used, open>>
dsk == <<saved, inode, slot>>
file == <<fd, pos>>
vars == <<mem, dsk, pc, loc, file, stops, lossy>>

Block == 1..NBlock
None == 0
Index == 1..MaxBlk
Slot == 1..NSlot

EmptyInode(d) == [len |-> 0, blk |-> [i \in Index |-> None], dir |-> d]
NotOpen == [cnt |-> 0, removed |-> FALSE, len |-> 0]
Unused == [name |-> None, ino |-> None]
NoLoc == [op |-> "none", flag |-> "none", name |-> None, to |-> None, ino |-> None,
          new |-> None, next |-> "user", slot |-> None, cp |-> EmptyInode(FALSE)]

Init ==
    /\ used = {} /\ saved = {}
    /\ inode = [b \in Block |-> EmptyInode(FALSE)]
    /\ slot = [i \in Slot |-> Unused]
    /\ open = [b \in Block |-> NotOpen]
    /\ pc = [t \in Thread |-> "user"]
    /\ loc = [t \in Thread |-> NoLoc]
    /\ fd = [t \in Thread |-> None]
    /\ pos = [t \in Thread |-> 0]
    /\ stops = 0 /\ lossy = FALSE

\* A thread that is in a call, and not at a window, is alone.
Runs(t) == \A u \in Thread \ {t} : pc[u] \in Windows \cup {"user"}

At(t, l) == pc[t] = l /\ Runs(t)

\* Thread t goes on at l with local variables L.
Goto(t, l, L) ==
    /\ pc' = [pc EXCEPT ![t] = l]
    /\ loc' = [loc EXCEPT ![t] = IF l = "user" THEN NoLoc ELSE L]

\* Only open_cnt knows that a file has two names.
TwoNames == \E i, j \in Slot : i # j /\ slot[i].ino = slot[j].ino /\ slot[i] # Unused

-----------------------------------------------------------------------------
(* Faulty variants *)

\* Dir::add without the check for a duplicate.
AddAnyway(t) ==
    /\ At(t, "add")
    /\ {i \in Slot : slot[i] = Unused} # {}
    /\ Goto(t, "put", [loc[t] EXCEPT !.slot = CHOOSE i \in Slot : slot[i] = Unused])
    /\ UNCHANGED <<mem, dsk, file>>

\* inode::open that does not count a second handle.
OpenInodeUncounted(t) ==
    /\ At(t, "open")
    /\ Goto(t, IF open[loc[t].ino].cnt > 0 THEN "opened" ELSE "insert",
            [loc[t] EXCEPT !.cp = inode[loc[t].ino]])
    /\ UNCHANGED <<mem, dsk, file>>

\* truncate that does not write the emptied inode.
TruncateInodeNot(t) ==
    /\ At(t, "zero")
    /\ Goto(t, "user", NoLoc)
    /\ UNCHANGED <<mem, dsk, file>>

\* write_at that does not update the length in memory.
WriteLengthNot(t) ==
    /\ At(t, "length")
    /\ Goto(t, "user", NoLoc)
    /\ UNCHANGED <<mem, dsk, file>>

\* A shutdown that does not flush the free map.
ShutdownUnsaved ==
    /\ "shutdown" \in Stop /\ \A t \in Thread : pc[t] = "user"
    /\ used' = saved
    /\ open' = [b \in Block |-> NotOpen]
    /\ fd' = [t \in Thread |-> None]
    /\ pos' = [t \in Thread |-> 0]
    /\ stops' = stops + 1
    /\ lossy' = (lossy \/ TwoNames)
    /\ UNCHANGED <<dsk, pc, loc>>

-----------------------------------------------------------------------------
(* Free map: allocate reads a clear bit and then sets it *)

Free == Block \ used
First(S) == {b \in S : \A c \in S : b <= c}

Allocate(t, L, next, fail) ==
    \/ Free = {} /\ Goto(t, fail, L)
    \/ \E b \in First(Free) : Goto(t, "mark", [L EXCEPT !.new = b, !.next = next])

Mark(t) ==
    /\ At(t, "mark")
    /\ used' = used \cup {loc[t].new}
    /\ Goto(t, loc[t].next, loc[t])
    /\ UNCHANGED <<open, dsk, file>>

-----------------------------------------------------------------------------
(* Directory *)

Lookup(n) == {i \in Slot : slot[i].name = n}
Spare == {i \in Slot : slot[i] = Unused}

\* Dir::add of loc.to: refuse a duplicate, or choose the entry to write.
\* After a refusal open and mkdir call remove, close and release, link close.
Add(t) ==
    /\ At(t, "add")
    /\ LET L == loc[t]
       IN  \/ /\ Lookup(L.to) # {} \/ Spare = {}
              /\ Goto(t, "close", [L EXCEPT !.next = IF L.op = "link" THEN "user" ELSE "undo"])
              /\ open' = IF L.op # "link" /\ open[L.ino].cnt > 0
                         THEN [open EXCEPT ![L.ino].removed = TRUE] ELSE open
           \/ /\ Lookup(L.to) = {}
              /\ \E i \in First(Spare) : Goto(t, "put", [L EXCEPT !.slot = i])
              /\ UNCHANGED open
    /\ UNCHANGED <<used, dsk, file>>

\* open goes on to open the file, whether or not it has been created.
Put(t) ==
    /\ At(t, "put")
    /\ slot' = [slot EXCEPT ![loc[t].slot] = [name |-> loc[t].to, ino |-> loc[t].ino]]
    /\ Goto(t, IF loc[t].op = "open" THEN "look" ELSE "user", loc[t])
    /\ UNCHANGED <<mem, saved, inode, file>>

Undo(t) ==
    /\ At(t, "undo")
    /\ used' = used \ {loc[t].ino}
    /\ Goto(t, IF loc[t].op = "open" THEN "look" ELSE "user", loc[t])
    /\ UNCHANGED <<open, dsk, file>>

\* Dir::remove: mark the inode, then clear the entry.
Unlink(t, n) ==
    /\ At(t, "user") /\ "unlink" \in Op
    /\ \E i \in First(Lookup(n)) :
          LET s == slot[i].ino
          IN  /\ open' = IF open[s].cnt > 0 THEN [open EXCEPT ![s].removed = TRUE] ELSE open
              /\ Goto(t, "clear", [NoLoc EXCEPT !.slot = i])
    /\ UNCHANGED <<used, dsk, file>>

Clear(t) ==
    /\ At(t, "clear")
    /\ slot' = [slot EXCEPT ![loc[t].slot] = Unused]
    /\ Goto(t, "user", NoLoc)
    /\ UNCHANGED <<mem, saved, inode, file>>

-----------------------------------------------------------------------------
(* open, with O_CREATE, and mkdir *)

\* f is "trunc" for O_TRUNC, "append" for O_APPEND, or "none".
Open(t, n, create, f) ==
    /\ At(t, "user") /\ "open" \in Op /\ fd[t] = None
    /\ LET L == [NoLoc EXCEPT !.op = "open", !.flag = f, !.name = n, !.to = n]
       IN  IF create THEN Allocate(t, L, "create", "look") ELSE Goto(t, "look", L)
    /\ UNCHANGED <<mem, dsk, file>>

\* inode::create of an empty file.
Create(t) ==
    /\ At(t, "create")
    /\ inode' = [inode EXCEPT ![loc[t].new] = EmptyInode(FALSE)]
    /\ Goto(t, "add", [loc[t] EXCEPT !.ino = loc[t].new])
    /\ UNCHANGED <<mem, saved, slot, file>>

Mkdir(t, n) ==
    /\ At(t, "user") /\ "mkdir" \in Op
    /\ Allocate(t, [NoLoc EXCEPT !.op = "mkdir", !.to = n], "mkblock", "user")
    /\ UNCHANGED <<mem, dsk, file>>

\* Dir::create needs a second sector for the two first entries; without it
\* mkdir releases the first.
MkdirBlock(t) ==
    /\ At(t, "mkblock")
    /\ Allocate(t, [loc[t] EXCEPT !.ino = loc[t].new], "mkinode", "undo")
    /\ UNCHANGED <<mem, dsk, file>>

MkdirInode(t) ==
    /\ At(t, "mkinode")
    /\ inode' = [inode EXCEPT ![loc[t].ino] =
                    [EmptyInode(TRUE) EXCEPT !.len = 1, !.blk[1] = loc[t].new]]
    /\ Goto(t, "add", loc[t])
    /\ UNCHANGED <<mem, saved, slot, file>>

\* Dir::lookup; link refuses a directory.
Look(t) ==
    /\ At(t, "look")
    /\ \/ Lookup(loc[t].name) = {} /\ Goto(t, "user", NoLoc)
       \/ \E i \in First(Lookup(loc[t].name)) :
             LET s == slot[i].ino
             IN  IF loc[t].op = "link" /\ inode[s].dir THEN Goto(t, "user", NoLoc)
                 ELSE Goto(t, "open", [loc[t] EXCEPT !.ino = s])
    /\ UNCHANGED <<mem, dsk, file>>

\* inode::open of an inode that is in OPEN_INODES, or else the read of its
\* sector before it is inserted.
OpenInode(t) ==
    /\ At(t, "open")
    /\ LET s == loc[t].ino
       IN  IF open[s].cnt > 0
           THEN /\ open' = [open EXCEPT ![s].cnt = @ + 1]
                /\ Goto(t, "opened", loc[t])
           ELSE /\ Goto(t, "insert", [loc[t] EXCEPT !.cp = inode[s]])
                /\ UNCHANGED open
    /\ UNCHANGED <<used, dsk, file>>

Insert(t) ==
    /\ At(t, "insert")
    /\ open' = [open EXCEPT ![loc[t].ino] =
                   [cnt |-> 1, removed |-> FALSE, len |-> loc[t].cp.len]]
    /\ Goto(t, "opened", loc[t])
    /\ UNCHANGED <<used, dsk, file>>

\* inode::length
Length(s) == IF open[s].cnt > 0 THEN open[s].len ELSE inode[s].len

\* link goes on to add the new name; open makes a File.
Opened(t) ==
    /\ At(t, "opened")
    /\ IF loc[t].op = "link"
       THEN Goto(t, "add", loc[t]) /\ UNCHANGED file
       ELSE /\ fd' = [fd EXCEPT ![t] = loc[t].ino]
            /\ pos' = [pos EXCEPT ![t] = IF loc[t].flag = "append"
                                         THEN Length(loc[t].ino) ELSE 0]
            /\ Goto(t, IF loc[t].flag = "trunc" THEN "trunc" ELSE "user", loc[t])
    /\ UNCHANGED <<mem, dsk>>

Link(t, old, new) ==
    /\ At(t, "user") /\ "link" \in Op /\ \A s \in Block : open[s].cnt < MaxCnt
    /\ Goto(t, "look", [NoLoc EXCEPT !.op = "link", !.name = old, !.to = new])
    /\ UNCHANGED <<mem, dsk, file>>

-----------------------------------------------------------------------------
(* inode::truncate, write_at and close *)

\* The data sectors of the first n sectors of a file.
DataBlocks(d, n) == {d.blk[i] : i \in 1..n} \ {None}

Truncate(t) ==
    /\ At(t, "trunc")
    /\ used' = used \ DataBlocks(inode[fd[t]], Length(fd[t]))
    /\ Goto(t, "zero", loc[t])
    /\ UNCHANGED <<open, dsk, file>>

TruncateInode(t) ==
    /\ At(t, "zero")
    /\ inode' = [inode EXCEPT ![fd[t]] = EmptyInode(@.dir)]
    /\ open' = IF open[fd[t]].cnt > 0 THEN [open EXCEPT ![fd[t]].len = 0] ELSE open
    /\ Goto(t, "user", NoLoc)
    /\ UNCHANGED <<used, saved, slot, file>>

\* write_at of one sector works on a copy of the inode and writes it back.
Write(t) ==
    /\ At(t, "user") /\ "write" \in Op /\ fd[t] # None /\ pos[t] < MaxBlk
    /\ LET L == [NoLoc EXCEPT !.op = "write", !.cp = inode[fd[t]]]
       IN  IF L.cp.blk[pos[t] + 1] # None THEN Goto(t, "data", L)
           ELSE Allocate(t, L, "extend", "full")
    /\ UNCHANGED <<mem, dsk, file>>

\* allocate_block_for
Extend(t) ==
    /\ At(t, "extend")
    /\ Goto(t, "data", [loc[t] EXCEPT !.cp.blk[pos[t] + 1] = loc[t].new])
    /\ UNCHANGED <<mem, dsk, file>>

\* The inode is written back after the data, or when the disk is full.
WriteInode(t) ==
    /\ At(t, "data") \/ At(t, "full")
    /\ LET n == IF pc[t] = "data" THEN 1 ELSE 0
           end == pos[t] + n
           cp == [loc[t].cp EXCEPT !.len = IF end > @ THEN end ELSE @]
       IN  /\ inode' = [inode EXCEPT ![fd[t]] = cp]
           /\ pos' = [pos EXCEPT ![t] = end]
           /\ Goto(t, "length", [loc[t] EXCEPT !.cp = cp])
    /\ UNCHANGED <<mem, saved, slot, fd>>

WriteLength(t) ==
    /\ At(t, "length")
    /\ open' = IF open[fd[t]].cnt > 0 THEN [open EXCEPT ![fd[t]].len = loc[t].cp.len] ELSE open
    /\ Goto(t, "user", NoLoc)
    /\ UNCHANGED <<used, dsk, file>>

Close(t) ==
    /\ At(t, "user") /\ fd[t] # None
    /\ Goto(t, "close", [NoLoc EXCEPT !.ino = fd[t]])
    /\ fd' = [fd EXCEPT ![t] = None]
    /\ pos' = [pos EXCEPT ![t] = 0]
    /\ UNCHANGED <<mem, dsk>>

\* inode::close: the last one of a removed inode releases its sector first.
CloseInode(t) ==
    /\ At(t, "close")
    /\ LET s == loc[t].ino
           last == open[s].cnt = 1
       IN  /\ open' = IF last THEN [open EXCEPT ![s] = NotOpen]
                      ELSE IF open[s].cnt > 1 THEN [open EXCEPT ![s].cnt = @ - 1]
                      ELSE open
           /\ IF last /\ open[s].removed
              THEN /\ used' = used \ {s}
                   /\ Goto(t, "free", [loc[t] EXCEPT !.cp.len = open[s].len])
              ELSE /\ Goto(t, loc[t].next, loc[t])
                   /\ UNCHANGED used
    /\ UNCHANGED <<dsk, file>>

\* ... and then reads the sector to release the data.
CloseData(t) ==
    /\ At(t, "free")
    /\ used' = used \ DataBlocks(inode[loc[t].ino], loc[t].cp.len)
    /\ Goto(t, loc[t].next, loc[t])
    /\ UNCHANGED <<open, dsk, file>>

-----------------------------------------------------------------------------
(* The machine stops and comes up again *)

\* Everything in memory is lost; free_map::open reads what was saved.
Reboot(map) ==
    /\ used' = map /\ saved' = map
    /\ open' = [b \in Block |-> NotOpen]
    /\ pc' = [t \in Thread |-> "user"]
    /\ loc' = [t \in Thread |-> NoLoc]
    /\ fd' = [t \in Thread |-> None]
    /\ pos' = [t \in Thread |-> 0]
    /\ stops' = stops + 1
    /\ UNCHANGED <<inode, slot>>

\* main flushes the free map when init has exited.
Shutdown ==
    /\ "shutdown" \in Stop /\ \A t \in Thread : pc[t] = "user"
    /\ Reboot(used)
    /\ lossy' = (lossy \/ TwoNames)

Crash == "crash" \in Stop /\ Reboot(saved) /\ lossy' = TRUE

ThreadStep(t) ==
    \/ Mark(t) \/ Add(t) \/ Put(t) \/ Undo(t) \/ Clear(t) \/ Create(t)
    \/ MkdirBlock(t) \/ MkdirInode(t) \/ Look(t) \/ OpenInode(t) \/ Insert(t)
    \/ Opened(t) \/ Truncate(t) \/ TruncateInode(t) \/ Write(t) \/ Extend(t)
    \/ WriteInode(t) \/ WriteLength(t) \/ Close(t) \/ CloseInode(t) \/ CloseData(t)
    \/ \E n \in Name :
          \/ Unlink(t, n) \/ Mkdir(t, n)
          \/ \E m \in Name : Link(t, n, m)
          \/ \E f \in Flags : Open(t, n, f[1], f[2])

Next ==
    /\ stops < MaxStop
    /\ \/ \E t \in Thread : ThreadStep(t) /\ UNCHANGED <<stops, lossy>>
       \/ Shutdown
       \/ Crash

Spec == Init /\ [][Next]_vars

-----------------------------------------------------------------------------
(* Properties *)

\* No thread is inside a call.
Quiet == \A t \in Thread : pc[t] = "user"

\* The files that have a name or a handle, and the sectors of a file.
Live == ({slot[i].ino : i \in Slot} \cup {fd[t] : t \in Thread}) \ {None}
Owned(s) == {s} \cup DataBlocks(inode[s], MaxBlk)

\* Sectors, entries, open counts and positions stay in range.
TypeOK ==
    /\ used \subseteq Block /\ saved \subseteq Block
    /\ inode \in [Block -> [len : 0..MaxBlk, blk : [Index -> Block \cup {None}], dir : BOOLEAN]]
    /\ slot \in [Slot -> [name : Name \cup {None}, ino : Block \cup {None}]]
    /\ open \in [Block -> [cnt : 0..MaxCnt + Cardinality(Thread), removed : BOOLEAN, len : 0..MaxBlk]]
    /\ fd \in [Thread -> Block \cup {None}]
    /\ pos \in [Thread -> 0..MaxBlk]
    /\ stops \in 0..MaxStop /\ lossy \in BOOLEAN

\* free_map::allocate never gives a sector to two files, and a file never
\* has the same sector twice, as long as no stop of the machine was lossy.
NoSharedSector ==
    ~lossy =>
        /\ \A s, r \in Live : s # r => Owned(s) \cap Owned(r) = {}
        /\ \A s \in Live, i, j \in Index :
              inode[s].blk[i] # None => inode[s].blk[i] # s /\ (i # j => inode[s].blk[i] # inode[s].blk[j])

\* Between calls, the free map counts every sector of every file that has a
\* name or a handle as used: neither close nor truncate nor a failed create
\* releases what somebody can still reach, and a shutdown saves the map.
ReachableIsUsed == Quiet /\ ~lossy => \A s \in Live : Owned(s) \subseteq used

\* Between calls, open_cnt counts at least the handles.
HandlesCounted ==
    Quiet /\ ~lossy => \A s \in Block : Cardinality({t \in Thread : fd[t] = s}) <= open[s].cnt

\* Between calls, the length in memory is the length on the disk.
LengthsAgree ==
    Quiet /\ ~lossy => \A s \in Block : open[s].cnt > 0 => open[s].len = inode[s].len

\* Dir::add refuses duplicates: no two entries have one name, not even after
\* a crash.
UniqueNames == \A n \in Name : Cardinality(Lookup(n)) <= 1
=============================================================================
