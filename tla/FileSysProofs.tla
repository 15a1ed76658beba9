--------------------------- MODULE FileSysProofs ---------------------------
(***************************************************************************)
(* Proofs about FileSys, for any number of threads, names, sectors and     *)
(* directory entries, when threads come in only before Dir::add.           *)
(***************************************************************************)
EXTENDS FileSys, Sequences, TLAPS

Serial == Windows \subseteq {"add"}

-----------------------------------------------------------------------------
(* The inductive invariant                                                 *)

PCs == {"user", "mark", "add", "put", "undo", "clear", "create", "mkblock", "mkinode",
        "look", "open", "insert", "opened", "trunc", "zero", "extend", "data", "full",
        "length", "close", "free"}

InodeType == [len : 0..MaxBlk, blk : [Index -> Block \cup {None}], dir : BOOLEAN]
OpenType == [cnt : Nat, removed : BOOLEAN, len : 0..MaxBlk]
SlotType == [name : Name, ino : Block] \cup {Unused}
LocType == [op : {"none", "open", "mkdir", "link", "write"}, flag : {"none", "trunc", "append"},
            name : Name \cup {None}, to : Name \cup {None}, ino : Block \cup {None},
            new : Block \cup {None}, next : PCs, slot : Slot \cup {None}, cp : InodeType]

DiskType == used \subseteq Block /\ saved \subseteq Block /\ inode \in [Block -> InodeType]
DirType == slot \in [Slot -> SlotType]
OpenTabType == open \in [Block -> OpenType]
CallType == /\ pc \in [Thread -> PCs] /\ loc \in [Thread -> LocType]
            /\ fd \in [Thread -> Block \cup {None}] /\ pos \in [Thread -> 0..MaxBlk]

(* What a thread's local variables are for, by the place where it is:      *)
(* at l with locals L, open file f and position p.                         *)
WritingAt(l, L) == l \in {"extend", "data", "full", "length"} \/ (l = "mark" /\ L.next = "extend")

Fit(l, L, f, p) ==
    /\ l \in {"add", "put", "undo", "open", "insert", "opened", "close", "free", "mkinode"}
          => L.ino \in Block
    /\ l \in {"mark", "create", "mkblock", "mkinode", "extend"} => L.new \in Block
    /\ l = "mark" => L.next \in {"create", "mkblock", "mkinode", "extend"}
    /\ l = "mark" /\ L.next = "mkinode" => L.ino \in Block
    /\ l \in {"put", "clear"} => L.slot \in Slot
    /\ l = "look" => L.name \in Name
    /\ l \in {"add", "put", "create", "mkblock", "mkinode", "mark"} /\ ~WritingAt(l, L) => L.to \in Name
    /\ WritingAt(l, L) \/ l \in {"trunc", "zero"} => f \in Block
    /\ WritingAt(l, L) /\ l # "length" => p < MaxBlk
    /\ l \in {"close", "free"} => L.next \in {"user", "undo"}
    /\ L.op = "open" /\ l \notin {"trunc", "zero"} => f = None
    /\ L.op \in {"open", "link"} => L.name \in Name /\ L.to \in Name
    /\ l \in {"look", "open", "insert", "opened"} => L.op \in {"open", "link"}
    /\ l \in {"create", "mkblock", "mkinode", "mark"} /\ ~WritingAt(l, L) => L.op # "link"
    /\ l = "user" => L = NoLoc

Writing(t) == WritingAt(pc[t], loc[t])
Locals(t) == Fit(pc[t], loc[t], fd[t], pos[t])

(* All threads but one are outside or about to call Dir::add.              *)
Busy(t) == pc[t] \notin {"user", "add"}
Alone == \A t, u \in Thread : Busy(t) /\ Busy(u) => t = u

TypeInv == /\ DiskType /\ DirType /\ OpenTabType /\ CallType
           /\ (\A t \in Thread : Locals(t)) /\ Alone
           /\ lossy \in BOOLEAN

(* Entries have different names, and Dir::add writes an unused entry.      *)
NamesInv ==
    /\ \A i, j \in Slot : slot[i].name = slot[j].name /\ slot[i].name # None => i = j
    /\ \A t \in Thread : pc[t] = "put" =>
          slot[loc[t].slot] = Unused /\ \A i \in Slot : slot[i].name # loc[t].to

(* What refers to inode s: entries, unless Dir::remove is clearing them,   *)
(* open files, and calls that have opened or created it and not yet passed *)
(* it on.                                                                  *)
Clearing(i) == \E t \in Thread : pc[t] = "clear" /\ loc[t].slot = i
InCall(t) == pc[t] \in {"opened", "add", "put", "close"}
Creator(t) == \/ pc[t] \in {"add", "put"} /\ loc[t].op # "link"
              \/ pc[t] = "close" /\ loc[t].next = "undo"

NameRefs(s) == {i \in Slot : slot[i].ino = s /\ ~Clearing(i)}
FdRefs(s) == {t \in Thread : fd[t] = s}
CallRefs(s) == {t \in Thread : InCall(t) /\ loc[t].ino = s}
Creators(s) == {t \in CallRefs(s) : Creator(t)}

(* A unit of open_cnt stands for each reference but one name of a file     *)
(* that is not removed: link raises open_cnt for good.                     *)
Spare1(s) == IF ~open[s].removed /\ (NameRefs(s) # {} \/ Creators(s) # {}) THEN 1 ELSE 0
Counted(s) ==
    Cardinality(NameRefs(s)) + Cardinality(FdRefs(s)) + Cardinality(CallRefs(s))
        <= open[s].cnt + Spare1(s)

CountOK(s) ==
    /\ Counted(s)
    /\ open[s].cnt = 0 => ~open[s].removed
    /\ Creators(s) # {} => open[s].cnt = 0
CountInv == \A s \in Block : CountOK(s)

(* The inodes whose sectors are in use, and the sectors that a thread has  *)
(* allocated for an inode that does not have them yet.                     *)
Freeing(s) == \E t \in Thread : pc[t] = "free" /\ loc[t].ino = s
Zeroing(s) == \E t \in Thread : pc[t] = "zero" /\ fd[t] = s
Kept(s) == \/ open[s].cnt > 0 \/ (\E i \in Slot : slot[i].ino = s)
           \/ FdRefs(s) # {} \/ CallRefs(s) # {} \/ Freeing(s)
Bare(t) == {b \in Block :
    \/ pc[t] \in {"create", "mkblock", "mkinode", "extend"} /\ b = loc[t].new
    \/ pc[t] \in {"mkinode", "undo"} /\ b = loc[t].ino
    \/ pc[t] = "mark" /\ loc[t].next = "mkinode" /\ b = loc[t].ino
    \/ pc[t] = "data" /\ b = loc[t].cp.blk[pos[t] + 1] /\ b # inode[fd[t]].blk[pos[t] + 1]}

Proper(s) == \A i, j \in Index : inode[s].blk[i] # None =>
                inode[s].blk[i] # s /\ (i # j => inode[s].blk[i] # inode[s].blk[j])

KeptOK(s) ==
    /\ Proper(s)
    /\ ~Freeing(s) => s \in used
    /\ ~Freeing(s) /\ ~Zeroing(s) => Owned(s) \subseteq used
Disjoint == \A s, r \in Block : Kept(s) /\ Kept(r) /\ s # r => Owned(s) \cap Owned(r) = {}
BareOK == \A t \in Thread :
    Bare(t) \subseteq used /\ \A s \in Block : Kept(s) => Owned(s) \cap Bare(t) = {}
SectorInv == (\A s \in Block : Kept(s) => KeptOK(s)) /\ Disjoint /\ BareOK

LengthInv == \A s \in Block :
    open[s].cnt > 0 /\ (\A t \in Thread : pc[t] = "length" => fd[t] # s)
        => open[s].len = inode[s].len

(* What a call knows when it has the file system for itself.               *)
CallOK(t) ==
    /\ pc[t] = "mark" => loc[t].new \notin used
    /\ pc[t] = "mkinode" => loc[t].new # loc[t].ino
    /\ pc[t] \in {"open", "insert"} => \E i \in Slot : slot[i].ino = loc[t].ino
    /\ pc[t] = "insert" => open[loc[t].ino].cnt = 0 /\ loc[t].cp = inode[loc[t].ino]
    /\ Writing(t) => /\ loc[t].cp.dir = inode[fd[t]].dir /\ loc[t].cp.len = inode[fd[t]].len
                     /\ \A i \in Index : (i # pos[t] + 1 \/ pc[t] # "data") =>
                                            loc[t].cp.blk[i] = inode[fd[t]].blk[i]
    /\ pc[t] = "extend" \/ (pc[t] = "mark" /\ loc[t].next = "extend") => inode[fd[t]].blk[pos[t] + 1] = None
    /\ pc[t] = "data" => /\ loc[t].cp.blk[pos[t] + 1] # None
                         /\ inode[fd[t]].blk[pos[t] + 1] \in {None, loc[t].cp.blk[pos[t] + 1]}
    /\ pc[t] = "free" => /\ open[loc[t].ino].cnt = 0 /\ loc[t].next = "user"
                         /\ ~\E i \in Slot : slot[i].ino = loc[t].ino
                         /\ FdRefs(loc[t].ino) = {} /\ CallRefs(loc[t].ino) = {}

CallInv == \A t \in Thread : CallOK(t)

Sound == CountInv /\ SectorInv /\ LengthInv /\ CallInv
IInv == TypeInv /\ NamesInv /\ (~lossy => Sound)

-----------------------------------------------------------------------------
(* Steps of one thread                                                     *)

(* While t takes a step, the others stay outside or before Dir::add.       *)
Others(t) == \A u \in Thread : u # t =>
    /\ pc[u] \in {"user", "add"} /\ pc'[u] = pc[u] /\ loc'[u] = loc[u]
    /\ fd'[u] = fd[u] /\ pos'[u] = pos[u]

(* Thread t has gone on to l with local variables L.                       *)
Went(t, l, L) == /\ pc' \in [Thread -> PCs] /\ loc' \in [Thread -> LocType]
                 /\ pc'[t] = l /\ loc'[t] = (IF l = "user" THEN NoLoc ELSE L)
                 /\ \A u \in Thread : u # t => pc'[u] = pc[u] /\ loc'[u] = loc[u]

LEMMA Constants ==
    /\ NBlock \in Nat \ {0} /\ MaxBlk \in Nat \ {0} /\ NSlot \in Nat \ {0}
    /\ MaxCnt \in Nat \ {0} /\ MaxStop \in Nat \ {0}
    /\ None \notin Block /\ None \notin Name /\ None \notin Slot /\ 1 \in Index
BY Bounds, Names DEF None, Block, Slot, Index

LEMMA NoLocType == NoLoc \in LocType /\ \A d \in BOOLEAN : EmptyInode(d) \in InodeType
<1>1. ASSUME NEW d \in BOOLEAN PROVE EmptyInode(d) \in InodeType
  BY <1>1, Constants DEF EmptyInode, InodeType
<1> QED
  BY <1>1, Zenon DEF NoLoc, LocType, PCs

LEMMA GotoWent ==
    ASSUME CallType, NEW t \in Thread, NEW l \in PCs, NEW L \in LocType, Goto(t, l, L)
    PROVE  Went(t, l, L)
<1>1. (IF l = "user" THEN NoLoc ELSE L) \in LocType
  BY NoLocType, Zenon
<1> HIDE DEF NoLoc
<1> QED
  BY <1>1, Zenon DEF Goto, Went, CallType

LEMMA RunsAlone ==
    ASSUME Serial, NEW t \in Thread, Runs(t)
    PROVE  \A u \in Thread : u # t => pc[u] \in {"user", "add"}
BY Zenon DEF Serial, Runs

LEMMA NoLocFits == \A f, p : Fit("user", NoLoc, f, p)
BY Zenon DEF Fit, NoLoc, WritingAt

(* A step of t to l with locals L keeps the types when what it writes has  *)
(* its type.                                                               *)
LEMMA StepTypes ==
    ASSUME Serial, TypeInv, NEW t \in Thread, Runs(t),
           NEW l \in PCs, NEW L \in LocType, Goto(t, l, L),
           NEW f \in Block \cup {None}, NEW p \in 0..MaxBlk,
           fd' = [fd EXCEPT ![t] = f], pos' = [pos EXCEPT ![t] = p],
           l # "user" => Fit(l, L, f, p), DiskType', DirType', OpenTabType', lossy' = lossy
    PROVE  TypeInv' /\ Others(t) /\ Went(t, l, L)
<1> HIDE DEF NoLoc
<1>1. Went(t, l, L) /\ fd \in [Thread -> Block \cup {None}] /\ pos \in [Thread -> 0..MaxBlk]
  BY GotoWent, Zenon DEF TypeInv, CallType
<1>2. \A u \in Thread : u # t => pc[u] \in {"user", "add"}
  BY RunsAlone, Zenon
<1>3. Others(t)
  BY <1>1, <1>2, Zenon DEF Others, Went
<1>4. Locals(t)'
  BY <1>1, NoLocFits, Zenon DEF Went, Locals
<1>5. \A u \in Thread : Locals(u)'
  <2> SUFFICES ASSUME NEW u \in Thread, u # t PROVE Locals(u)'
    BY <1>4, Zenon
  <2>1. pc'[u] = pc[u] /\ loc'[u] = loc[u] /\ fd'[u] = fd[u] /\ pos'[u] = pos[u] /\ Locals(u)
    BY <1>3, Zenon DEF Others, TypeInv
  <2> QED
    BY <2>1, Zenon DEF Locals
<1>6. Alone'
  BY <1>3, Zenon DEF Others, Alone, Busy
<1>7. CallType'
  BY <1>1, Zenon DEF CallType, Went
<1> QED
  BY <1>1, <1>3, <1>5, <1>6, <1>7, Zenon DEF TypeInv

LEMMA CallStepTypes ==
    ASSUME Serial, TypeInv, NEW t \in Thread, Runs(t),
           NEW l \in PCs, NEW L \in LocType, Goto(t, l, L), UNCHANGED file,
           l # "user" => Fit(l, L, fd[t], pos[t]), DiskType', DirType', OpenTabType', lossy' = lossy
    PROVE  TypeInv' /\ Others(t) /\ Went(t, l, L)
<1>1. /\ fd[t] \in Block \cup {None} /\ pos[t] \in 0..MaxBlk
      /\ fd' = [fd EXCEPT ![t] = fd[t]] /\ pos' = [pos EXCEPT ![t] = pos[t]]
  BY Zenon DEF TypeInv, CallType, file
<1> HIDE DEF NoLoc
<1> QED
  BY <1>1, StepTypes, ZenonT(40)

LEMMA LocalStepTypes ==
    ASSUME Serial, TypeInv, NEW t \in Thread, Runs(t),
           NEW l \in PCs, NEW L \in LocType, Goto(t, l, L), UNCHANGED <<mem, dsk, file>>,
           l # "user" => Fit(l, L, fd[t], pos[t]), lossy' = lossy
    PROVE  TypeInv' /\ Others(t) /\ Went(t, l, L)
<1>1. DiskType' /\ DirType' /\ OpenTabType'
  BY Zenon DEF TypeInv, DiskType, DirType, OpenTabType, mem, dsk
<1> HIDE DEF NoLoc
<1> QED
  BY <1>1, CallStepTypes, Zenon

LEMMA LocFields ==
    ASSUME TypeInv, NEW t \in Thread
    PROVE  /\ pc[t] \in PCs /\ loc[t] \in LocType /\ Fit(pc[t], loc[t], fd[t], pos[t])
           /\ fd[t] \in Block \cup {None} /\ pos[t] \in 0..MaxBlk
BY Zenon DEF TypeInv, CallType, Locals

LEMMA Labels ==
    {"user", "mark", "add", "put", "undo", "clear", "create", "mkblock", "mkinode", "look", "open",
     "insert", "opened", "trunc", "zero", "extend", "data", "full", "length", "close", "free"} = PCs
BY Zenon DEF PCs

(* Where allocate goes on.                                                 *)
LEMMA AllocateTypes ==
    ASSUME Serial, TypeInv, NEW t \in Thread, Runs(t),
           NEW L \in LocType, NEW next \in PCs, NEW fail \in PCs,
           Allocate(t, L, next, fail), UNCHANGED <<mem, dsk, file>>, lossy' = lossy,
           fail # "user" => Fit(fail, L, fd[t], pos[t]),
           \A b \in Block : Fit("mark", [L EXCEPT !.new = b, !.next = next], fd[t], pos[t])
    PROVE  /\ TypeInv' /\ Others(t)
           /\ \/ Went(t, fail, L)
              \/ \E b \in Block \ used : Went(t, "mark", [L EXCEPT !.new = b, !.next = next])
<1> HIDE DEF NoLoc
<1>1. CASE Goto(t, fail, L)
  BY <1>1, LocalStepTypes, ZenonT(40)
<1>2. ASSUME NEW b \in First(Free), Goto(t, "mark", [L EXCEPT !.new = b, !.next = next])
      PROVE  TypeInv' /\ Others(t) /\ \E c \in Block \ used : Went(t, "mark", [L EXCEPT !.new = c, !.next = next])
  <2>1. b \in Block \ used
    BY <1>2, ZenonT(40) DEF First, Free
  <2> DEFINE M == [L EXCEPT !.new = b, !.next = next]
  <2>2. M \in LocType
    BY <2>1, ZenonT(40) DEF LocType
  <2>3. Fit("mark", M, fd[t], pos[t]) /\ Goto(t, "mark", M) /\ "mark" \in PCs
    BY <1>2, <2>1, Labels, ZenonT(40)
  <2> HIDE DEF M
  <2>4. TypeInv' /\ Others(t) /\ Went(t, "mark", M)
    BY <2>2, <2>3, LocalStepTypes, Zenon
  <2> QED
    BY <2>1, <2>4, ZenonT(40) DEF M
<1> QED
  BY <1>1, <1>2, Zenon DEF Allocate

-----------------------------------------------------------------------------
(* Types, action by action                                                 *)

(* The local variables with which open starts.                             *)
OpenLoc(n, f) == [NoLoc EXCEPT !.op = "open", !.flag = f, !.name = n, !.to = n]
OpenMark(n, f, b) == [OpenLoc(n, f) EXCEPT !.new = b, !.next = "create"]

LEMMA LengthType ==
    ASSUME TypeInv, NEW s \in Block
    PROVE  Length(s) \in 0..MaxBlk
BY Zenon DEF TypeInv, DiskType, OpenTabType, InodeType, OpenType, Length

LEMMA BlkUpdate ==
    ASSUME NEW cp \in InodeType, NEW i \in Index, NEW b \in Block
    PROVE  /\ [cp EXCEPT !.blk[i] = b] \in InodeType
           /\ [cp EXCEPT !.blk[i] = b].len = cp.len /\ [cp EXCEPT !.blk[i] = b].dir = cp.dir
           /\ [cp EXCEPT !.blk[i] = b].blk = [cp.blk EXCEPT ![i] = b]
<1>1. cp \in [len : 0..MaxBlk, blk : [Index -> Block \cup {None}], dir : BOOLEAN]
  BY Zenon DEF InodeType
<1>2. [cp.blk EXCEPT ![i] = b] \in [Index -> Block \cup {None}]
  BY <1>1, Zenon
<1> QED
  BY <1>1, <1>2, Zenon DEF InodeType

LEMMA RebootTypes ==
    ASSUME TypeInv, NEW map \in SUBSET Block, Reboot(map), lossy' \in BOOLEAN
    PROVE  TypeInv'
<1> USE DEF Reboot
<1>1. DiskType' /\ DirType' /\ OpenTabType' /\ CallType'
  <2>1. NotOpen \in OpenType /\ 0 \in 0..MaxBlk
    BY Constants DEF NotOpen, OpenType
  <2>2. OpenTabType'
    BY <2>1, Zenon DEF OpenTabType
  <2>3. CallType'
    BY <2>1, NoLocType, Labels, Zenon DEF CallType
  <2> QED
    BY <2>2, <2>3, Zenon DEF TypeInv, DiskType, DirType
<1>2. \A t \in Thread : Locals(t)'
  BY NoLocFits, Zenon DEF Locals
<1>3. Alone'
  BY Zenon DEF Alone, Busy
<1> QED
  BY <1>1, <1>2, <1>3, Zenon DEF TypeInv

-----------------------------------------------------------------------------
(* What a step that leaves a part of the state alone keeps                 *)

LEMMA NamesKept ==
    ASSUME NamesInv, NEW t \in Thread, Others(t), slot' = slot, pc'[t] # "put"
    PROVE  NamesInv'
<1>1. \A u \in Thread : pc'[u] # "put"
  BY Zenon DEF Others
<1> QED
  BY <1>1, Zenon DEF NamesInv

(* A step of a thread that writes no entry.                                *)
LEMMA OtherSteps ==
    ASSUME IInv, NEW t \in Thread, TypeInv', Others(t), slot' = slot, pc'[t] # "put",
           Sound => Sound', lossy' = lossy
    PROVE  IInv'
<1>1. NamesInv'
  BY NamesKept, Zenon DEF IInv
<1> QED
  BY <1>1, Zenon DEF IInv

LEMMA NameRefsKept ==
    ASSUME NEW t \in Thread, Others(t), slot' = slot, pc[t] # "clear", pc'[t] # "clear"
    PROVE  \A s : NameRefs(s)' = NameRefs(s)
<1>1. \A i : ~Clearing(i) /\ ~Clearing(i)'
  BY Zenon DEF Others, Clearing
<1> QED
  BY <1>1, Zenon DEF NameRefs

LEMMA FdRefsKept ==
    ASSUME fd' = fd
    PROVE  \A s : FdRefs(s)' = FdRefs(s)
BY Zenon DEF FdRefs

(* Thread t stays in a call with its inode, or outside.                    *)
StaysIn(t) == /\ InCall(t)' <=> InCall(t)
              /\ InCall(t) => loc'[t].ino = loc[t].ino /\ (Creator(t)' <=> Creator(t))

LEMMA CallRefsOthers ==
    ASSUME NEW t \in Thread, Others(t), NEW s, NEW u \in Thread, u # t
    PROVE  /\ u \in CallRefs(s)' <=> u \in CallRefs(s)
           /\ u \in Creators(s)' <=> u \in Creators(s)
BY Zenon DEF Others, CallRefs, Creators, InCall, Creator

LEMMA CallRefsKept ==
    ASSUME NEW t \in Thread, Others(t), StaysIn(t)
    PROVE  \A s : CallRefs(s)' = CallRefs(s) /\ Creators(s)' = Creators(s)
<1> SUFFICES ASSUME NEW s PROVE CallRefs(s)' = CallRefs(s) /\ Creators(s)' = Creators(s)
  BY Zenon
<1>1. t \in CallRefs(s)' <=> t \in CallRefs(s)
  BY Zenon DEF StaysIn, CallRefs
<1>2. t \in Creators(s)' <=> t \in Creators(s)
  BY <1>1, Zenon DEF StaysIn, CallRefs, Creators
<1>3. CallRefs(s) \subseteq Thread /\ CallRefs(s)' \subseteq Thread
      /\ Creators(s) \subseteq Thread /\ Creators(s)' \subseteq Thread
  BY Zenon DEF CallRefs, Creators
<1>4. \A u \in Thread : /\ u \in CallRefs(s)' <=> u \in CallRefs(s)
                        /\ u \in Creators(s)' <=> u \in Creators(s)
  <2>1. \A u \in Thread : u # t => /\ u \in CallRefs(s)' <=> u \in CallRefs(s)
                                   /\ u \in Creators(s)' <=> u \in Creators(s)
    BY CallRefsOthers, Zenon
  <2> QED
    BY <1>1, <1>2, <2>1, Zenon
<1> QED
  BY <1>3, <1>4, Zenon

(* The counts and marks of the open inodes stay.                           *)
SameOpen(s) == open'[s].cnt = open[s].cnt /\ open'[s].removed = open[s].removed

LEMMA CountSame ==
    ASSUME NEW s, CountOK(s), SameOpen(s), NameRefs(s)' = NameRefs(s), FdRefs(s)' = FdRefs(s),
           CallRefs(s)' = CallRefs(s), Creators(s)' = Creators(s)
    PROVE  CountOK(s)'
<1>1. Spare1(s)' = Spare1(s)
  BY Zenon DEF Spare1, SameOpen
<1>2. Counted(s)'
  BY <1>1, Zenon DEF CountOK, Counted, SameOpen
<1> QED
  BY <1>2, Zenon DEF CountOK, SameOpen

LEMMA CountKept ==
    ASSUME CountInv, NEW t \in Thread, Others(t), StaysIn(t), UNCHANGED <<slot, fd>>,
           pc[t] # "clear", pc'[t] # "clear", \A s \in Block : SameOpen(s)
    PROVE  CountInv'
<1> SUFFICES ASSUME NEW s \in Block PROVE CountOK(s)'
  BY Zenon DEF CountInv
<1>1. CountOK(s) /\ SameOpen(s)
  BY Zenon DEF CountInv
<1>2. /\ NameRefs(s)' = NameRefs(s) /\ FdRefs(s)' = FdRefs(s)
      /\ CallRefs(s)' = CallRefs(s) /\ Creators(s)' = Creators(s)
  BY NameRefsKept, FdRefsKept, CallRefsKept, Zenon
<1> QED
  BY <1>1, <1>2, CountSame, Zenon

LEMMA CallKept ==
    ASSUME NEW t \in Thread, Others(t), CallOK(t)'
    PROVE  CallInv'
<1> SUFFICES ASSUME NEW u \in Thread, u # t PROVE CallOK(u)'
  BY Zenon DEF CallInv
<1>1. pc'[u] \in {"user", "add"}
  BY Zenon DEF Others
<1> QED
  BY <1>1, Zenon DEF CallOK, Writing, WritingAt

LEMMA BareOthers ==
    ASSUME NEW t \in Thread, Others(t)
    PROVE  \A u \in Thread : u # t => Bare(u) = {} /\ Bare(u)' = {}
BY Zenon DEF Others, Bare

(* What has no one but t to free or empty it.                              *)
LEMMA OnlyFreeing ==
    ASSUME NEW t \in Thread, Others(t)
    PROVE  \A s : /\ Freeing(s) <=> pc[t] = "free" /\ loc[t].ino = s
                  /\ Freeing(s)' <=> pc'[t] = "free" /\ loc'[t].ino = s
                  /\ Zeroing(s) <=> pc[t] = "zero" /\ fd[t] = s
                  /\ Zeroing(s)' <=> pc'[t] = "zero" /\ fd'[t] = s
<1>1. \A u \in Thread : u # t => pc[u] \in {"user", "add"} /\ pc'[u] \in {"user", "add"}
  BY Zenon DEF Others
<1> QED
  BY <1>1, Zenon DEF Freeing, Zeroing

(* A kept inode stays as it is.                                            *)
Stays(s) == /\ Kept(s) /\ inode'[s] = inode[s]
            /\ Freeing(s) => Freeing(s)'
            /\ Zeroing(s) => Zeroing(s)'
(* A sector may be released.                                               *)
Released(b) == \A s \in Block : Kept(s)' /\ b \in Owned(s) => Freeing(s)' \/ (Zeroing(s)' /\ b # s)

LEMMA OwnedSame ==
    ASSUME NEW s, inode'[s] = inode[s]
    PROVE  Owned(s)' = Owned(s) /\ (Proper(s)' <=> Proper(s))
BY Zenon DEF Owned, DataBlocks, Proper

LEMMA SectorKept ==
    ASSUME SectorInv, \A s \in Block : Kept(s)' => Stays(s),
           \A b \in used \ used' : Released(b), BareOK'
    PROVE  SectorInv'
<1>1. ASSUME NEW s \in Block, Kept(s)' PROVE Owned(s)' = Owned(s) /\ Kept(s) /\ KeptOK(s)'
  <2>1. Kept(s) /\ Owned(s)' = Owned(s) /\ (Proper(s)' <=> Proper(s))
        /\ (Freeing(s) => Freeing(s)') /\ (Zeroing(s) => Zeroing(s)')
    BY <1>1, OwnedSame, Zenon DEF Stays
  <2>2. KeptOK(s)
    BY <2>1, Zenon DEF SectorInv
  <2>3. s \in Owned(s)
    BY Zenon DEF Owned
  <2>4. \A b \in Owned(s) : b \in used => b \in used' \/ Freeing(s)' \/ (Zeroing(s)' /\ b # s)
    BY <1>1, Zenon DEF Released
  <2> QED
    BY <2>1, <2>2, <2>3, <2>4, Zenon DEF KeptOK
<1>2. Disjoint'
  BY <1>1, Zenon DEF Disjoint, SectorInv
<1> QED
  BY <1>1, <1>2, Zenon DEF SectorInv

(* A thread that needs no other new sectors than before.                   *)
LEMMA BareKept ==
    ASSUME BareOK, NEW t \in Thread, Others(t), Bare(t)' \subseteq Bare(t),
           \A s \in Block : Kept(s)' => Kept(s) /\ inode'[s] = inode[s],
           (used \ used') \cap Bare(t)' = {}
    PROVE  BareOK'
<1> SUFFICES ASSUME NEW u \in Thread
             PROVE  Bare(u)' \subseteq used' /\ \A s \in Block : Kept(s)' => Owned(s)' \cap Bare(u)' = {}
  BY Zenon DEF BareOK
<1>1. CASE u # t
  BY <1>1, BareOthers, Zenon
<1>2. CASE u = t
  <2>1. Bare(t) \subseteq used /\ \A s \in Block : Kept(s) => Owned(s) \cap Bare(t) = {}
    BY Zenon DEF BareOK
  <2>2. \A s \in Block : Kept(s)' => Kept(s) /\ Owned(s)' = Owned(s)
    BY OwnedSame, Zenon
  <2> QED
    BY <1>2, <2>1, <2>2, Zenon
<1> QED
  BY <1>1, <1>2, Zenon

LEMMA LengthKept ==
    ASSUME LengthInv, NEW t \in Thread, Others(t), pc[t] # "length", pc'[t] # "length",
           \A s \in Block : open'[s].cnt > 0 =>
              open[s].cnt > 0 /\ open'[s].len = open[s].len /\ inode'[s].len = inode[s].len
    PROVE  LengthInv'
<1>1. \A u \in Thread : pc[u] # "length"
  BY Zenon DEF Others
<1> QED
  BY <1>1, Zenon DEF LengthInv

(* A step that only reads.                                                 *)
LEMMA QuietStep ==
    ASSUME Sound, NEW t \in Thread, Others(t), StaysIn(t), UNCHANGED <<used, inode, slot, open, fd>>,
           pc[t] \notin {"clear", "free", "zero", "length"}, pc'[t] \notin {"clear", "free", "zero", "length"},
           Bare(t)' \subseteq Bare(t), CallOK(t)'
    PROVE  Sound'
<1>1. CountInv /\ SectorInv /\ LengthInv /\ BareOK
  BY Zenon DEF Sound, SectorInv
<1>2. CountInv'
  <2>1. \A s \in Block : SameOpen(s)
    BY Zenon DEF SameOpen
  <2> QED
    BY <1>1, <2>1, CountKept, Zenon
<1>3. \A s \in Block : Kept(s)' => Kept(s) /\ inode'[s] = inode[s] /\ Stays(s)
  <2> SUFFICES ASSUME NEW s \in Block, Kept(s)' PROVE Kept(s) /\ inode'[s] = inode[s] /\ Stays(s)
    BY ZenonT(40)
  <2>1. ~Freeing(s)' /\ ~Freeing(s) /\ ~Zeroing(s)
    BY OnlyFreeing, ZenonT(40)
  <2>2. CallRefs(s)' = CallRefs(s) /\ FdRefs(s)' = FdRefs(s)
    BY CallRefsKept, FdRefsKept, Zenon
  <2> QED
    BY <2>1, <2>2, ZenonT(40) DEF Kept, Stays
<1>4. BareOK'
  BY <1>1, <1>3, BareKept, Zenon
<1>5. SectorInv'
  BY <1>1, <1>3, <1>4, SectorKept, Zenon
<1>6. LengthInv'
  BY <1>1, LengthKept, Zenon
<1>7. CallInv'
  BY CallKept, Zenon
<1> QED
  BY <1>2, <1>5, <1>6, <1>7, Zenon DEF Sound

-----------------------------------------------------------------------------
(* The steps that only read                                                *)

LEMMA OpenInv ==
    ASSUME Serial, IInv, NEW t \in Thread, NEW n \in Name, NEW c \in BOOLEAN,
           NEW f \in {"none", "trunc", "append"}, Open(t, n, c, f), lossy' = lossy
    PROVE  IInv'
<1> TypeInv
  BY Zenon DEF IInv
<1>types. /\ TypeInv' /\ Others(t) /\ UNCHANGED <<mem, dsk, file>> /\ pc[t] = "user" /\ fd[t] = None
          /\ \/ Went(t, "look", OpenLoc(n, f))
             \/ \E b \in Block \ used : Went(t, "mark", OpenMark(n, f, b))
  <2> DEFINE L == OpenLoc(n, f)
  <2>1. /\ pc[t] = "user" /\ Runs(t) /\ fd[t] = None /\ UNCHANGED <<mem, dsk, file>>
        /\ Allocate(t, L, "create", "look") \/ Goto(t, "look", L)
    BY Zenon DEF Open, At, OpenLoc
  <2>2. L \in LocType /\ Fit("look", L, fd[t], pos[t])
    <3>1. L \in LocType
      BY NoLocType, ZenonT(40) DEF LocType, OpenLoc
    <3>2. Fit("look", L, fd[t], pos[t])
      BY <2>1, Zenon DEF Fit, WritingAt, NoLoc, OpenLoc
    <3> QED
      BY <3>1, <3>2, Zenon
  <2>3. \A b \in Block : Fit("mark", [L EXCEPT !.new = b, !.next = "create"], fd[t], pos[t])
    BY <2>1, ZenonT(40) DEF Fit, WritingAt, NoLoc, OpenLoc
  <2> HIDE DEF NoLoc, L
  <2>4. CASE Goto(t, "look", L)
    BY <2>1, <2>2, <2>4, LocalStepTypes, Labels, Zenon DEF L
  <2>5. CASE Allocate(t, L, "create", "look")
    BY <2>1, <2>2, <2>3, <2>5, AllocateTypes, Labels, Zenon DEF L, OpenMark
  <2> QED
    BY <2>1, <2>4, <2>5, Zenon
<1>names. slot' = slot /\ pc'[t] # "put"
  <2>1. slot' = slot
    BY <1>types, Zenon DEF dsk
  <2> QED
    BY <1>types, <2>1, ZenonT(40) DEF Went
<1> SUFFICES ASSUME Sound PROVE Sound'
  BY <1>types, <1>names, OtherSteps, Zenon
<1>1. /\ Others(t) /\ UNCHANGED <<used, open, saved, inode, slot, fd, pos>> /\ pc[t] = "user"
      /\ \/ pc'[t] = "look"
         \/ pc'[t] = "mark" /\ loc'[t].next = "create" /\ loc'[t].new \notin used
  <2>1. /\ Others(t) /\ UNCHANGED <<mem, dsk, file>> /\ pc[t] = "user"
        /\ Went(t, "look", OpenLoc(n, f)) \/ \E b \in Block \ used : Went(t, "mark", OpenMark(n, f, b))
    BY <1>types, Zenon
  <2>2. \A b : OpenMark(n, f, b).next = "create" /\ OpenMark(n, f, b).new = b
    BY Zenon DEF NoLoc, OpenLoc, OpenMark
  <2>3. CASE Went(t, "look", OpenLoc(n, f))
    BY <2>1, <2>2, <2>3, Zenon DEF Went, mem, dsk, file
  <2>4. ASSUME NEW b \in Block \ used, Went(t, "mark", OpenMark(n, f, b))
        PROVE  pc'[t] = "mark" /\ loc'[t] = OpenMark(n, f, b) /\ b \notin used
    BY <2>4, Zenon DEF Went
  <2> QED
    BY <2>1, <2>2, <2>3, <2>4 DEF mem, dsk, file
<1>2. StaysIn(t)
  BY <1>1, Zenon DEF StaysIn, InCall
<1>3. Bare(t)' = {}
  BY <1>1, Zenon DEF Bare
<1>4. CallOK(t)'
  BY <1>1, ZenonT(40) DEF CallOK, Writing, WritingAt
<1> QED
  BY <1>1, <1>2, <1>3, <1>4, QuietStep, Zenon

LEMMA MkdirInv ==
    ASSUME Serial, IInv, NEW t \in Thread, NEW n \in Name, Mkdir(t, n), lossy' = lossy
    PROVE  IInv'
<1> TypeInv
  BY Zenon DEF IInv
<1>types. /\ TypeInv' /\ Others(t) /\ UNCHANGED <<mem, dsk, file>> /\ pc[t] = "user"
          /\ LET L == [NoLoc EXCEPT !.op = "mkdir", !.to = n]
             IN  \/ Went(t, "user", L)
                 \/ \E b \in Block \ used : Went(t, "mark", [L EXCEPT !.new = b, !.next = "mkblock"])
  <2> DEFINE L == [NoLoc EXCEPT !.op = "mkdir", !.to = n]
  <2>1. /\ pc[t] = "user" /\ Runs(t) /\ UNCHANGED <<mem, dsk, file>>
        /\ Allocate(t, L, "mkblock", "user")
    BY Zenon DEF Mkdir, At
  <2>2. L \in LocType
    BY NoLocType, Zenon DEF LocType
  <2>3. \A b \in Block : Fit("mark", [L EXCEPT !.new = b, !.next = "mkblock"], fd[t], pos[t])
    BY Zenon DEF Fit, WritingAt, NoLoc
  <2> HIDE DEF NoLoc, L
  <2> QED
    BY <2>1, <2>2, <2>3, AllocateTypes, Labels, Zenon DEF L
<1>names. slot' = slot /\ pc'[t] # "put"
  <2>1. slot' = slot
    BY <1>types, Zenon DEF dsk
  <2> QED
    BY <1>types, <2>1, Zenon DEF Went
<1> SUFFICES ASSUME Sound PROVE Sound'
  BY <1>types, <1>names, OtherSteps, Zenon
<1> DEFINE L == [NoLoc EXCEPT !.op = "mkdir", !.to = n]
           M(b) == [L EXCEPT !.new = b, !.next = "mkblock"]
<1>1. /\ Others(t) /\ UNCHANGED <<used, open, saved, inode, slot, fd, pos>> /\ pc[t] = "user"
      /\ \/ pc'[t] = "user"
         \/ pc'[t] = "mark" /\ loc'[t].next = "mkblock" /\ loc'[t].new \notin used
  <2>1. /\ Others(t) /\ UNCHANGED <<mem, dsk, file>> /\ pc[t] = "user"
        /\ Went(t, "user", L) \/ \E b \in Block \ used : Went(t, "mark", M(b))
    <3> HIDE DEF NoLoc
    <3> QED
      BY <1>types, Zenon
  <2>2. \A b : M(b).next = "mkblock" /\ M(b).new = b
    BY Zenon DEF NoLoc
  <2> HIDE DEF L, M, NoLoc
  <2>3. CASE Went(t, "user", L)
    BY <2>1, <2>2, <2>3, Zenon DEF Went, mem, dsk, file
  <2>4. ASSUME NEW b \in Block \ used, Went(t, "mark", M(b))
        PROVE  pc'[t] = "mark" /\ loc'[t] = M(b) /\ b \notin used
    BY <2>4, Zenon DEF Went
  <2> QED
    BY <2>1, <2>2, <2>3, <2>4, Zenon DEF mem, dsk, file
<1>2. StaysIn(t)
  BY <1>1, ZenonT(40) DEF StaysIn, InCall
<1>3. Bare(t)' = {}
  BY <1>1, ZenonT(40) DEF Bare
<1>4. CallOK(t)'
  BY <1>1, ZenonT(40) DEF CallOK, Writing, WritingAt
<1> QED
  BY <1>1, <1>2, <1>3, <1>4, QuietStep, ZenonT(40)

LEMMA MkdirBlockInv ==
    ASSUME Serial, IInv, NEW t \in Thread, MkdirBlock(t), lossy' = lossy
    PROVE  IInv'
<1> TypeInv
  BY Zenon DEF IInv
<1>types. /\ TypeInv' /\ Others(t)
          /\ LET L == [loc[t] EXCEPT !.ino = loc[t].new]
             IN  \/ Went(t, "undo", L)
                 \/ \E b \in Block \ used : Went(t, "mark", [L EXCEPT !.new = b, !.next = "mkinode"])
  <2> DEFINE L == [loc[t] EXCEPT !.ino = loc[t].new]
  <2>1. /\ pc[t] = "mkblock" /\ Runs(t) /\ UNCHANGED <<mem, dsk, file>>
        /\ Allocate(t, L, "mkinode", "undo")
    BY Zenon DEF MkdirBlock, At
  <2>2. L \in LocType /\ Fit("undo", L, fd[t], pos[t])
    BY <2>1, LocFields DEF LocType, Fit, WritingAt
  <2>3. \A b \in Block : Fit("mark", [L EXCEPT !.new = b, !.next = "mkinode"], fd[t], pos[t])
    BY <2>1, LocFields DEF LocType, Fit, WritingAt
  <2> HIDE DEF NoLoc, L
  <2> QED
    BY <2>1, <2>2, <2>3, AllocateTypes, Labels, Zenon DEF L
<1>names. slot' = slot /\ pc'[t] # "put"
  <2>1. slot' = slot
    BY Zenon DEF MkdirBlock, dsk
  <2> QED
    BY <1>types, <2>1, ZenonT(40) DEF Went
<1> SUFFICES ASSUME Sound PROVE Sound'
  BY <1>types, <1>names, OtherSteps, Zenon
<1> DEFINE L == [loc[t] EXCEPT !.ino = loc[t].new]
           M(b) == [L EXCEPT !.new = b, !.next = "mkinode"]
<1>1. /\ Others(t) /\ UNCHANGED <<used, open, saved, inode, slot, fd, pos>> /\ pc[t] = "mkblock"
      /\ loc'[t].ino = loc[t].new
      /\ \/ pc'[t] = "undo"
         \/ pc'[t] = "mark" /\ loc'[t].next = "mkinode" /\ loc'[t].new \notin used
  <2>1. /\ Others(t) /\ UNCHANGED <<mem, dsk, file>> /\ pc[t] = "mkblock"
        /\ Went(t, "undo", L) \/ \E b \in Block \ used : Went(t, "mark", M(b))
    BY <1>types, Zenon DEF MkdirBlock, At
  <2>2. L.ino = loc[t].new /\ \A b : M(b).next = "mkinode" /\ M(b).new = b /\ M(b).ino = loc[t].new
    BY LocFields, Zenon DEF LocType
  <2> HIDE DEF L, M, NoLoc
  <2>3. CASE Went(t, "undo", L)
    BY <2>1, <2>2, <2>3, Zenon DEF Went, mem, dsk, file
  <2>4. ASSUME NEW b \in Block \ used, Went(t, "mark", M(b))
        PROVE  pc'[t] = "mark" /\ loc'[t] = M(b) /\ b \notin used
    BY <2>4, Zenon DEF Went
  <2> QED
    BY <2>1, <2>2, <2>3, <2>4, ZenonT(40) DEF mem, dsk, file
<1>2. StaysIn(t)
  BY <1>1, Zenon DEF StaysIn, InCall
<1>3. Bare(t)' \subseteq Bare(t)
  BY <1>1, ZenonT(40) DEF Bare
<1>4. CallOK(t)'
  BY <1>1, ZenonT(40) DEF CallOK, Writing, WritingAt
<1> QED
  BY <1>1, <1>2, <1>3, <1>4, QuietStep, ZenonT(40)

LEMMA LinkInv ==
    ASSUME Serial, IInv, NEW t \in Thread, NEW n \in Name, NEW m \in Name, Link(t, n, m), lossy' = lossy
    PROVE  IInv'
<1> TypeInv
  BY Zenon DEF IInv
<1>types. /\ TypeInv' /\ Others(t) /\ UNCHANGED <<mem, dsk, file>> /\ pc[t] = "user"
          /\ Went(t, "look", [NoLoc EXCEPT !.op = "link", !.name = n, !.to = m])
  <2> DEFINE L == [NoLoc EXCEPT !.op = "link", !.name = n, !.to = m]
  <2>1. pc[t] = "user" /\ Runs(t) /\ UNCHANGED <<mem, dsk, file>> /\ Goto(t, "look", L)
    BY Zenon DEF Link, At
  <2>2. L \in LocType
    BY NoLocType, ZenonT(40) DEF LocType
  <2>3. Fit("look", L, fd[t], pos[t])
    BY Zenon DEF Fit, WritingAt, NoLoc
  <2> HIDE DEF NoLoc, L
  <2> QED
    BY <2>1, <2>2, <2>3, LocalStepTypes, Labels, Zenon DEF L
<1>names. slot' = slot /\ pc'[t] # "put"
  <2>1. slot' = slot
    BY <1>types, Zenon DEF dsk
  <2> QED
    BY <1>types, <2>1, Zenon DEF Went
<1> SUFFICES ASSUME Sound PROVE Sound'
  BY <1>types, <1>names, OtherSteps, Zenon
<1>1. /\ Others(t) /\ UNCHANGED <<used, open, saved, inode, slot, fd, pos>> /\ pc[t] = "user" /\ pc'[t] = "look"
  BY <1>types, Zenon DEF Went, mem, dsk, file
<1>2. StaysIn(t)
  BY <1>1, Zenon DEF StaysIn, InCall
<1>3. Bare(t)' = {}
  BY <1>1, Zenon DEF Bare
<1>4. CallOK(t)'
  BY <1>1, Zenon DEF CallOK, Writing, WritingAt
<1> QED
  BY <1>1, <1>2, <1>3, <1>4, QuietStep, Zenon

LEMMA LookInv ==
    ASSUME Serial, IInv, NEW t \in Thread, Look(t), lossy' = lossy
    PROVE  IInv'
<1> TypeInv
  BY Zenon DEF IInv
<1>types. /\ TypeInv' /\ Others(t)
          /\ \/ Went(t, "user", NoLoc)
             \/ \E i \in Slot : slot[i].ino \in Block /\ Went(t, "open", [loc[t] EXCEPT !.ino = slot[i].ino])
  <2> DEFINE L(i) == [loc[t] EXCEPT !.ino = slot[i].ino]
  <2>1. /\ pc[t] = "look" /\ Runs(t) /\ UNCHANGED <<mem, dsk, file>>
        /\ Goto(t, "user", NoLoc) \/ \E i \in First(Lookup(loc[t].name)) : Goto(t, "open", L(i))
    BY Zenon DEF Look, At
  <2> HIDE DEF NoLoc
  <2>2. CASE Goto(t, "user", NoLoc)
    BY <2>1, <2>2, LocalStepTypes, NoLocType, Labels, Zenon
  <2>3. ASSUME NEW i \in First(Lookup(loc[t].name)), Goto(t, "open", L(i))
        PROVE  TypeInv' /\ Others(t) /\ i \in Slot /\ slot[i].ino \in Block /\ Went(t, "open", L(i))
    <3>1. i \in Slot /\ slot[i].name = loc[t].name /\ loc[t].name \in Name
      BY <2>1, LocFields, Zenon DEF First, Lookup, Fit
    <3>2. slot[i].ino \in Block
      BY <3>1, Constants DEF TypeInv, DirType, SlotType, Unused
    <3>3. L(i) \in LocType /\ Fit("open", L(i), fd[t], pos[t])
      BY <2>1, <3>2, LocFields DEF LocType, Fit, WritingAt
    <3> HIDE DEF L
    <3> QED
      BY <2>1, <2>3, <3>1, <3>2, <3>3, LocalStepTypes, Labels, Zenon
  <2> QED
    BY <2>1, <2>2, <2>3, Zenon
<1>names. slot' = slot /\ pc'[t] # "put"
  <2>1. slot' = slot
    BY Zenon DEF Look, dsk
  <2> QED
    BY <1>types, <2>1, ZenonT(40) DEF Went
<1> SUFFICES ASSUME Sound PROVE Sound'
  BY <1>types, <1>names, OtherSteps, Zenon
<1> DEFINE L(i) == [loc[t] EXCEPT !.ino = slot[i].ino]
<1>1. /\ Others(t) /\ UNCHANGED <<used, open, saved, inode, slot, fd, pos>> /\ pc[t] = "look"
      /\ \/ pc'[t] = "user"
         \/ pc'[t] = "open" /\ \E i \in Slot : slot[i].ino = loc'[t].ino
  <2>1. /\ Others(t) /\ UNCHANGED <<mem, dsk, file>> /\ pc[t] = "look"
        /\ Went(t, "user", NoLoc) \/ \E i \in Slot : Went(t, "open", L(i))
    BY <1>types, Zenon DEF Look, At
  <2>2. \A i : L(i).ino = slot[i].ino
    BY LocFields, Zenon DEF LocType
  <2> HIDE DEF L, NoLoc
  <2>3. CASE Went(t, "user", NoLoc)
    BY <2>1, <2>3, Zenon DEF Went, mem, dsk, file
  <2>4. ASSUME NEW i \in Slot, Went(t, "open", L(i))
        PROVE  pc'[t] = "open" /\ slot[i].ino = loc'[t].ino
    BY <2>2, <2>4, Zenon DEF Went
  <2> QED
    BY <2>1, <2>3, <2>4, Zenon DEF mem, dsk, file
<1>2. StaysIn(t)
  BY <1>1, Zenon DEF StaysIn, InCall
<1>3. Bare(t)' = {}
  BY <1>1, Zenon DEF Bare
<1>4. CallOK(t)'
  BY <1>1, ZenonT(40) DEF CallOK, Writing, WritingAt
<1> QED
  BY <1>1, <1>2, <1>3, <1>4, QuietStep, Zenon

(* The local variables with which write_at starts.                         *)
WriteLoc(t) == [NoLoc EXCEPT !.op = "write", !.cp = inode[fd[t]]]
WriteMark(t, b) == [WriteLoc(t) EXCEPT !.new = b, !.next = "extend"]

LEMMA WriteInv ==
    ASSUME Serial, IInv, NEW t \in Thread, Write(t), lossy' = lossy
    PROVE  IInv'
<1> TypeInv
  BY Zenon DEF IInv
<1>types. /\ TypeInv' /\ Others(t) /\ UNCHANGED <<mem, dsk, file>> /\ pc[t] = "user" /\ fd[t] \in Block
          /\ pos[t] < MaxBlk
          /\ LET L == [NoLoc EXCEPT !.op = "write", !.cp = inode[fd[t]]]
             IN  \/ Went(t, "full", L)
                 \/ L.cp.blk[pos[t] + 1] # None /\ Went(t, "data", L)
                 \/ /\ L.cp.blk[pos[t] + 1] = None
                    /\ \E b \in Block \ used : Went(t, "mark", [L EXCEPT !.new = b, !.next = "extend"])
  <2> DEFINE L == [NoLoc EXCEPT !.op = "write", !.cp = inode[fd[t]]]
  <2>1. /\ pc[t] = "user" /\ Runs(t) /\ UNCHANGED <<mem, dsk, file>> /\ fd[t] # None /\ pos[t] < MaxBlk
        /\ IF L.cp.blk[pos[t] + 1] # None THEN Goto(t, "data", L) ELSE Allocate(t, L, "extend", "full")
    BY Zenon DEF Write, At
  <2>2. fd[t] \in Block
    BY <2>1, LocFields, Zenon
  <2>3. inode[fd[t]] \in InodeType
    BY <2>2, Zenon DEF TypeInv, DiskType
  <2>4. L \in LocType
    BY <2>3, NoLocType, ZenonT(40) DEF LocType
  <2>5. /\ Fit("data", L, fd[t], pos[t]) /\ Fit("full", L, fd[t], pos[t])
        /\ \A b \in Block : Fit("mark", [L EXCEPT !.new = b, !.next = "extend"], fd[t], pos[t])
    BY <2>1, <2>2, Zenon DEF Fit, WritingAt, NoLoc
  <2> HIDE DEF NoLoc, L
  <2>6. CASE L.cp.blk[pos[t] + 1] # None
    BY <2>1, <2>2, <2>4, <2>5, <2>6, LocalStepTypes, Labels, Zenon DEF L
  <2>7. CASE L.cp.blk[pos[t] + 1] = None
    BY <2>1, <2>2, <2>4, <2>5, <2>7, AllocateTypes, Labels, Zenon DEF L
  <2> QED
    BY <2>6, <2>7, Zenon
<1>names. slot' = slot /\ pc'[t] # "put"
  <2>1. slot' = slot
    BY Zenon DEF Write, dsk
  <2> QED
    BY <1>types, <2>1, Zenon DEF Went
<1> SUFFICES ASSUME Sound PROVE Sound'
  BY <1>types, <1>names, OtherSteps, Zenon
<1>1. /\ Others(t) /\ UNCHANGED <<used, open, saved, inode, slot, fd, pos>> /\ pc[t] = "user"
      /\ loc'[t].cp = inode[fd[t]]
      /\ \/ pc'[t] = "full"
         \/ pc'[t] = "data" /\ inode[fd[t]].blk[pos[t] + 1] # None
         \/ /\ pc'[t] = "mark" /\ inode[fd[t]].blk[pos[t] + 1] = None
            /\ loc'[t].next = "extend" /\ loc'[t].new \notin used
  <2>1. WriteLoc(t).cp = inode[fd[t]] /\ \A b : /\ WriteMark(t, b).cp = inode[fd[t]]
                                                /\ WriteMark(t, b).new = b /\ WriteMark(t, b).next = "extend"
    BY Zenon DEF NoLoc, WriteLoc, WriteMark
  <2>2. /\ Others(t) /\ UNCHANGED <<mem, dsk, file>> /\ pc[t] = "user"
        /\ \/ Went(t, "full", WriteLoc(t))
           \/ WriteLoc(t).cp.blk[pos[t] + 1] # None /\ Went(t, "data", WriteLoc(t))
           \/ /\ WriteLoc(t).cp.blk[pos[t] + 1] = None
              /\ \E b \in Block \ used : Went(t, "mark", WriteMark(t, b))
    <3> HIDE DEF NoLoc
    <3> QED
      BY <1>types, ZenonT(40) DEF WriteLoc, WriteMark
  <2>3. UNCHANGED <<used, open, saved, inode, slot, fd, pos>>
    BY <2>2, ZenonT(40) DEF mem, dsk, file
  <2>4. CASE Went(t, "full", WriteLoc(t))
    BY <2>1, <2>2, <2>3, <2>4, ZenonT(40) DEF Went
  <2>5. CASE WriteLoc(t).cp.blk[pos[t] + 1] # None /\ Went(t, "data", WriteLoc(t))
    BY <2>1, <2>2, <2>3, <2>5, ZenonT(40) DEF Went
  <2>6. ASSUME NEW b \in Block \ used, Went(t, "mark", WriteMark(t, b)), WriteLoc(t).cp.blk[pos[t] + 1] = None
        PROVE  /\ pc'[t] = "mark" /\ inode[fd[t]].blk[pos[t] + 1] = None
               /\ loc'[t].next = "extend" /\ loc'[t].new \notin used /\ loc'[t].cp = inode[fd[t]]
    BY <2>1, <2>6 DEF Went
  <2> QED
    BY <2>2, <2>3, <2>4, <2>5, <2>6, ZenonT(40)
<1>2. StaysIn(t)
  BY <1>1, Zenon DEF StaysIn, InCall
<1>3. Bare(t)' = {}
  BY <1>1, ZenonT(40) DEF Bare
<1>4. CallOK(t)'
  BY <1>1, ZenonT(40) DEF CallOK, Writing, WritingAt
<1> QED
  BY <1>1, <1>2, <1>3, <1>4, QuietStep, ZenonT(40)

LEMMA ExtendInv ==
    ASSUME Serial, IInv, NEW t \in Thread, Extend(t), lossy' = lossy
    PROVE  IInv'
<1> TypeInv
  BY Zenon DEF IInv
<1>types. /\ TypeInv' /\ Others(t) /\ pos[t] + 1 \in Index
          /\ Went(t, "data", [loc[t] EXCEPT !.cp = [loc[t].cp EXCEPT !.blk[pos[t] + 1] = loc[t].new]])
  <2> DEFINE cp == [loc[t].cp EXCEPT !.blk[pos[t] + 1] = loc[t].new]
             L == [loc[t] EXCEPT !.cp = cp]
  <2>1. pc[t] = "extend" /\ Runs(t) /\ Goto(t, "data", L) /\ UNCHANGED <<mem, dsk, file>>
    BY Zenon DEF Extend, At
  <2>2. loc[t].new \in Block /\ pos[t] \in 0..MaxBlk /\ pos[t] < MaxBlk /\ loc[t].cp \in InodeType
    BY <2>1, LocFields, Zenon DEF Fit, WritingAt, LocType
  <2>3. pos[t] + 1 \in Index
    BY <2>2, Constants DEF Index
  <2>4. cp \in InodeType
    BY <2>2, <2>3, BlkUpdate, Zenon
  <2> HIDE DEF cp
  <2>5. L \in LocType /\ Fit("data", L, fd[t], pos[t])
    BY <2>1, <2>4, LocFields DEF LocType, Fit, WritingAt
  <2> HIDE DEF NoLoc, L
  <2> QED
    BY <2>1, <2>3, <2>5, LocalStepTypes, Labels, Zenon DEF L, cp
<1>names. slot' = slot /\ pc'[t] # "put"
  <2>1. slot' = slot
    BY Zenon DEF Extend, dsk
  <2> QED
    BY <1>types, <2>1, ZenonT(40) DEF Went
<1> SUFFICES ASSUME Sound PROVE Sound'
  BY <1>types, <1>names, OtherSteps, Zenon
<1> DEFINE i0 == pos[t] + 1
           cp == [loc[t].cp EXCEPT !.blk[i0] = loc[t].new]
<1>1. /\ Others(t) /\ UNCHANGED <<used, open, saved, inode, slot, fd, pos>>
      /\ pc[t] = "extend" /\ pc'[t] = "data" /\ loc'[t].cp = cp /\ i0 \in Index /\ loc[t].new \in Block
  <2>1. /\ Others(t) /\ i0 \in Index /\ Went(t, "data", [loc[t] EXCEPT !.cp = cp])
        /\ pc[t] = "extend" /\ UNCHANGED <<mem, dsk, file>>
    BY <1>types, Zenon DEF Extend, At
  <2> HIDE DEF cp
  <2>2. [loc[t] EXCEPT !.cp = cp].cp = cp
    BY LocFields, Zenon DEF LocType
  <2>3. loc[t].new \in Block
    BY <2>1, LocFields, Zenon DEF Fit
  <2> QED
    BY <2>1, <2>2, <2>3, Zenon DEF Went, mem, dsk, file
<1>2. /\ cp.len = loc[t].cp.len /\ cp.dir = loc[t].cp.dir /\ cp.blk[i0] = loc[t].new
      /\ \A i \in Index : i # i0 => cp.blk[i] = loc[t].cp.blk[i]
  <2>1. loc[t].cp \in InodeType
    BY LocFields, Zenon DEF LocType
  <2>2. cp.len = loc[t].cp.len /\ cp.dir = loc[t].cp.dir /\ cp.blk = [loc[t].cp.blk EXCEPT ![i0] = loc[t].new]
    BY <1>1, <2>1, BlkUpdate
  <2>3. loc[t].cp.blk \in [Index -> Block \cup {None}]
    BY <2>1, ZenonT(40) DEF InodeType
  <2> HIDE DEF cp, i0
  <2> QED
    BY <1>1, <2>2, <2>3, Zenon
<1>3. /\ loc[t].cp.dir = inode[fd[t]].dir /\ loc[t].cp.len = inode[fd[t]].len /\ inode[fd[t]].blk[i0] = None
      /\ \A i \in Index : loc[t].cp.blk[i] = inode[fd[t]].blk[i]
  BY <1>1, ZenonT(40) DEF Sound, CallInv, CallOK, Writing, WritingAt
<1> HIDE DEF cp
<1>4. StaysIn(t)
  BY <1>1, ZenonT(40) DEF StaysIn, InCall
<1>5. Bare(t)' \subseteq Bare(t)
  BY <1>1, <1>2, Zenon DEF Bare
<1>6. CallOK(t)'
  BY <1>1, <1>2, <1>3, Constants, ZenonT(40) DEF CallOK, Writing, WritingAt
<1> QED
  BY <1>1, <1>4, <1>5, <1>6, QuietStep, ZenonT(40)

LEMMA AddInv ==
    ASSUME Serial, IInv, NEW t \in Thread, Add(t), lossy' = lossy
    PROVE  IInv'
<1> TypeInv /\ NamesInv
  BY Zenon DEF IInv
<1>types. /\ TypeInv' /\ Others(t)
          /\ \/ Went(t, "close", [loc[t] EXCEPT !.next = IF loc[t].op = "link" THEN "user" ELSE "undo"])
             \/ /\ Lookup(loc[t].to) = {} /\ open' = open
                /\ \E i \in Spare : Went(t, "put", [loc[t] EXCEPT !.slot = i])
  <2> DEFINE L == [loc[t] EXCEPT !.next = IF loc[t].op = "link" THEN "user" ELSE "undo"]
             M(i) == [loc[t] EXCEPT !.slot = i]
  <2>1. /\ pc[t] = "add" /\ Runs(t) /\ UNCHANGED <<used, saved, inode, slot, file>>
        /\ \/ /\ Goto(t, "close", L)
              /\ open' = IF loc[t].op # "link" /\ open[loc[t].ino].cnt > 0
                         THEN [open EXCEPT ![loc[t].ino].removed = TRUE] ELSE open
           \/ /\ Lookup(loc[t].to) = {} /\ open' = open
              /\ \E i \in First(Spare) : Goto(t, "put", M(i))
    BY Zenon DEF Add, At, dsk
  <2>2. L \in LocType /\ Fit("close", L, fd[t], pos[t]) /\ loc[t].ino \in Block
    BY <2>1, LocFields, Labels DEF Fit, WritingAt, LocType
  <2>3. ASSUME NEW i \in First(Spare) PROVE i \in Spare /\ M(i) \in LocType /\ Fit("put", M(i), fd[t], pos[t])
    <3>1. i \in Spare /\ i \in Slot
      BY Zenon DEF First, Spare
    <3> QED
      BY <2>1, <3>1, LocFields DEF Fit, WritingAt, LocType
  <2>4. DiskType' /\ DirType' /\ OpenTabType'
    <3>1. OpenTabType'
      BY <2>1, <2>2, ZenonT(40) DEF TypeInv, OpenTabType, OpenType
    <3> QED
      BY <2>1, <3>1, Zenon DEF TypeInv, DiskType, DirType
  <2> HIDE DEF NoLoc, L, M
  <2>5. CASE Goto(t, "close", L)
    BY <2>1, <2>2, <2>4, <2>5, CallStepTypes, Labels, Zenon DEF L
  <2>6. ASSUME NEW i \in First(Spare), Goto(t, "put", M(i))
        PROVE  TypeInv' /\ Others(t) /\ i \in Spare /\ Went(t, "put", M(i))
    BY <2>1, <2>3, <2>4, <2>6, CallStepTypes, Labels, Zenon
  <2> QED
    BY <2>1, <2>5, <2>6, Zenon DEF L, M
<1>names. NamesInv'
  <2>1. Others(t) /\ slot' = slot
    BY <1>types, Zenon DEF Add, dsk
  <2>2. CASE pc'[t] # "put"
    BY <2>1, <2>2, NamesKept, Zenon
  <2>3. CASE pc'[t] = "put"
    <3>1. PICK i \in Spare : Went(t, "put", [loc[t] EXCEPT !.slot = i]) /\ Lookup(loc[t].to) = {}
      BY <2>3, <1>types, Zenon DEF Went
    <3>2. loc'[t].slot = i /\ loc'[t].to = loc[t].to
      BY <3>1, LocFields, Zenon DEF Went, LocType
    <3>3. slot'[loc'[t].slot] = Unused
      BY <2>1, <3>1, <3>2, Zenon DEF Spare
    <3>4. \A j \in Slot : slot'[j].name # loc'[t].to
      BY <2>1, <3>1, <3>2, Zenon DEF Lookup
    <3>5. \A u \in Thread : u # t => pc'[u] # "put"
      BY <2>1, Zenon DEF Others
    <3> QED
      BY <2>1, <3>3, <3>4, <3>5, Zenon DEF NamesInv
  <2> QED
    BY <2>2, <2>3, Zenon
<1> SUFFICES ASSUME Sound PROVE Sound'
  BY <1>types, <1>names, Zenon DEF IInv
<1> DEFINE L == [loc[t] EXCEPT !.next = IF loc[t].op = "link" THEN "user" ELSE "undo"]
           M(i) == [loc[t] EXCEPT !.slot = i]
<1>0. /\ pc[t] = "add" /\ UNCHANGED <<used, saved, inode, slot, fd, pos>> /\ loc[t].ino \in Block
      /\ open' = open \/ (loc[t].op # "link" /\ open[loc[t].ino].cnt > 0)
  BY LocFields, Zenon DEF Add, At, dsk, file, Fit
<1>1. open' = open
  <2>1. CASE loc[t].op # "link"
    <3>1. t \in Creators(loc[t].ino)
      BY <1>0, <2>1, ZenonT(40) DEF Creators, CallRefs, InCall, Creator
    <3>2. open[loc[t].ino].cnt = 0
      BY <1>0, <3>1, Zenon DEF Sound, CountInv, CountOK
    <3> QED
      BY <1>0, <3>2
  <2> QED
    BY <1>0, <2>1, Zenon
<1>2. /\ Others(t) /\ loc'[t].ino = loc[t].ino
      /\ \/ pc'[t] = "close" /\ (loc'[t].next = "undo" <=> loc[t].op # "link")
         \/ pc'[t] = "put" /\ loc'[t].op = loc[t].op
  <2>1. Others(t) /\ (Went(t, "close", L) \/ \E i \in Spare : Went(t, "put", M(i)))
    BY <1>types, Zenon
  <2>2. L.ino = loc[t].ino /\ (L.next = "undo" <=> loc[t].op # "link")
    BY LocFields, Zenon DEF LocType
  <2>3. \A i : M(i).ino = loc[t].ino /\ M(i).op = loc[t].op
    BY LocFields, Zenon DEF LocType
  <2> HIDE DEF L, M
  <2>4. CASE Went(t, "close", L)
    BY <2>1, <2>2, <2>4, Zenon DEF Went
  <2>5. ASSUME NEW i \in Spare, Went(t, "put", M(i))
        PROVE  pc'[t] = "put" /\ loc'[t].op = loc[t].op /\ loc'[t].ino = loc[t].ino
    BY <2>3, <2>5, Zenon DEF Went
  <2> QED
    BY <2>1, <2>4, <2>5, Zenon
<1>3. StaysIn(t)
  BY <1>0, <1>2, Zenon DEF StaysIn, InCall, Creator
<1>4. Bare(t)' = {}
  BY <1>2, Zenon DEF Bare
<1>5. CallOK(t)'
  BY <1>2, Zenon DEF CallOK, Writing, WritingAt
<1> QED
  BY <1>0, <1>1, <1>2, <1>3, <1>4, <1>5, QuietStep, ZenonT(40)

-----------------------------------------------------------------------------
(* Counting                                                                *)

(* What holds of the numbers of directory entries and of threads: the      *)
(* facts about finite sets that the steps below count with.  They are      *)
(* proved at the end, where the theorems about finite sets come in with    *)
(* their own copy of Cardinality; SizeOf is what both are defined to be.   *)
SizeOf(S) ==
    LET CS[T \in SUBSET S] == IF T = {} THEN 0 ELSE 1 + CS[T \ {CHOOSE x : x \in T}] IN CS[S]
CountRules(S) ==
    /\ SizeOf(S) \in Nat
    /\ SizeOf(S) = 0 <=> S = {}
    /\ SizeOf(S) = 1 <=> \E x : S = {x}
    /\ \A x \in S : SizeOf(S \ {x}) = SizeOf(S) - 1
    /\ \A x : x \notin S => SizeOf(S \cup {x}) = SizeOf(S) + 1
Counting == \A S \in (SUBSET Slot) \cup (SUBSET Thread) : CountRules(S)

LEMMA CardinalityIs ==
    ASSUME NEW S
    PROVE  Cardinality(S) = SizeOf(S)
BY DEF Cardinality, SizeOf

LEMMA CardFew ==
    ASSUME Counting
    PROVE  /\ Cardinality({}) = 0
           /\ \A x \in Slot \cup Thread : Cardinality({x}) = 1
<1>1. ASSUME NEW x \in Slot \cup Thread PROVE {x} \in (SUBSET Slot) \cup (SUBSET Thread)
  BY Zenon
<1> QED
  BY <1>1, CardinalityIs, Zenon DEF Counting, CountRules

(* Thread t comes to refer to s0 from inside a call.                       *)
LEMMA CallGain ==
    ASSUME NEW t \in Thread, Others(t), ~InCall(t), InCall(t)', NEW s0, loc'[t].ino = s0
    PROVE  /\ t \notin CallRefs(s0) /\ CallRefs(s0)' = CallRefs(s0) \cup {t}
           /\ Creators(s0)' = Creators(s0) \cup (IF Creator(t)' THEN {t} ELSE {})
           /\ \A s : s # s0 => CallRefs(s)' = CallRefs(s) /\ Creators(s)' = Creators(s)
<1>1. \A s : /\ t \notin CallRefs(s) /\ t \notin Creators(s)
             /\ t \in CallRefs(s)' <=> s = s0
             /\ t \in Creators(s)' <=> s = s0 /\ Creator(t)'
  BY Zenon DEF CallRefs, Creators
<1>2. \A s : /\ CallRefs(s) \subseteq Thread /\ CallRefs(s)' \subseteq Thread
             /\ Creators(s) \subseteq Thread /\ Creators(s)' \subseteq Thread
  BY Zenon DEF CallRefs, Creators
<1>3. \A s : \A u \in Thread : u # t => /\ u \in CallRefs(s)' <=> u \in CallRefs(s)
                                        /\ u \in Creators(s)' <=> u \in Creators(s)
  BY CallRefsOthers, Zenon
<1>4. ASSUME NEW s, s # s0 PROVE CallRefs(s)' = CallRefs(s) /\ Creators(s)' = Creators(s)
  BY <1>1, <1>2, <1>3, <1>4
<1>5. CallRefs(s0)' = CallRefs(s0) \cup {t}
  BY <1>1, <1>2, <1>3, Zenon
<1>6. Creators(s0)' = Creators(s0) \cup (IF Creator(t)' THEN {t} ELSE {})
  BY <1>1, <1>2, <1>3, Zenon
<1> QED
  BY <1>1, <1>4, <1>5, <1>6, Zenon

(* Thread t no longer refers to s0 from inside a call.                     *)
LEMMA CallLoss ==
    ASSUME NEW t \in Thread, Others(t), InCall(t), ~InCall(t)', NEW s0, loc[t].ino = s0
    PROVE  /\ t \in CallRefs(s0) /\ CallRefs(s0)' = CallRefs(s0) \ {t}
           /\ Creators(s0)' = Creators(s0) \ {t} /\ (t \in Creators(s0) <=> Creator(t))
           /\ \A s : s # s0 => CallRefs(s)' = CallRefs(s) /\ Creators(s)' = Creators(s)
<1>1. \A s : /\ t \notin CallRefs(s)' /\ t \notin Creators(s)'
             /\ t \in CallRefs(s) <=> s = s0
             /\ t \in Creators(s) <=> s = s0 /\ Creator(t)
  BY Zenon DEF CallRefs, Creators
<1>2. \A s : /\ CallRefs(s) \subseteq Thread /\ CallRefs(s)' \subseteq Thread
             /\ Creators(s) \subseteq Thread /\ Creators(s)' \subseteq Thread
  BY Zenon DEF CallRefs, Creators
<1>3. \A s : \A u \in Thread : u # t => /\ u \in CallRefs(s)' <=> u \in CallRefs(s)
                                        /\ u \in Creators(s)' <=> u \in Creators(s)
  BY CallRefsOthers, Zenon
<1>4. ASSUME NEW s, s # s0 PROVE CallRefs(s)' = CallRefs(s) /\ Creators(s)' = Creators(s)
  BY <1>1, <1>2, <1>3, <1>4
<1>5. CallRefs(s0)' = CallRefs(s0) \ {t}
  BY <1>1, <1>2, <1>3, Zenon
<1>6. Creators(s0)' = Creators(s0) \ {t}
  BY <1>1, <1>2, <1>3, Zenon
<1> QED
  BY <1>1, <1>4, <1>5, <1>6, Zenon

-----------------------------------------------------------------------------
(* The steps that write an inode                                           *)

LEMMA SectorChanged ==
    ASSUME SectorInv, NEW s0 \in Block, used' = used,
           \A r \in Block : r # s0 /\ Kept(r)' => Stays(r) /\ Owned(r) \cap Owned(s0)' = {},
           Owned(s0)' \subseteq used', Proper(s0)', BareOK'
    PROVE  SectorInv'
<1>1. ASSUME NEW r \in Block, r # s0, Kept(r)' PROVE Owned(r)' = Owned(r) /\ Kept(r) /\ KeptOK(r)'
  <2>1. Kept(r) /\ Owned(r)' = Owned(r) /\ (Proper(r)' <=> Proper(r))
        /\ (Freeing(r) => Freeing(r)') /\ (Zeroing(r) => Zeroing(r)')
    BY <1>1, OwnedSame, Zenon DEF Stays
  <2>2. KeptOK(r)
    BY <2>1, Zenon DEF SectorInv
  <2> QED
    BY <2>1, <2>2, Zenon DEF KeptOK
<1>2. KeptOK(s0)'
  <2>1. (s0 \in Owned(s0))'
    BY Zenon DEF Owned
  <2> QED
    BY <2>1, Zenon DEF KeptOK
<1>3. Disjoint'
  BY <1>1, Zenon DEF Disjoint, SectorInv
<1> QED
  BY <1>1, <1>2, <1>3, Zenon DEF SectorInv

LEMMA BareNotKept ==
    ASSUME SectorInv, NEW t \in Thread, NEW b \in Bare(t)
    PROVE  ~Kept(b) /\ b \in Block /\ b \in used
<1>1. b \in Block
  BY Zenon DEF Bare
<1>2. b \in Owned(b)
  BY Zenon DEF Owned
<1> QED
  BY <1>1, <1>2, Zenon DEF SectorInv, BareOK

LEMMA NotKept ==
    ASSUME TypeInv, CountInv, NEW s \in Block, ~Kept(s)
    PROVE  /\ open[s].cnt = 0 /\ ~open[s].removed
           /\ NameRefs(s) = {} /\ FdRefs(s) = {} /\ CallRefs(s) = {}
<1>1. open[s].cnt = 0
  BY DEF Kept, TypeInv, OpenTabType, OpenType
<1>2. ~open[s].removed
  BY <1>1, Zenon DEF CountInv, CountOK
<1> QED
  BY <1>1, <1>2, Zenon DEF Kept, NameRefs

(* inode::create and Dir::create: a new inode in sectors that t has        *)
(* allocated.                                                              *)
LEMMA NewInodeSound ==
    ASSUME Counting, TypeInv, Sound, NEW t \in Thread, Others(t), pc[t] \in {"create", "mkinode"}, pc'[t] = "add",
           NEW s0 \in Bare(t), loc'[t].ino = s0, loc'[t].op # "link",
           NEW d, inode' = [inode EXCEPT ![s0] = d], UNCHANGED <<used, open, slot, fd>>,
           Owned(s0)' \subseteq Bare(t), Proper(s0)'
    PROVE  Sound'
<1>1. CountInv /\ SectorInv /\ LengthInv /\ BareOK
  BY ZenonT(40) DEF Sound, SectorInv
<1>2. ~Kept(s0) /\ s0 \in Block
  BY <1>1, BareNotKept, Zenon
<1>3. /\ open[s0].cnt = 0 /\ ~open[s0].removed
      /\ NameRefs(s0) = {} /\ FdRefs(s0) = {} /\ CallRefs(s0) = {}
  BY <1>1, <1>2, NotKept, Zenon
<1>4. ~InCall(t) /\ InCall(t)' /\ Creator(t)'
  BY Zenon DEF InCall, Creator
<1>5. /\ CallRefs(s0)' = CallRefs(s0) \cup {t} /\ t \in Creators(s0)'
      /\ \A s : s # s0 => CallRefs(s)' = CallRefs(s) /\ Creators(s)' = Creators(s)
  BY <1>4, CallGain
<1>6. \A s : NameRefs(s)' = NameRefs(s) /\ FdRefs(s)' = FdRefs(s)
  BY NameRefsKept, FdRefsKept, ZenonT(40)
<1>7. CountInv'
  <2>1. CountOK(s0)'
    <3>1. Cardinality(NameRefs(s0)') = 0 /\ Cardinality(FdRefs(s0)') = 0 /\ Cardinality(CallRefs(s0)') = 1
      <4>1. NameRefs(s0)' = {} /\ FdRefs(s0)' = {} /\ CallRefs(s0)' = {t}
        BY <1>3, <1>5, <1>6, Zenon
      <4> QED
        BY <4>1, CardFew, Zenon
    <3>2. Spare1(s0)' = 1
      BY <1>3, <1>5, ZenonT(40) DEF Spare1
    <3>3. open'[s0].cnt = 0 /\ ~open'[s0].removed
      BY <1>3, ZenonT(40)
    <3> QED
      BY <3>1, <3>2, <3>3 DEF CountOK, Counted
  <2>2. ASSUME NEW s \in Block, s # s0 PROVE CountOK(s)'
    <3>1. CountOK(s) /\ SameOpen(s)
      BY <1>1, ZenonT(40) DEF CountInv, SameOpen
    <3> QED
      BY <1>5, <1>6, <2>2, <3>1, CountSame, Zenon
  <2> QED
    BY <2>1, <2>2, Zenon DEF CountInv
<1>8. ASSUME NEW r \in Block, r # s0, Kept(r)' PROVE Stays(r) /\ Owned(r) \cap Bare(t) = {}
  <2>1. ~Freeing(r) /\ ~Freeing(r)' /\ ~Zeroing(r)
    BY OnlyFreeing, Zenon
  <2>2. inode'[r] = inode[r]
    BY <1>8, ZenonT(40) DEF TypeInv, DiskType
  <2>3. Kept(r)
    BY <1>5, <1>6, <1>8, <2>1, ZenonT(40) DEF Kept
  <2> QED
    BY <1>1, <2>1, <2>2, <2>3, ZenonT(40) DEF Stays, BareOK
<1>9. \A u \in Thread : Bare(u)' = {}
  <2>1. Bare(t)' = {}
    BY ZenonT(40) DEF Bare
  <2> QED
    BY <2>1, BareOthers, Zenon
<1>10. SectorInv'
  <2>1. BareOK'
    BY <1>9, Zenon DEF BareOK
  <2>2. Owned(s0)' \subseteq used'
    BY <1>1, Zenon DEF BareOK
  <2> QED
    BY <1>1, <1>2, <1>8, <2>1, <2>2, SectorChanged, Zenon
<1>11. LengthInv'
  <2>1. \A s \in Block : open'[s].cnt > 0 => inode'[s] = inode[s]
    BY <1>3 DEF TypeInv, DiskType
  <2> QED
    BY <1>1, <2>1, LengthKept, Zenon
<1>12. CallInv'
  <2>1. CallOK(t)'
    BY ZenonT(40) DEF CallOK, Writing, WritingAt
  <2> QED
    BY <2>1, CallKept, Zenon
<1> QED
  BY <1>7, <1>10, <1>11, <1>12, Zenon DEF Sound

LEMMA CreateInv ==
    ASSUME Serial, Counting, IInv, NEW t \in Thread, Create(t), lossy' = lossy
    PROVE  IInv'
<1> TypeInv
  BY Zenon DEF IInv
<1>types. TypeInv' /\ Others(t) /\ Went(t, "add", [loc[t] EXCEPT !.ino = loc[t].new])
  <2> DEFINE L == [loc[t] EXCEPT !.ino = loc[t].new]
  <2>1. /\ pc[t] = "create" /\ Runs(t) /\ Goto(t, "add", L) /\ UNCHANGED <<used, open, saved, slot, file>>
        /\ inode' = [inode EXCEPT ![loc[t].new] = EmptyInode(FALSE)]
    BY Zenon DEF Create, At, mem
  <2>2. L \in LocType /\ Fit("add", L, fd[t], pos[t])
    BY <2>1, LocFields DEF LocType, Fit, WritingAt
  <2>3. DiskType' /\ DirType' /\ OpenTabType'
    BY <2>1, NoLocType, Zenon DEF TypeInv, DiskType, DirType, OpenTabType
  <2> HIDE DEF NoLoc, L
  <2> QED
    BY <2>1, <2>2, <2>3, CallStepTypes, Labels, Zenon DEF L
<1>names. slot' = slot /\ pc'[t] # "put"
  <2>1. slot' = slot
    BY Zenon DEF Create, dsk
  <2> QED
    BY <1>types, <2>1, Zenon DEF Went
<1> SUFFICES ASSUME Sound PROVE Sound'
  BY <1>types, <1>names, OtherSteps, Zenon
<1>0. PICK s0 : s0 = loc[t].new
  BY Zenon
<1>1. /\ Others(t) /\ pc[t] = "create" /\ pc'[t] = "add" /\ s0 \in Block
      /\ loc'[t].ino = s0 /\ loc'[t].op = loc[t].op
      /\ UNCHANGED <<used, open, slot, fd>> /\ inode' = [inode EXCEPT ![s0] = EmptyInode(FALSE)]
  <2>1. /\ Others(t) /\ Went(t, "add", [loc[t] EXCEPT !.ino = s0]) /\ pc[t] = "create"
        /\ UNCHANGED <<used, open, slot, fd>> /\ inode' = [inode EXCEPT ![s0] = EmptyInode(FALSE)]
    BY <1>0, <1>types, ZenonT(40) DEF Create, At, mem, file
  <2>2. [loc[t] EXCEPT !.ino = s0].ino = s0 /\ [loc[t] EXCEPT !.ino = s0].op = loc[t].op
    BY LocFields, Zenon DEF LocType
  <2>3. s0 \in Block
    BY <1>0, <2>1, LocFields, Zenon DEF Fit
  <2> QED
    BY <2>1, <2>2, <2>3, Zenon DEF Went
<1>2. loc[t].op # "link"
  BY <1>1, LocFields, ZenonT(40) DEF Fit, WritingAt
<1>3. s0 \in Bare(t)
  BY <1>0, <1>1, Zenon DEF Bare
<1>4. inode'[s0] = EmptyInode(FALSE)
  BY <1>1, Zenon DEF TypeInv, DiskType
<1>5. \A i \in Index : inode'[s0].blk[i] = None
  BY <1>4 DEF EmptyInode
<1>6. Owned(s0)' \subseteq Bare(t)
  BY <1>3, <1>5, Zenon DEF Owned, DataBlocks, Index
<1>7. Proper(s0)'
  BY <1>5, Zenon DEF Proper
<1> DEFINE d == EmptyInode(FALSE)
<1> HIDE DEF d
<1> QED
  BY <1>1, <1>2, <1>3, <1>6, <1>7, NewInodeSound, Zenon DEF d

LEMMA MkdirInodeInv ==
    ASSUME Serial, Counting, IInv, NEW t \in Thread, MkdirInode(t), lossy' = lossy
    PROVE  IInv'
<1> TypeInv
  BY Zenon DEF IInv
<1>types. TypeInv' /\ Others(t) /\ Went(t, "add", loc[t])
  <2>1. /\ pc[t] = "mkinode" /\ Runs(t) /\ Goto(t, "add", loc[t]) /\ UNCHANGED <<used, open, saved, slot, file>>
        /\ inode' = [inode EXCEPT ![loc[t].ino] =
                        [EmptyInode(TRUE) EXCEPT !.len = 1, !.blk[1] = loc[t].new]]
    BY Zenon DEF MkdirInode, At, mem
  <2>2. Fit("add", loc[t], fd[t], pos[t]) /\ loc[t].new \in Block
    BY <2>1, LocFields, Zenon DEF Fit, WritingAt
  <2>3. [EmptyInode(TRUE) EXCEPT !.len = 1, !.blk[1] = loc[t].new] \in InodeType
    <3>1. 1 \in 0..MaxBlk /\ 1 \in Index
      BY Constants
    <3>2. EmptyInode(TRUE) \in [len : 0..MaxBlk, blk : [Index -> Block \cup {None}], dir : BOOLEAN]
      BY NoLocType, Zenon DEF InodeType
    <3>3. [EmptyInode(TRUE).blk EXCEPT ![1] = loc[t].new] \in [Index -> Block \cup {None}]
      BY <2>2, <3>1, <3>2, Zenon
    <3> QED
      BY <3>1, <3>2, <3>3, Zenon DEF InodeType
  <2>4. DiskType' /\ DirType' /\ OpenTabType'
    BY <2>1, <2>3, Zenon DEF TypeInv, DiskType, DirType, OpenTabType
  <2> HIDE DEF NoLoc
  <2> QED
    BY <2>1, <2>2, <2>4, CallStepTypes, LocFields, Labels, Zenon
<1>names. slot' = slot /\ pc'[t] # "put"
  <2>1. slot' = slot
    BY Zenon DEF MkdirInode, dsk
  <2> QED
    BY <1>types, <2>1, ZenonT(40) DEF Went
<1> SUFFICES ASSUME Sound PROVE Sound'
  BY <1>types, <1>names, OtherSteps, Zenon
<1>0. PICK s0 : s0 = loc[t].ino
  BY Zenon
<1> DEFINE d == [EmptyInode(TRUE) EXCEPT !.len = 1, !.blk[1] = loc[t].new]
<1>1. /\ Others(t) /\ pc[t] = "mkinode" /\ pc'[t] = "add" /\ loc'[t] = loc[t]
      /\ UNCHANGED <<used, open, slot, fd>> /\ inode' = [inode EXCEPT ![s0] = d]
  BY <1>0, <1>types, Zenon DEF MkdirInode, At, mem, file, Went
<1>2. loc[t].op # "link" /\ s0 \in Block /\ loc[t].new \in Block
  BY <1>0, <1>1, LocFields, Zenon DEF Fit, WritingAt
<1>3. s0 \in Bare(t) /\ loc[t].new \in Bare(t)
  BY <1>0, <1>1, <1>2, Zenon DEF Bare
<1>4. inode'[s0] = d
  BY <1>1, <1>2, Zenon DEF TypeInv, DiskType
<1>5. \A i \in Index : d.blk[i] = IF i = 1 THEN loc[t].new ELSE None
  BY Constants, Zenon DEF EmptyInode
<1>6. loc[t].new # s0
  BY <1>0, <1>1, ZenonT(40) DEF Sound, CallInv, CallOK
<1> HIDE DEF d
<1>7. Owned(s0)' \subseteq Bare(t)
  BY <1>3, <1>4, <1>5, Zenon DEF Owned, DataBlocks, Index
<1>8. Proper(s0)'
  BY <1>4, <1>5, <1>6, Zenon DEF Proper
<1> QED
  BY <1>0, <1>1, <1>2, <1>3, <1>7, <1>8, NewInodeSound, Zenon

(* A thread writes the inode of its open file.                             *)
LEMMA FileInodeSectors ==
    ASSUME TypeInv, SectorInv, NEW t \in Thread, Others(t), StaysIn(t), NEW s0 \in Block, fd[t] = s0,
           NEW d, inode' = [inode EXCEPT ![s0] = d], UNCHANGED <<used, slot, fd>>,
           \A s \in Block : open'[s].cnt = open[s].cnt, pc[t] # "free", pc'[t] \notin {"free", "zero"},
           Owned(s0)' \subseteq Owned(s0) \cup Bare(t), Owned(s0)' \subseteq used, Proper(s0)', Bare(t)' = {}
    PROVE  SectorInv'
<1>1. Kept(s0)
  BY Zenon DEF Kept, FdRefs
<1>2. ASSUME NEW r \in Block, r # s0, Kept(r)' PROVE Stays(r) /\ Owned(r) \cap Owned(s0)' = {}
  <2>1. ~Freeing(r) /\ ~Freeing(r)' /\ ~Zeroing(r)
    BY <1>2, OnlyFreeing, Zenon
  <2>2. inode'[r] = inode[r]
    BY <1>2, Zenon DEF TypeInv, DiskType
  <2>3. CallRefs(r)' = CallRefs(r) /\ FdRefs(r)' = FdRefs(r)
    BY CallRefsKept, FdRefsKept, ZenonT(40)
  <2>4. Kept(r)
    BY <1>2, <2>1, <2>3, ZenonT(40) DEF Kept
  <2>5. Owned(r) \cap Owned(s0) = {} /\ Owned(r) \cap Bare(t) = {}
    BY <1>1, <1>2, <2>4, ZenonT(40) DEF SectorInv, Disjoint, BareOK
  <2> QED
    BY <2>1, <2>2, <2>4, <2>5, ZenonT(40) DEF Stays
<1>3. BareOK'
  BY BareOthers, Zenon DEF BareOK
<1> QED
  BY <1>2, <1>3, SectorChanged, ZenonT(40)

LEMMA TruncateInodeInv ==
    ASSUME Serial, IInv, NEW t \in Thread, TruncateInode(t), lossy' = lossy
    PROVE  IInv'
<1> TypeInv
  BY Zenon DEF IInv
<1>types. TypeInv' /\ Others(t) /\ Went(t, "user", NoLoc) /\ fd[t] \in Block
  <2>1. /\ pc[t] = "zero" /\ Runs(t) /\ Goto(t, "user", NoLoc) /\ UNCHANGED <<used, saved, slot, file>>
        /\ inode' = [inode EXCEPT ![fd[t]] = EmptyInode(@.dir)]
        /\ open' = IF open[fd[t]].cnt > 0 THEN [open EXCEPT ![fd[t]].len = 0] ELSE open
    BY Zenon DEF TruncateInode, At
  <2>2. fd[t] \in Block /\ 0 \in 0..MaxBlk
    BY <2>1, LocFields, Constants DEF Fit
  <2>3. EmptyInode(inode[fd[t]].dir) \in InodeType
    BY <2>2, NoLocType, Zenon DEF TypeInv, DiskType, InodeType
  <2>4. DiskType' /\ DirType'
    BY <2>1, <2>2, <2>3, Zenon DEF TypeInv, DiskType, DirType
  <2>5. OpenTabType'
    BY <2>1, <2>2, Zenon DEF TypeInv, OpenTabType, OpenType
  <2> HIDE DEF NoLoc
  <2> QED
    BY <2>1, <2>2, <2>4, <2>5, CallStepTypes, NoLocType, Labels, Zenon
<1>names. slot' = slot /\ pc'[t] # "put"
  <2>1. slot' = slot
    BY Zenon DEF TruncateInode, dsk
  <2> QED
    BY <1>types, <2>1, Zenon DEF Went
<1> SUFFICES ASSUME Sound PROVE Sound'
  BY <1>types, <1>names, OtherSteps, Zenon
<1>0. PICK s0 : s0 = fd[t]
  BY Zenon
<1> DEFINE d == EmptyInode(inode[s0].dir)
<1>1. /\ Others(t) /\ s0 \in Block /\ pc[t] = "zero" /\ pc'[t] = "user" /\ UNCHANGED <<used, slot, fd>>
      /\ inode' = [inode EXCEPT ![s0] = d]
      /\ open' = IF open[s0].cnt > 0 THEN [open EXCEPT ![s0].len = 0] ELSE open
  BY <1>0, <1>types, Zenon DEF TruncateInode, At, file, Went
<1>2. CountInv /\ SectorInv /\ LengthInv
  BY Zenon DEF Sound
<1>3. /\ \A s \in Block : open'[s].cnt = open[s].cnt /\ open'[s].removed = open[s].removed
      /\ \A s \in Block : s # s0 => open'[s] = open[s]
      /\ open'[s0].cnt > 0 => open'[s0].len = 0
  BY <1>1, Zenon DEF TypeInv, OpenTabType, OpenType
<1>4. inode'[s0] = d /\ \A s \in Block : s # s0 => inode'[s] = inode[s]
  BY <1>1, Zenon DEF TypeInv, DiskType
<1>5. d.len = 0 /\ \A i \in Index : d.blk[i] = None
  BY Zenon DEF EmptyInode
<1> HIDE DEF d
<1>6. StaysIn(t)
  BY <1>1, Zenon DEF StaysIn, InCall
<1>7. CountInv'
  <2>1. \A s \in Block : SameOpen(s)
    BY <1>3, Zenon DEF SameOpen
  <2> QED
    BY <1>1, <1>2, <1>6, <2>1, CountKept, Zenon
<1>8. SectorInv'
  <2>1. s0 \in used
    <3>1. Kept(s0) /\ ~Freeing(s0)
      BY <1>0, <1>1, OnlyFreeing, Zenon DEF Kept, FdRefs
    <3> QED
      BY <1>1, <1>2, <3>1, Zenon DEF SectorInv, KeptOK
  <2>2. Owned(s0)' \subseteq {s0}
    BY <1>4, <1>5, Zenon DEF Owned, DataBlocks, Index
  <2>3. Proper(s0)'
    BY <1>4, <1>5, Zenon DEF Proper
  <2>4. s0 \in Owned(s0)
    BY Zenon DEF Owned
  <2>5. Bare(t)' = {}
    BY <1>1, Zenon DEF Bare
  <2> QED
    BY <1>0, <1>1, <1>2, <1>3, <1>6, <2>1, <2>2, <2>3, <2>4, <2>5, FileInodeSectors, Zenon
<1>9. LengthInv'
  <2>1. \A u \in Thread : pc[u] # "length"
    BY <1>1, Zenon DEF Others
  <2> QED
    BY <1>2, <1>3, <1>4, <1>5, <2>1, Zenon DEF LengthInv
<1>10. CallInv'
  <2>1. CallOK(t)'
    BY <1>1, Zenon DEF CallOK, Writing, WritingAt
  <2> QED
    BY <1>1, <2>1, CallKept, Zenon
<1> QED
  BY <1>7, <1>8, <1>9, <1>10, Zenon DEF Sound

LEMMA WriteInodeInv ==
    ASSUME Serial, IInv, NEW t \in Thread, WriteInode(t), lossy' = lossy
    PROVE  IInv'
<1> TypeInv
  BY Zenon DEF IInv
<1>types. LET end == pos[t] + IF pc[t] = "data" THEN 1 ELSE 0
              cp == [loc[t].cp EXCEPT !.len = IF end > @ THEN end ELSE @]
          IN  /\ TypeInv' /\ Others(t) /\ fd[t] \in Block
              /\ inode' = [inode EXCEPT ![fd[t]] = cp] /\ pos' = [pos EXCEPT ![t] = end]
              /\ Went(t, "length", [loc[t] EXCEPT !.cp = cp])
  <2> DEFINE end == pos[t] + IF pc[t] = "data" THEN 1 ELSE 0
             cp == [loc[t].cp EXCEPT !.len = IF end > @ THEN end ELSE @]
             L == [loc[t] EXCEPT !.cp = cp]
  <2>1. /\ pc[t] \in {"data", "full"} /\ Runs(t) /\ Goto(t, "length", L)
        /\ UNCHANGED <<used, open, saved, slot, fd>>
        /\ inode' = [inode EXCEPT ![fd[t]] = cp] /\ pos' = [pos EXCEPT ![t] = end]
    BY Zenon DEF WriteInode, At, mem
  <2>2. /\ fd[t] \in Block /\ pos[t] \in 0..MaxBlk /\ pos[t] < MaxBlk /\ loc[t].cp \in InodeType
    BY <2>1, LocFields, Zenon DEF Fit, WritingAt, LocType
  <2>3. end \in 0..MaxBlk
    BY <2>2, Constants
  <2> HIDE DEF end
  <2>4. cp \in InodeType
    BY <2>2, <2>3, Zenon DEF InodeType
  <2> HIDE DEF cp
  <2>5. L \in LocType /\ Fit("length", L, fd[t], end)
    BY <2>1, <2>4, LocFields DEF LocType, Fit, WritingAt
  <2>6. DiskType' /\ DirType' /\ OpenTabType'
    BY <2>1, <2>2, <2>4, Zenon DEF TypeInv, DiskType, DirType, OpenTabType
  <2>7. fd' = [fd EXCEPT ![t] = fd[t]]
    BY <2>1, Zenon DEF TypeInv, CallType
  <2> HIDE DEF NoLoc, L
  <2>8. TypeInv' /\ Others(t) /\ Went(t, "length", L)
    BY <2>1, <2>2, <2>3, <2>5, <2>6, <2>7, StepTypes, Labels, Zenon
  <2> QED
    BY <2>1, <2>2, <2>8, Zenon DEF L, cp, end
<1>names. slot' = slot /\ pc'[t] # "put"
  <2>1. slot' = slot
    BY Zenon DEF WriteInode, dsk
  <2> QED
    BY <1>types, <2>1, ZenonT(40) DEF Went
<1> SUFFICES ASSUME Sound PROVE Sound'
  BY <1>types, <1>names, OtherSteps, Zenon
<1>0. PICK s0 : s0 = fd[t]
  BY Zenon
<1> DEFINE i0 == pos[t] + 1
           end == pos[t] + IF pc[t] = "data" THEN 1 ELSE 0
           d == [loc[t].cp EXCEPT !.len = IF end > @ THEN end ELSE @]
<1>1. /\ Others(t) /\ s0 \in Block /\ pc[t] \in {"data", "full"} /\ pc'[t] = "length"
      /\ UNCHANGED <<used, open, slot, fd>> /\ inode' = [inode EXCEPT ![s0] = d] /\ loc'[t].cp = d
  <2>1. /\ Others(t) /\ s0 \in Block /\ Went(t, "length", [loc[t] EXCEPT !.cp = d])
        /\ inode' = [inode EXCEPT ![s0] = d]
    BY <1>0, <1>types, Zenon
  <2>2. pc[t] \in {"data", "full"} /\ UNCHANGED <<used, open, slot, fd>>
    BY Zenon DEF WriteInode, At, mem
  <2> HIDE DEF d
  <2>3. [loc[t] EXCEPT !.cp = d].cp = d
    BY LocFields, Zenon DEF LocType
  <2> QED
    BY <2>1, <2>2, <2>3, Zenon DEF Went
<1>2. CountInv /\ SectorInv /\ LengthInv
  BY Zenon DEF Sound
<1>3. inode'[s0] = d /\ \A s \in Block : s # s0 => inode'[s] = inode[s]
  BY <1>1, Zenon DEF TypeInv, DiskType
<1>4. i0 \in Index /\ loc[t].cp \in InodeType
  <2>1. pos[t] \in 0..MaxBlk /\ pos[t] < MaxBlk /\ loc[t].cp \in InodeType
    BY <1>1, LocFields, Zenon DEF Fit, WritingAt, LocType
  <2> QED
    BY <2>1, Constants DEF Index
<1>5. d.blk = loc[t].cp.blk /\ d.blk \in [Index -> Block \cup {None}]
  BY <1>4, Zenon DEF InodeType
<1>6. /\ \A i \in Index : i # i0 \/ pc[t] # "data" => d.blk[i] = inode[s0].blk[i]
      /\ pc[t] = "data" => d.blk[i0] # None /\ inode[s0].blk[i0] \in {None, d.blk[i0]}
  <2>1. /\ \A i \in Index : i # i0 \/ pc[t] # "data" => loc[t].cp.blk[i] = inode[s0].blk[i]
        /\ pc[t] = "data" => loc[t].cp.blk[i0] # None /\ inode[s0].blk[i0] \in {None, loc[t].cp.blk[i0]}
    BY <1>0, <1>1, ZenonT(40) DEF Sound, CallInv, CallOK, Writing, WritingAt
  <2> HIDE DEF d
  <2> QED
    BY <1>5, <2>1, ZenonT(40)
<1>7. pc[t] = "data" /\ d.blk[i0] # inode[s0].blk[i0] => d.blk[i0] \in Bare(t)
  <2> SUFFICES ASSUME pc[t] = "data", d.blk[i0] # inode[s0].blk[i0] PROVE d.blk[i0] \in Bare(t)
    BY Zenon
  <2>1. d.blk[i0] \in Block
    BY <1>4, <1>5, <1>6, Zenon
  <2> QED
    BY <1>0, <1>5, <2>1, Zenon DEF Bare
<1> HIDE DEF d, end
<1>8. Kept(s0) /\ ~Freeing(s0) /\ ~Zeroing(s0)
  BY <1>0, <1>1, OnlyFreeing, ZenonT(40) DEF Kept, FdRefs
<1>9. Owned(s0) \subseteq used /\ Proper(s0) /\ Bare(t) \subseteq used /\ Owned(s0) \cap Bare(t) = {}
  BY <1>1, <1>2, <1>8, ZenonT(40) DEF SectorInv, KeptOK, BareOK
<1>10. s0 \in Owned(s0) /\ \A i \in Index : inode[s0].blk[i] # None => inode[s0].blk[i] \in Owned(s0)
  BY Zenon DEF Owned, DataBlocks, Index
<1>11. \A i \in Index : d.blk[i] = inode[s0].blk[i] \/ (i = i0 /\ inode[s0].blk[i0] = None /\ d.blk[i0] \in Bare(t))
  BY <1>6, <1>7, Zenon
<1>12. Owned(s0)' \subseteq Owned(s0) \cup Bare(t)
  <2>1. \A i \in Index : d.blk[i] # None => d.blk[i] \in Owned(s0) \cup Bare(t)
    BY <1>10, <1>11, Zenon
  <2> QED
    BY <1>3, <1>10, <2>1, Zenon DEF Owned, DataBlocks, Index
<1>13. Proper(s0)'
  <2>1. \A i, j \in Index : d.blk[i] # None => d.blk[i] # s0 /\ (i # j => d.blk[i] # d.blk[j])
    <3> SUFFICES ASSUME NEW i \in Index, NEW j \in Index, d.blk[i] # None
                 PROVE  d.blk[i] # s0 /\ (i # j => d.blk[i] # d.blk[j])
      BY Zenon
    <3>1. CASE d.blk[i] = inode[s0].blk[i]
      <4>1. d.blk[i] # s0 /\ (i # j => d.blk[i] # inode[s0].blk[j]) /\ d.blk[i] \in Owned(s0)
        BY <1>9, <1>10, <3>1, Zenon DEF Proper
      <4> QED
        BY <1>9, <1>11, <4>1, Zenon
    <3>2. CASE i = i0 /\ d.blk[i0] \in Bare(t)
      <4>1. d.blk[i] \notin Owned(s0)
        BY <1>9, <3>2, Zenon
      <4> QED
        BY <1>10, <1>11, <3>2, <4>1, Zenon
    <3> QED
      BY <1>11, <3>1, <3>2, ZenonT(40)
  <2> QED
    BY <1>3, <2>1, Zenon DEF Proper
<1>14. StaysIn(t) /\ Bare(t)' = {}
  BY <1>1, ZenonT(40) DEF StaysIn, InCall, Bare
<1>15. CountInv'
  <2>1. \A s \in Block : SameOpen(s)
    BY <1>1, Zenon DEF SameOpen
  <2> QED
    BY <1>1, <1>2, <1>14, <2>1, CountKept, Zenon
<1>16. SectorInv'
  <2>1. Owned(s0)' \subseteq used
    BY <1>9, <1>12, Zenon
  <2> QED
    BY <1>0, <1>1, <1>2, <1>12, <1>13, <1>14, <2>1, FileInodeSectors, Zenon
<1>17. LengthInv'
  <2>1. \A u \in Thread : pc[u] # "length"
    BY <1>1, ZenonT(40) DEF Others
  <2>2. pc'[t] = "length" /\ fd'[t] = s0
    BY <1>0, <1>1, ZenonT(40)
  <2> QED
    BY <1>1, <1>2, <1>3, <2>1, <2>2, ZenonT(40) DEF LengthInv
<1>18. CallInv'
  <2>1. loc'[t].cp = inode'[fd'[t]]
    BY <1>0, <1>1, <1>3, Zenon
  <2>2. CallOK(t)'
    BY <1>1, <2>1, ZenonT(40) DEF CallOK, Writing, WritingAt
  <2> QED
    BY <1>1, <2>2, CallKept, ZenonT(40)
<1> QED
  BY <1>15, <1>16, <1>17, <1>18, Zenon DEF Sound

-----------------------------------------------------------------------------
(* The steps on the free map, and the length in memory                     *)

(* A step of a call that changes no reference and no inode.                *)
LEMMA SameRefs ==
    ASSUME Sound, NEW t \in Thread, Others(t), StaysIn(t), UNCHANGED <<slot, fd, inode>>,
           pc[t] # "clear", pc'[t] # "clear", pc'[t] # "free", \A s \in Block : SameOpen(s)
    PROVE  /\ CountInv'
           /\ \A s \in Block : Kept(s)' => /\ Kept(s) /\ inode'[s] = inode[s]
                                           /\ (pc[t] # "free" /\ (Zeroing(s) => Zeroing(s)') => Stays(s))
<1>1. CountInv'
  BY CountKept, Zenon DEF Sound
<1>2. ASSUME NEW s \in Block, Kept(s)'
      PROVE  Kept(s) /\ inode'[s] = inode[s] /\ (pc[t] # "free" /\ (Zeroing(s) => Zeroing(s)') => Stays(s))
  <2>1. CallRefs(s)' = CallRefs(s) /\ FdRefs(s)' = FdRefs(s)
    BY CallRefsKept, FdRefsKept, Zenon
  <2>2. ~Freeing(s)' /\ (pc[t] # "free" => ~Freeing(s))
    BY OnlyFreeing, Zenon
  <2>3. Kept(s)
    BY <1>2, <2>1, <2>2, ZenonT(40) DEF Kept, SameOpen
  <2> QED
    BY <2>2, <2>3, ZenonT(40) DEF Stays
<1> QED
  BY <1>1, <1>2, ZenonT(40)

LEMMA MarkInv ==
    ASSUME Serial, IInv, NEW t \in Thread, Mark(t), lossy' = lossy
    PROVE  IInv'
<1> TypeInv
  BY Zenon DEF IInv
<1>types. TypeInv' /\ Others(t) /\ Went(t, loc[t].next, loc[t])
  <2>1. /\ pc[t] = "mark" /\ Runs(t) /\ used' = used \cup {loc[t].new} /\ Goto(t, loc[t].next, loc[t])
        /\ UNCHANGED <<open, saved, inode, slot, file>>
    BY Zenon DEF Mark, At, dsk
  <2>2. loc[t].next \in PCs /\ loc[t].new \in Block /\ Fit(loc[t].next, loc[t], fd[t], pos[t])
    BY <2>1, LocFields, Zenon DEF Fit, WritingAt, LocType
  <2>3. DiskType' /\ DirType' /\ OpenTabType'
    BY <2>1, <2>2, Zenon DEF TypeInv, DiskType, DirType, OpenTabType
  <2> HIDE DEF NoLoc
  <2> QED
    BY <2>1, <2>2, <2>3, CallStepTypes, LocFields, Zenon
<1>names. slot' = slot /\ pc'[t] # "put"
  <2>1. loc[t].next # "put"
    BY LocFields, ZenonT(40) DEF Mark, At, Fit
  <2>2. slot' = slot
    BY Zenon DEF Mark, dsk
  <2> QED
    BY <1>types, <2>1, <2>2, Zenon DEF Went
<1> SUFFICES ASSUME Sound PROVE Sound'
  BY <1>types, <1>names, OtherSteps, Zenon
<1>0. PICK b : b = loc[t].new
  BY Zenon
<1>1. /\ Others(t) /\ pc[t] = "mark" /\ pc'[t] = loc[t].next /\ loc'[t] = loc[t] /\ b \in Block
      /\ loc[t].next \in {"create", "mkblock", "mkinode", "extend"} /\ used' = used \cup {b}
      /\ UNCHANGED <<open, slot, inode, fd, pos>>
  <2>1. Others(t) /\ Went(t, loc[t].next, loc[t]) /\ pc[t] = "mark" /\ used' = used \cup {b}
        /\ UNCHANGED <<open, slot, inode, fd, pos>>
    BY <1>0, <1>types, Zenon DEF Mark, At, dsk, file
  <2>2. b \in Block /\ loc[t].next \in {"create", "mkblock", "mkinode", "extend"}
    BY <1>0, <2>1, LocFields, Zenon DEF Fit
  <2> QED
    BY <2>1, <2>2, Zenon DEF Went
<1>2. CountInv /\ SectorInv /\ LengthInv /\ CallOK(t) /\ BareOK
  BY Zenon DEF Sound, CallInv, SectorInv
<1>3. StaysIn(t) /\ \A s \in Block : SameOpen(s)
  BY <1>1, Zenon DEF StaysIn, InCall, SameOpen
<1>4. \A s \in Block : ~Zeroing(s) /\ ~Freeing(s)
  BY <1>1, OnlyFreeing, ZenonT(40)
<1>5. CountInv' /\ \A s \in Block : Kept(s)' => Kept(s) /\ inode'[s] = inode[s] /\ Stays(s)
  BY <1>1, <1>3, <1>4, SameRefs, ZenonT(40)
<1>6. b \notin used
  BY <1>0, <1>1, <1>2, ZenonT(40) DEF CallOK
<1>7. SectorInv'
  <2>1. Bare(t)' \subseteq Bare(t) \cup {b}
    BY <1>0, <1>1, Zenon DEF Bare
  <2>2. ASSUME NEW s \in Block, Kept(s)' PROVE Owned(s)' \cap Bare(t)' = {}
    <3>1. Kept(s) /\ Owned(s)' = Owned(s)
      BY <1>5, <2>2, OwnedSame, ZenonT(40)
    <3>2. Owned(s) \subseteq used /\ Owned(s) \cap Bare(t) = {}
      BY <1>2, <1>4, <3>1, Zenon DEF SectorInv, KeptOK, BareOK
    <3> QED
      BY <1>6, <2>1, <3>1, <3>2, Zenon
  <2>3. Bare(t)' \subseteq used'
    BY <1>1, <1>2, <2>1, Zenon DEF BareOK
  <2>4. BareOK'
    BY <1>1, <2>2, <2>3, BareOthers, Zenon DEF BareOK
  <2> QED
    BY <1>1, <1>2, <1>5, <2>4, SectorKept, Zenon
<1>8. LengthInv'
  BY <1>1, <1>2, LengthKept, ZenonT(40)
<1>9. CallOK(t)'
  <2>1. loc[t].next = "mkinode" => loc[t].new # loc[t].ino
    <3>1. loc[t].next = "mkinode" => loc[t].ino \in Bare(t)
      BY <1>1, LocFields, ZenonT(40) DEF Bare, Fit
    <3> QED
      BY <1>0, <1>2, <1>6, <3>1, ZenonT(40) DEF BareOK
  <2> QED
    BY <1>1, <1>2, <2>1, ZenonT(40) DEF CallOK, Writing, WritingAt
<1>10. CallInv'
  BY <1>1, <1>9, CallKept, Zenon
<1> QED
  BY <1>5, <1>7, <1>8, <1>10, Zenon DEF Sound

LEMMA UndoInv ==
    ASSUME Serial, IInv, NEW t \in Thread, Undo(t), lossy' = lossy
    PROVE  IInv'
<1> TypeInv
  BY Zenon DEF IInv
<1>types. TypeInv' /\ Others(t) /\ Went(t, IF loc[t].op = "open" THEN "look" ELSE "user", loc[t])
  <2> DEFINE l == IF loc[t].op = "open" THEN "look" ELSE "user"
  <2>1. /\ pc[t] = "undo" /\ Runs(t) /\ Goto(t, l, loc[t]) /\ UNCHANGED <<open, saved, inode, slot, file>>
        /\ used' = used \ {loc[t].ino}
    BY Zenon DEF Undo, At, dsk
  <2>2. l \in PCs /\ (l # "user" => Fit(l, loc[t], fd[t], pos[t]))
    BY <2>1, LocFields, Labels, Zenon DEF Fit, WritingAt
  <2>3. DiskType' /\ DirType' /\ OpenTabType'
    BY <2>1, Zenon DEF TypeInv, DiskType, DirType, OpenTabType
  <2> HIDE DEF NoLoc, l
  <2>4. TypeInv' /\ Others(t) /\ Went(t, l, loc[t])
    BY <2>1, <2>2, <2>3, CallStepTypes, LocFields, Zenon
  <2> QED
    BY <2>4, Zenon DEF l
<1>names. slot' = slot /\ pc'[t] # "put"
  <2>1. slot' = slot
    BY Zenon DEF Undo, dsk
  <2> QED
    BY <1>types, <2>1, Zenon DEF Went
<1> SUFFICES ASSUME Sound PROVE Sound'
  BY <1>types, <1>names, OtherSteps, Zenon
<1>0. PICK b : b = loc[t].ino
  BY Zenon
<1>1. /\ Others(t) /\ pc[t] = "undo" /\ pc'[t] \in {"look", "user"} /\ b \in Block
      /\ used' = used \ {b} /\ UNCHANGED <<open, slot, inode, fd, pos>>
  <2>1. /\ Others(t) /\ pc[t] = "undo" /\ used' = used \ {b} /\ UNCHANGED <<open, slot, inode, fd, pos>>
        /\ Went(t, IF loc[t].op = "open" THEN "look" ELSE "user", loc[t])
    BY <1>0, <1>types, ZenonT(40) DEF Undo, At, dsk, file
  <2>2. b \in Block
    BY <1>0, <2>1, LocFields, Zenon DEF Fit
  <2> QED
    BY <2>1, <2>2, ZenonT(40) DEF Went
<1>2. SectorInv /\ LengthInv /\ BareOK
  BY Zenon DEF Sound, SectorInv
<1>3. StaysIn(t) /\ \A s \in Block : SameOpen(s)
  BY <1>1, ZenonT(40) DEF StaysIn, InCall, SameOpen
<1>4. \A s \in Block : ~Zeroing(s)
  BY <1>1, OnlyFreeing, ZenonT(40)
<1>5. CountInv' /\ \A s \in Block : Kept(s)' => Kept(s) /\ inode'[s] = inode[s] /\ Stays(s)
  BY <1>1, <1>3, <1>4, SameRefs, ZenonT(40)
<1>6. b \in Bare(t) /\ Bare(t)' = {}
  BY <1>0, <1>1, Zenon DEF Bare
<1>7. Released(b)
  BY <1>2, <1>5, <1>6, ZenonT(40) DEF Released, BareOK
<1>8. BareOK'
  BY <1>1, <1>6, BareOthers, ZenonT(40) DEF BareOK
<1>9. SectorInv'
  BY <1>1, <1>2, <1>5, <1>7, <1>8, SectorKept, Zenon
<1>10. LengthInv'
  BY <1>1, <1>2, LengthKept, Zenon
<1>11. CallInv'
  <2>1. CallOK(t)'
    BY <1>1, ZenonT(40) DEF CallOK, Writing, WritingAt
  <2> QED
    BY <1>1, <2>1, CallKept, Zenon
<1> QED
  BY <1>5, <1>9, <1>10, <1>11, Zenon DEF Sound

LEMMA DataOwned ==
    ASSUME NEW s, NEW n \in 0..MaxBlk
    PROVE  DataBlocks(inode[s], n) \subseteq Owned(s) /\ (Proper(s) => s \notin DataBlocks(inode[s], n))
<1>1. 1..n \subseteq Index
  BY Constants DEF Index
<1> QED
  BY <1>1, Zenon DEF Owned, DataBlocks, Proper, Index

LEMMA TruncateInv ==
    ASSUME Serial, IInv, NEW t \in Thread, Truncate(t), lossy' = lossy
    PROVE  IInv'
<1> TypeInv
  BY Zenon DEF IInv
<1>types. TypeInv' /\ Others(t) /\ Went(t, "zero", loc[t])
  <2>1. /\ pc[t] = "trunc" /\ Runs(t) /\ Goto(t, "zero", loc[t]) /\ UNCHANGED <<open, saved, inode, slot, file>>
        /\ used' \subseteq used
    BY Zenon DEF Truncate, At, dsk
  <2>2. Fit("zero", loc[t], fd[t], pos[t])
    BY <2>1, LocFields, Zenon DEF Fit, WritingAt
  <2>3. DiskType' /\ DirType' /\ OpenTabType'
    BY <2>1, Zenon DEF TypeInv, DiskType, DirType, OpenTabType
  <2> HIDE DEF NoLoc
  <2> QED
    BY <2>1, <2>2, <2>3, CallStepTypes, LocFields, Labels, Zenon
<1>names. slot' = slot /\ pc'[t] # "put"
  <2>1. slot' = slot
    BY Zenon DEF Truncate, dsk
  <2> QED
    BY <1>types, <2>1, Zenon DEF Went
<1> SUFFICES ASSUME Sound PROVE Sound'
  BY <1>types, <1>names, OtherSteps, Zenon
<1>0. PICK s0 : s0 = fd[t]
  BY Zenon
<1>1. /\ Others(t) /\ pc[t] = "trunc" /\ pc'[t] = "zero" /\ s0 \in Block
      /\ used' = used \ DataBlocks(inode[s0], Length(s0)) /\ UNCHANGED <<open, slot, inode, fd, pos>>
  <2>1. /\ Others(t) /\ pc[t] = "trunc" /\ Went(t, "zero", loc[t])
        /\ used' = used \ DataBlocks(inode[s0], Length(s0)) /\ UNCHANGED <<open, slot, inode, fd, pos>>
    BY <1>0, <1>types, ZenonT(40) DEF Truncate, At, dsk, file
  <2>2. s0 \in Block
    BY <1>0, <2>1, LocFields, ZenonT(40) DEF Fit
  <2> QED
    BY <2>1, <2>2, Zenon DEF Went
<1>2. SectorInv /\ LengthInv /\ BareOK
  BY Zenon DEF Sound, SectorInv
<1>3. StaysIn(t) /\ \A s \in Block : SameOpen(s)
  BY <1>1, ZenonT(40) DEF StaysIn, InCall, SameOpen
<1>4. /\ \A s \in Block : ~Zeroing(s)
      /\ Zeroing(s0)' /\ ~Freeing(s0) /\ Kept(s0)
  BY <1>0, <1>1, OnlyFreeing, ZenonT(40) DEF Kept, FdRefs
<1>5. CountInv' /\ \A s \in Block : Kept(s)' => Kept(s) /\ inode'[s] = inode[s] /\ Stays(s)
  BY <1>1, <1>3, <1>4, SameRefs, ZenonT(40)
<1>6. Bare(t)' = {}
  BY <1>1, ZenonT(40) DEF Bare
<1>7. ASSUME NEW b \in used \ used' PROVE Released(b)
  <2>1. b \in Owned(s0) /\ b # s0
    <3>1. Length(s0) \in 0..MaxBlk /\ Proper(s0)
      BY <1>1, <1>2, <1>4, LengthType, ZenonT(40) DEF SectorInv, KeptOK
    <3> QED
      BY <1>1, <1>7, <3>1, DataOwned, ZenonT(40)
  <2> QED
    BY <1>1, <1>2, <1>4, <1>5, <2>1, Zenon DEF Released, SectorInv, Disjoint
<1>8. BareOK'
  BY <1>1, <1>6, BareOthers, ZenonT(40) DEF BareOK
<1>9. SectorInv'
  BY <1>2, <1>5, <1>7, <1>8, SectorKept, Zenon
<1>10. LengthInv'
  BY <1>1, <1>2, LengthKept, Zenon
<1>11. CallInv'
  <2>1. CallOK(t)'
    BY <1>1, ZenonT(40) DEF CallOK, Writing, WritingAt
  <2> QED
    BY <1>1, <2>1, CallKept, Zenon
<1> QED
  BY <1>5, <1>9, <1>10, <1>11, Zenon DEF Sound

LEMMA CloseDataInv ==
    ASSUME Serial, IInv, NEW t \in Thread, CloseData(t), lossy' = lossy
    PROVE  IInv'
<1> TypeInv
  BY Zenon DEF IInv
<1>types. TypeInv' /\ Others(t) /\ Went(t, loc[t].next, loc[t])
  <2>1. /\ pc[t] = "free" /\ Runs(t) /\ Goto(t, loc[t].next, loc[t]) /\ UNCHANGED <<open, saved, inode, slot, file>>
        /\ used' \subseteq used
    BY Zenon DEF CloseData, At, dsk
  <2>2. loc[t].next \in {"user", "undo"} /\ Fit("undo", loc[t], fd[t], pos[t])
    BY <2>1, LocFields, Zenon DEF Fit, WritingAt
  <2>3. DiskType' /\ DirType' /\ OpenTabType'
    BY <2>1, Zenon DEF TypeInv, DiskType, DirType, OpenTabType
  <2> HIDE DEF NoLoc
  <2> QED
    BY <2>1, <2>2, <2>3, CallStepTypes, LocFields, Labels, Zenon
<1>names. slot' = slot /\ pc'[t] # "put"
  <2>1. loc[t].next # "put"
    BY LocFields, ZenonT(40) DEF CloseData, At, Fit
  <2>2. slot' = slot
    BY Zenon DEF CloseData, dsk
  <2> QED
    BY <1>types, <2>1, <2>2, Zenon DEF Went
<1> SUFFICES ASSUME Sound PROVE Sound'
  BY <1>types, <1>names, OtherSteps, Zenon
<1>0. PICK s0 : s0 = loc[t].ino
  BY Zenon
<1>1. /\ Others(t) /\ pc[t] = "free" /\ pc'[t] = "user" /\ s0 \in Block
      /\ used' = used \ DataBlocks(inode[s0], loc[t].cp.len) /\ UNCHANGED <<open, slot, inode, fd, pos>>
  <2>1. /\ Others(t) /\ pc[t] = "free" /\ Went(t, loc[t].next, loc[t])
        /\ used' = used \ DataBlocks(inode[s0], loc[t].cp.len) /\ UNCHANGED <<open, slot, inode, fd, pos>>
    BY <1>0, <1>types, ZenonT(40) DEF CloseData, At, dsk, file
  <2>2. s0 \in Block /\ loc[t].next = "user"
    BY <1>0, <2>1, LocFields, ZenonT(40) DEF Fit, Sound, CallInv, CallOK
  <2> QED
    BY <2>1, <2>2, ZenonT(40) DEF Went
<1>2. SectorInv /\ LengthInv /\ BareOK
  BY Zenon DEF Sound, SectorInv
<1>3. StaysIn(t) /\ \A s \in Block : SameOpen(s)
  BY <1>1, ZenonT(40) DEF StaysIn, InCall, SameOpen
<1>4. Kept(s0) /\ \A s \in Block : ~Zeroing(s) /\ ~Freeing(s)' /\ (Freeing(s) <=> s = s0)
  BY <1>0, <1>1, OnlyFreeing, ZenonT(40) DEF Kept
<1>5. CountInv' /\ \A s \in Block : Kept(s)' => Kept(s) /\ inode'[s] = inode[s]
  BY <1>1, <1>3, <1>4, SameRefs, ZenonT(40)
<1>6. ~Kept(s0)'
  <2>1. /\ open[s0].cnt = 0 /\ ~\E i \in Slot : slot[i].ino = s0
        /\ FdRefs(s0) = {} /\ CallRefs(s0) = {}
    BY <1>0, <1>1, ZenonT(40) DEF Sound, CallInv, CallOK
  <2>2. FdRefs(s0)' = {} /\ CallRefs(s0)' = {}
    BY <1>1, <1>3, <2>1, FdRefsKept, CallRefsKept, Zenon
  <2> QED
    BY <1>1, <1>4, <2>1, <2>2, SMTT(20) DEF Kept
<1>7. \A s \in Block : Kept(s)' => Stays(s)
  BY <1>4, <1>5, <1>6, ZenonT(40) DEF Stays
<1>8. ASSUME NEW b \in used \ used' PROVE Released(b)
  <2>1. b \in Owned(s0)
    <3>1. loc[t].cp.len \in 0..MaxBlk
      BY LocFields, ZenonT(40) DEF LocType, InodeType
    <3> QED
      BY <1>1, <1>8, <3>1, DataOwned, ZenonT(40)
  <2> QED
    BY <1>1, <1>2, <1>4, <1>5, <1>6, <2>1, Zenon DEF Released, SectorInv, Disjoint
<1>9. BareOK'
  <2>1. Bare(t)' = {}
    BY <1>1, Zenon DEF Bare
  <2> QED
    BY <1>1, <2>1, BareOthers, ZenonT(40) DEF BareOK
<1>10. SectorInv'
  BY <1>2, <1>7, <1>8, <1>9, SectorKept, Zenon
<1>11. LengthInv'
  BY <1>1, <1>2, LengthKept, Zenon
<1>12. CallInv'
  <2>1. CallOK(t)'
    BY <1>1, Zenon DEF CallOK, Writing, WritingAt
  <2> QED
    BY <1>1, <2>1, CallKept, Zenon
<1> QED
  BY <1>5, <1>10, <1>11, <1>12, Zenon DEF Sound

LEMMA WriteLengthInv ==
    ASSUME Serial, IInv, NEW t \in Thread, WriteLength(t), lossy' = lossy
    PROVE  IInv'
<1> TypeInv
  BY Zenon DEF IInv
<1>types. TypeInv' /\ Others(t) /\ Went(t, "user", NoLoc) /\ fd[t] \in Block
  <2>1. /\ pc[t] = "length" /\ Runs(t) /\ Goto(t, "user", NoLoc) /\ UNCHANGED <<used, saved, inode, slot, file>>
        /\ open' = IF open[fd[t]].cnt > 0 THEN [open EXCEPT ![fd[t]].len = loc[t].cp.len] ELSE open
    BY Zenon DEF WriteLength, At, dsk
  <2>2. fd[t] \in Block /\ loc[t].cp.len \in 0..MaxBlk
    BY <2>1, LocFields, Zenon DEF Fit, WritingAt, LocType, InodeType
  <2>3. OpenTabType'
    BY <2>1, <2>2, Zenon DEF TypeInv, OpenTabType, OpenType
  <2>4. DiskType' /\ DirType'
    BY <2>1, Zenon DEF TypeInv, DiskType, DirType
  <2> HIDE DEF NoLoc
  <2> QED
    BY <2>1, <2>2, <2>3, <2>4, CallStepTypes, NoLocType, Labels, Zenon
<1>names. slot' = slot /\ pc'[t] # "put"
  <2>1. slot' = slot
    BY Zenon DEF WriteLength, dsk
  <2> QED
    BY <1>types, <2>1, Zenon DEF Went
<1> SUFFICES ASSUME Sound PROVE Sound'
  BY <1>types, <1>names, OtherSteps, Zenon
<1>0. PICK s0 : s0 = fd[t]
  BY Zenon
<1>1. /\ Others(t) /\ pc[t] = "length" /\ pc'[t] = "user" /\ s0 \in Block
      /\ open' = IF open[s0].cnt > 0 THEN [open EXCEPT ![s0].len = loc[t].cp.len] ELSE open
      /\ UNCHANGED <<used, slot, inode, fd, pos>>
  BY <1>0, <1>types, Zenon DEF WriteLength, At, dsk, file, Went
<1>2. SectorInv /\ LengthInv /\ BareOK
  BY Zenon DEF Sound, SectorInv
<1>3. /\ \A s \in Block : SameOpen(s) /\ (s # s0 => open'[s] = open[s])
      /\ open[s0].cnt > 0 => open'[s0].len = loc[t].cp.len
  BY <1>1, Zenon DEF TypeInv, OpenTabType, OpenType, SameOpen
<1>4. StaysIn(t)
  BY <1>1, Zenon DEF StaysIn, InCall
<1>5. \A s \in Block : ~Zeroing(s)
  BY <1>1, OnlyFreeing, Zenon
<1>6. CountInv' /\ \A s \in Block : Kept(s)' => Kept(s) /\ inode'[s] = inode[s] /\ Stays(s)
  BY <1>1, <1>3, <1>4, <1>5, SameRefs, Zenon
<1>7. BareOK'
  <2>1. Bare(t)' = {}
    BY <1>1, Zenon DEF Bare
  <2> QED
    BY <1>1, <2>1, BareOthers, Zenon DEF BareOK
<1>8. SectorInv'
  BY <1>1, <1>2, <1>6, <1>7, SectorKept, Zenon
<1>9. LengthInv'
  <2>1. loc[t].cp.len = inode[s0].len
    BY <1>0, <1>1, ZenonT(40) DEF Sound, CallInv, CallOK, Writing, WritingAt
  <2>2. \A u \in Thread : pc[u] = "length" => fd[u] = s0
    BY <1>0, <1>1, Zenon DEF Others
  <2> QED
    BY <1>1, <1>2, <1>3, <2>1, <2>2 DEF LengthInv, SameOpen
<1>10. CallInv'
  <2>1. CallOK(t)'
    BY <1>1, Zenon DEF CallOK, Writing, WritingAt
  <2> QED
    BY <1>1, <2>1, CallKept, Zenon
<1> QED
  BY <1>6, <1>8, <1>9, <1>10, Zenon DEF Sound

-----------------------------------------------------------------------------
(* The steps that open and close                                           *)

LEMMA CardAdd ==
    ASSUME Counting, NEW S, S \subseteq Slot \/ S \subseteq Thread, NEW x, x \notin S
    PROVE  Cardinality(S) \in Nat /\ Cardinality(S \cup {x}) = Cardinality(S) + 1
BY CardinalityIs, Zenon DEF Counting, CountRules

LEMMA CardRemove ==
    ASSUME Counting, NEW S, S \subseteq Slot \/ S \subseteq Thread, NEW x \in S
    PROVE  Cardinality(S) \in Nat /\ Cardinality(S \ {x}) = Cardinality(S) - 1
BY CardinalityIs, Zenon DEF Counting, CountRules

LEMMA RefsIn ==
    ASSUME NEW s
    PROVE  NameRefs(s) \subseteq Slot /\ FdRefs(s) \subseteq Thread /\ CallRefs(s) \subseteq Thread
BY Zenon DEF NameRefs, FdRefs, CallRefs

(* The numbers of references, and when they are zero.                      *)
LEMMA RefsCount ==
    ASSUME Counting, NEW s
    PROVE  /\ Cardinality(NameRefs(s)) \in Nat /\ (Cardinality(NameRefs(s)) = 0 <=> NameRefs(s) = {})
           /\ Cardinality(FdRefs(s)) \in Nat /\ (Cardinality(FdRefs(s)) = 0 <=> FdRefs(s) = {})
           /\ Cardinality(CallRefs(s)) \in Nat /\ (Cardinality(CallRefs(s)) = 0 <=> CallRefs(s) = {})
<1>1. \A S \in (SUBSET Slot) \cup (SUBSET Thread) : Cardinality(S) \in Nat /\ (Cardinality(S) = 0 <=> S = {})
  BY CardinalityIs, Zenon DEF Counting, CountRules
<1> QED
  BY <1>1, RefsIn, Zenon

(* Someone who has a file open from inside a call, or an entry that is not *)
(* being cleared, leaves no room for a creator.                            *)
LEMMA NamedNotCreated ==
    ASSUME Counting, TypeInv, CountInv, NEW s \in Block, NameRefs(s) # {} \/ open[s].cnt > 0
    PROVE  Creators(s) = {}
<1> SUFFICES ASSUME Creators(s) # {}, NameRefs(s) # {} PROVE FALSE
  BY DEF CountInv, CountOK
<1>1. CountOK(s) /\ open[s].cnt = 0
  BY Zenon DEF CountInv, CountOK
<1>2. CallRefs(s) # {}
  BY Zenon DEF Creators
<1>3. Spare1(s) \in {0, 1}
  BY Zenon DEF Spare1
<1> QED
  BY <1>1, <1>2, <1>3, RefsCount DEF CountOK, Counted

(* t opens s0 and takes a unit of open_cnt for it.                         *)
LEMMA OpenCount ==
    ASSUME Counting, TypeInv, CountInv, NEW t \in Thread, Others(t), NEW s0 \in Block,
           ~InCall(t), pc'[t] = "opened", loc'[t].ino = s0, pc[t] # "clear", UNCHANGED <<slot, fd>>,
           NameRefs(s0) # {} \/ open[s0].cnt > 0,
           open'[s0].cnt = open[s0].cnt + 1, open'[s0].removed = open[s0].removed,
           \A s \in Block : s # s0 => SameOpen(s)
    PROVE  CountInv'
<1>1. InCall(t)' /\ ~Creator(t)'
  BY Zenon DEF InCall, Creator
<1>2. /\ t \notin CallRefs(s0) /\ CallRefs(s0)' = CallRefs(s0) \cup {t} /\ Creators(s0)' = Creators(s0)
      /\ \A s : s # s0 => CallRefs(s)' = CallRefs(s) /\ Creators(s)' = Creators(s)
  BY <1>1, CallGain, ZenonT(40)
<1>3. \A s : NameRefs(s)' = NameRefs(s) /\ FdRefs(s)' = FdRefs(s)
  BY NameRefsKept, FdRefsKept, ZenonT(40)
<1>4. CountOK(s0)'
  <2>1. Creators(s0)' = {}
    BY <1>2, NamedNotCreated, ZenonT(40)
  <2>2. Cardinality(CallRefs(s0)') = Cardinality(CallRefs(s0)) + 1
    BY <1>2, RefsIn, CardAdd, ZenonT(40)
  <2>3. Spare1(s0)' = Spare1(s0) /\ Spare1(s0) \in {0, 1}
    BY <1>2, <1>3, ZenonT(40) DEF Spare1
  <2>4. CountOK(s0) /\ open[s0].cnt \in Nat
    BY ZenonT(40) DEF CountInv, TypeInv, OpenTabType, OpenType
  <2>5. Counted(s0)'
    BY <1>3, <2>2, <2>3, <2>4, RefsCount, SMTT(20) DEF CountOK, Counted
  <2> QED
    BY <2>1, <2>4, <2>5, SMTT(20) DEF CountOK
<1>5. ASSUME NEW s \in Block, s # s0 PROVE CountOK(s)'
  <2>1. CountOK(s) /\ SameOpen(s)
    BY <1>5, ZenonT(40) DEF CountInv
  <2> QED
    BY <1>2, <1>3, <1>5, <2>1, CountSame, Zenon
<1> QED
  BY <1>4, <1>5, Zenon DEF CountInv

(* A step that changes no sector and needs no new one.                     *)
LEMMA SectorsQuiet ==
    ASSUME SectorInv, NEW t \in Thread, Others(t), \A s \in Block : Kept(s)' => Kept(s),
           UNCHANGED <<used, inode>>, pc[t] \notin {"free", "zero"}, Bare(t)' = {}
    PROVE  SectorInv'
<1>1. \A s \in Block : ~Freeing(s) /\ ~Zeroing(s)
  BY OnlyFreeing, Zenon
<1>2. \A s \in Block : Kept(s)' => Stays(s)
  BY <1>1, Zenon DEF Stays
<1>3. BareOK'
  BY BareOthers, Zenon DEF BareOK
<1> QED
  BY <1>2, <1>3, SectorKept, Zenon

LEMMA NamedInode ==
    ASSUME NEW t \in Thread, Others(t), pc[t] # "clear", NEW s0, \E i \in Slot : slot[i].ino = s0
    PROVE  NameRefs(s0) # {} /\ Kept(s0)
<1>1. \A i : ~Clearing(i)
  BY Zenon DEF Others, Clearing
<1> QED
  BY <1>1, ZenonT(40) DEF NameRefs, Kept

LEMMA OpenInodeInv ==
    ASSUME Serial, Counting, IInv, NEW t \in Thread, OpenInode(t), lossy' = lossy
    PROVE  IInv'
<1> TypeInv
  BY Zenon DEF IInv
<1>types. /\ TypeInv' /\ Others(t)
          /\ IF open[loc[t].ino].cnt > 0 THEN Went(t, "opened", loc[t])
             ELSE Went(t, "insert", [loc[t] EXCEPT !.cp = inode[loc[t].ino]])
  <2> DEFINE s == loc[t].ino
             L == [loc[t] EXCEPT !.cp = inode[s]]
  <2>1. /\ pc[t] = "open" /\ Runs(t) /\ UNCHANGED <<used, saved, inode, slot, file>>
        /\ IF open[s].cnt > 0
           THEN open' = [open EXCEPT ![s].cnt = @ + 1] /\ Goto(t, "opened", loc[t])
           ELSE Goto(t, "insert", L) /\ open' = open
    BY Zenon DEF OpenInode, At, dsk
  <2>2. s \in Block /\ Fit("opened", loc[t], fd[t], pos[t]) /\ Fit("insert", L, fd[t], pos[t])
    BY <2>1, LocFields, ZenonT(40) DEF LocType, Fit, WritingAt
  <2>3. L \in LocType
    <3>1. inode[s] \in InodeType
      BY <2>2, Zenon DEF TypeInv, DiskType
    <3> QED
      BY <3>1, LocFields DEF LocType
  <2>4. DiskType' /\ DirType' /\ OpenTabType'
    <3>1. OpenTabType'
      BY <2>1, <2>2 DEF TypeInv, OpenTabType, OpenType
    <3> QED
      BY <2>1, <3>1, Zenon DEF TypeInv, DiskType, DirType
  <2> HIDE DEF NoLoc, L
  <2>5. CASE open[s].cnt > 0
    <3>1. TypeInv' /\ Others(t) /\ Went(t, "opened", loc[t])
      BY <2>1, <2>2, <2>4, <2>5, CallStepTypes, LocFields, Labels, Zenon
    <3> QED
      BY <2>5, <3>1, Zenon
  <2>6. CASE ~(open[s].cnt > 0)
    <3>1. TypeInv' /\ Others(t) /\ Went(t, "insert", L)
      BY <2>1, <2>2, <2>3, <2>4, <2>6, CallStepTypes, Labels, Zenon
    <3> QED
      BY <2>6, <3>1, Zenon DEF L
  <2> QED
    BY <2>5, <2>6, Zenon
<1>names. slot' = slot /\ pc'[t] # "put"
  <2>1. slot' = slot
    BY Zenon DEF OpenInode, dsk
  <2> QED
    BY <1>types, <2>1, ZenonT(40) DEF Went
<1> SUFFICES ASSUME Sound PROVE Sound'
  BY <1>types, <1>names, OtherSteps, Zenon
<1>0. PICK s0 : s0 = loc[t].ino
  BY Zenon
<1>1. /\ Others(t) /\ pc[t] = "open" /\ s0 \in Block /\ UNCHANGED <<used, slot, inode, fd, pos>>
      /\ IF open[s0].cnt > 0
         THEN open' = [open EXCEPT ![s0].cnt = @ + 1] /\ Went(t, "opened", loc[t])
         ELSE open' = open /\ Went(t, "insert", [loc[t] EXCEPT !.cp = inode[s0]])
  <2>1. /\ Others(t) /\ pc[t] = "open" /\ UNCHANGED <<used, slot, inode, fd, pos>>
        /\ IF open[s0].cnt > 0 THEN open' = [open EXCEPT ![s0].cnt = @ + 1] ELSE open' = open
        /\ IF open[s0].cnt > 0 THEN Went(t, "opened", loc[t])
           ELSE Went(t, "insert", [loc[t] EXCEPT !.cp = inode[s0]])
    BY <1>0, <1>types, Zenon DEF OpenInode, At, dsk, file
  <2>2. s0 \in Block
    BY <1>0, <2>1, LocFields, Zenon DEF Fit
  <2> QED
    BY <2>1, <2>2, Zenon
<1>2. CountInv /\ SectorInv /\ LengthInv /\ CallOK(t)
  BY Zenon DEF Sound, CallInv
<1>3. \E i \in Slot : slot[i].ino = s0
  BY <1>0, <1>1, <1>2, Zenon DEF CallOK
<1>4. CASE open[s0].cnt > 0
  <2>1. pc'[t] = "opened" /\ loc'[t] = loc[t] /\ open' = [open EXCEPT ![s0].cnt = @ + 1]
    BY <1>1, <1>4, Zenon DEF Went
  <2>2. /\ open'[s0].cnt = open[s0].cnt + 1 /\ open'[s0].removed = open[s0].removed
        /\ open'[s0].len = open[s0].len /\ \A s \in Block : s # s0 => open'[s] = open[s]
    BY <1>1, <2>1, Zenon DEF TypeInv, OpenTabType, OpenType
  <2>3. ~InCall(t)
    BY <1>1, Zenon DEF InCall
  <2>4. CountInv'
    <3>1. \A s \in Block : s # s0 => SameOpen(s)
      BY <2>2, Zenon DEF SameOpen
    <3> QED
      BY <1>0, <1>1, <1>2, <1>4, <2>1, <2>2, <2>3, <3>1, OpenCount, Zenon
  <2>5. SectorInv'
    <3>1. ASSUME NEW s \in Block, s # s0, Kept(s)' PROVE Kept(s)
      <4>1. FdRefs(s)' = FdRefs(s) /\ CallRefs(s)' = CallRefs(s) /\ ~Freeing(s)'
        <5>1. InCall(t)' /\ loc'[t].ino = s0
          BY <1>0, <2>1, Zenon DEF InCall
        <5>2. CallRefs(s)' = CallRefs(s)
          BY <1>1, <2>3, <3>1, <5>1, CallGain, Zenon
        <5> QED
          BY <1>1, <2>1, <5>2, FdRefsKept, OnlyFreeing, Zenon
      <4> QED
        BY <1>1, <2>2, <3>1, <4>1, Zenon DEF Kept
    <3>2. Kept(s0)
      BY <1>4, Zenon DEF Kept
    <3>3. Bare(t)' = {}
      BY <2>1, Zenon DEF Bare
    <3> QED
      BY <1>1, <1>2, <3>1, <3>2, <3>3, SectorsQuiet, Zenon
  <2>6. LengthInv'
    <3>1. \A s \in Block : open'[s].cnt > 0 =>
             open[s].cnt > 0 /\ open'[s].len = open[s].len /\ inode'[s].len = inode[s].len
      BY <1>1, <1>4, <2>2, Zenon
    <3> QED
      BY <1>1, <1>2, <2>1, <3>1, LengthKept, Zenon
  <2>7. CallInv'
    <3>1. CallOK(t)'
      BY <2>1, Zenon DEF CallOK, Writing, WritingAt
    <3> QED
      BY <1>1, <3>1, CallKept, Zenon
  <2> QED
    BY <2>4, <2>5, <2>6, <2>7, Zenon DEF Sound
<1>5. CASE ~(open[s0].cnt > 0)
  <2>1. pc'[t] = "insert" /\ loc'[t].ino = s0 /\ loc'[t].cp = inode[s0] /\ open' = open
    <3>1. [loc[t] EXCEPT !.cp = inode[s0]].cp = inode[s0] /\ [loc[t] EXCEPT !.cp = inode[s0]].ino = s0
      BY <1>0, LocFields, Zenon DEF LocType
    <3> QED
      BY <1>1, <1>5, <3>1, Zenon DEF Went
  <2>2. open[s0].cnt = 0
    BY <1>1, <1>5 DEF TypeInv, OpenTabType, OpenType
  <2>3. StaysIn(t) /\ Bare(t)' = {}
    BY <1>1, <2>1, Zenon DEF StaysIn, InCall, Bare
  <2>4. CallOK(t)'
    BY <1>1, <1>3, <2>1, <2>2, Zenon DEF CallOK, Writing, WritingAt
  <2> QED
    BY <1>1, <2>1, <2>3, <2>4, QuietStep, Zenon
<1> QED
  BY <1>4, <1>5, Zenon

LEMMA InsertInv ==
    ASSUME Serial, Counting, IInv, NEW t \in Thread, Insert(t), lossy' = lossy
    PROVE  IInv'
<1> TypeInv
  BY Zenon DEF IInv
<1>types. TypeInv' /\ Others(t) /\ Went(t, "opened", loc[t])
  <2>1. /\ pc[t] = "insert" /\ Runs(t) /\ Goto(t, "opened", loc[t]) /\ UNCHANGED <<used, saved, inode, slot, file>>
        /\ open' = [open EXCEPT ![loc[t].ino] = [cnt |-> 1, removed |-> FALSE, len |-> loc[t].cp.len]]
    BY Zenon DEF Insert, At, dsk
  <2>2. Fit("opened", loc[t], fd[t], pos[t]) /\ loc[t].cp.len \in 0..MaxBlk
    BY <2>1, LocFields, Zenon DEF Fit, WritingAt, LocType, InodeType
  <2>3. DiskType' /\ DirType' /\ OpenTabType'
    BY <2>1, <2>2, ZenonT(40) DEF TypeInv, DiskType, DirType, OpenTabType, OpenType
  <2> HIDE DEF NoLoc
  <2> QED
    BY <2>1, <2>2, <2>3, CallStepTypes, LocFields, Labels, Zenon
<1>names. slot' = slot /\ pc'[t] # "put"
  <2>1. slot' = slot
    BY Zenon DEF Insert, dsk
  <2> QED
    BY <1>types, <2>1, Zenon DEF Went
<1> SUFFICES ASSUME Sound PROVE Sound'
  BY <1>types, <1>names, OtherSteps, Zenon
<1>0. PICK s0 : s0 = loc[t].ino
  BY Zenon
<1>1. /\ Others(t) /\ pc[t] = "insert" /\ s0 \in Block /\ UNCHANGED <<used, slot, inode, fd, pos>>
      /\ open' = [open EXCEPT ![s0] = [cnt |-> 1, removed |-> FALSE, len |-> loc[t].cp.len]]
      /\ pc'[t] = "opened" /\ loc'[t].ino = s0
  <2>1. /\ Others(t) /\ pc[t] = "insert" /\ UNCHANGED <<used, slot, inode, fd, pos>>
        /\ open' = [open EXCEPT ![s0] = [cnt |-> 1, removed |-> FALSE, len |-> loc[t].cp.len]]
        /\ Went(t, "opened", loc[t])
    BY <1>0, <1>types, ZenonT(40) DEF Insert, At, dsk, file
  <2>2. s0 \in Block
    BY <1>0, <2>1, LocFields, ZenonT(40) DEF Fit
  <2> QED
    BY <1>0, <2>1, <2>2, ZenonT(40) DEF Went
<1>2. CountInv /\ SectorInv /\ LengthInv /\ CallOK(t)
  BY Zenon DEF Sound, CallInv
<1>3. /\ \E i \in Slot : slot[i].ino = s0
      /\ open[s0].cnt = 0 /\ loc[t].cp = inode[s0]
  BY <1>0, <1>1, <1>2, ZenonT(40) DEF CallOK
<1>4. NameRefs(s0) # {} /\ Kept(s0) /\ ~open[s0].removed
  BY <1>1, <1>2, <1>3, NamedInode, ZenonT(40) DEF CountInv, CountOK
<1>5. /\ open'[s0].cnt = 1 /\ open'[s0].removed = FALSE /\ open'[s0].len = inode[s0].len
      /\ \A s \in Block : s # s0 => open'[s] = open[s]
  BY <1>1, <1>3, ZenonT(40) DEF TypeInv, OpenTabType
<1>6. ~InCall(t) /\ InCall(t)'
  BY <1>1, ZenonT(40) DEF InCall
<1>7. CountInv'
  <2>1. open'[s0].cnt = open[s0].cnt + 1 /\ open'[s0].removed = open[s0].removed
    <3>1. open[s0].removed \in BOOLEAN
      BY <1>1, Zenon DEF TypeInv, OpenTabType, OpenType
    <3>2. open[s0].removed = FALSE
      BY <1>4, <3>1, Zenon
    <3>3. open'[s0].removed = open[s0].removed
      BY <1>5, <3>2, ZenonT(40)
    <3> QED
      BY <1>3, <1>5, <3>3
  <2>2. \A s \in Block : s # s0 => SameOpen(s)
    BY <1>5, ZenonT(40) DEF SameOpen
  <2> QED
    BY <1>1, <1>2, <1>4, <1>6, <2>1, <2>2, OpenCount, Zenon
<1>8. SectorInv'
  <2>1. ASSUME NEW s \in Block, s # s0, Kept(s)' PROVE Kept(s)
    <3>1. CallRefs(s)' = CallRefs(s)
      BY <1>1, <1>6, <2>1, CallGain, ZenonT(40)
    <3>2. FdRefs(s)' = FdRefs(s) /\ ~Freeing(s)'
      BY <1>1, FdRefsKept, OnlyFreeing, ZenonT(40)
    <3> QED
      BY <1>1, <1>5, <2>1, <3>1, <3>2, Zenon DEF Kept
  <2>2. Bare(t)' = {}
    BY <1>1, Zenon DEF Bare
  <2> QED
    BY <1>1, <1>2, <1>4, <2>1, <2>2, SectorsQuiet, Zenon
<1>9. LengthInv'
  <2>1. \A u \in Thread : pc[u] # "length"
    BY <1>1, ZenonT(40) DEF Others
  <2> QED
    BY <1>1, <1>2, <1>5, <2>1, ZenonT(40) DEF LengthInv
<1>10. CallInv'
  <2>1. CallOK(t)'
    BY <1>1, ZenonT(40) DEF CallOK, Writing, WritingAt
  <2> QED
    BY <1>1, <2>1, CallKept, Zenon
<1> QED
  BY <1>7, <1>8, <1>9, <1>10, Zenon DEF Sound

(* t makes s0 its open file, or lets it go.                                *)
LEMMA FdGain ==
    ASSUME TypeInv, NEW t \in Thread, NEW s0 \in Block, fd[t] = None, fd' = [fd EXCEPT ![t] = s0]
    PROVE  /\ t \notin FdRefs(s0) /\ FdRefs(s0)' = FdRefs(s0) \cup {t}
           /\ \A s \in Block : s # s0 => FdRefs(s)' = FdRefs(s)
<1>1. fd'[t] = s0 /\ \A u \in Thread : u # t => fd'[u] = fd[u]
  BY Zenon DEF TypeInv, CallType
<1> QED
  BY <1>1, Constants, Zenon DEF FdRefs

LEMMA FdLoss ==
    ASSUME TypeInv, NEW t \in Thread, NEW s0 \in Block, fd[t] = s0, fd' = [fd EXCEPT ![t] = None]
    PROVE  /\ t \in FdRefs(s0) /\ FdRefs(s0)' = FdRefs(s0) \ {t}
           /\ \A s \in Block : s # s0 => FdRefs(s)' = FdRefs(s)
<1>1. fd'[t] = None /\ \A u \in Thread : u # t => fd'[u] = fd[u]
  BY Zenon DEF TypeInv, CallType
<1> QED
  BY <1>1, Constants, Zenon DEF FdRefs

(* A reference passes between a call and an open file.                     *)
Passed(s) ==
    /\ Cardinality(FdRefs(s))' + Cardinality(CallRefs(s))' = Cardinality(FdRefs(s)) + Cardinality(CallRefs(s))
    /\ Cardinality(FdRefs(s))' \in Nat /\ Cardinality(CallRefs(s))' \in Nat
    /\ Creators(s)' = Creators(s)
Untouched(s) == FdRefs(s)' = FdRefs(s) /\ CallRefs(s)' = CallRefs(s) /\ Creators(s)' = Creators(s)

LEMMA PassCount ==
    ASSUME Counting, TypeInv, CountInv, NEW t \in Thread, Others(t), NEW s0 \in Block, UNCHANGED <<slot, open>>,
           pc[t] # "clear", pc'[t] # "clear", Passed(s0),
           \A s \in Block : s # s0 => Untouched(s)
    PROVE  CountInv'
<1>1. \A s : NameRefs(s)' = NameRefs(s)
  BY NameRefsKept, Zenon
<1>2. CountOK(s0)'
  <2>1. Spare1(s0)' = Spare1(s0) /\ Spare1(s0) \in {0, 1}
    BY <1>1, ZenonT(40) DEF Spare1, Passed
  <2>2. CountOK(s0) /\ open[s0].cnt \in Nat
    BY Zenon DEF CountInv, TypeInv, OpenTabType, OpenType
  <2>3. Counted(s0)'
    BY <1>1, <2>1, <2>2, RefsCount, SMTT(20) DEF CountOK, Counted, Passed
  <2> QED
    BY <2>2, <2>3, ZenonT(40) DEF CountOK, Passed
<1>3. ASSUME NEW s \in Block, s # s0 PROVE CountOK(s)'
  <2>1. CountOK(s) /\ SameOpen(s)
    BY ZenonT(40) DEF CountInv, SameOpen
  <2> QED
    BY <1>1, <1>3, <2>1, CountSame, Zenon DEF Untouched
<1> QED
  BY <1>2, <1>3, Zenon DEF CountInv

LEMMA OpenedInv ==
    ASSUME Serial, Counting, IInv, NEW t \in Thread, Opened(t), lossy' = lossy
    PROVE  IInv'
<1> TypeInv
  BY Zenon DEF IInv
<1>types. /\ TypeInv' /\ Others(t)
          /\ IF loc[t].op = "link" THEN Went(t, "add", loc[t])
             ELSE Went(t, IF loc[t].flag = "trunc" THEN "trunc" ELSE "user", loc[t])
  <2> DEFINE l == IF loc[t].flag = "trunc" THEN "trunc" ELSE "user"
             p == IF loc[t].flag = "append" THEN Length(loc[t].ino) ELSE 0
  <2>1. /\ pc[t] = "opened" /\ Runs(t) /\ UNCHANGED <<mem, dsk>>
        /\ IF loc[t].op = "link" THEN Goto(t, "add", loc[t]) /\ UNCHANGED file
           ELSE /\ fd' = [fd EXCEPT ![t] = loc[t].ino] /\ pos' = [pos EXCEPT ![t] = p]
                /\ Goto(t, l, loc[t])
    BY Zenon DEF Opened, At
  <2>2. loc[t].ino \in Block /\ (loc[t].op = "link" => Fit("add", loc[t], fd[t], pos[t]))
    BY <2>1, LocFields, Zenon DEF Fit, WritingAt
  <2>3. p \in 0..MaxBlk
    BY <2>2, LengthType, Constants
  <2>4. l \in PCs /\ (l # "user" => Fit(l, loc[t], loc[t].ino, p))
    BY <2>1, <2>2, LocFields, Labels, ZenonT(40) DEF Fit, WritingAt
  <2>5. DiskType' /\ DirType' /\ OpenTabType'
    BY <2>1, Zenon DEF TypeInv, DiskType, DirType, OpenTabType, mem, dsk
  <2> HIDE DEF NoLoc, l, p
  <2>6. CASE loc[t].op = "link"
    <3>1. TypeInv' /\ Others(t) /\ Went(t, "add", loc[t])
      BY <2>1, <2>2, <2>5, <2>6, CallStepTypes, LocFields, Labels, Zenon
    <3> QED
      BY <2>6, <3>1, Zenon
  <2>7. CASE loc[t].op # "link"
    <3>1. TypeInv' /\ Others(t) /\ Went(t, l, loc[t])
      BY <2>1, <2>2, <2>3, <2>4, <2>5, <2>7, StepTypes, LocFields, Zenon
    <3> QED
      BY <2>7, <3>1, Zenon DEF l
  <2> QED
    BY <2>6, <2>7, Zenon
<1>names. slot' = slot /\ pc'[t] # "put"
  <2>1. slot' = slot
    BY Zenon DEF Opened, dsk
  <2> QED
    BY <1>types, <2>1, Zenon DEF Went
<1> SUFFICES ASSUME Sound PROVE Sound'
  BY <1>types, <1>names, OtherSteps, Zenon
<1>0. PICK s0 : s0 = loc[t].ino
  BY Zenon
<1>1. /\ Others(t) /\ pc[t] = "opened" /\ s0 \in Block /\ UNCHANGED <<used, open, slot, inode>>
      /\ IF loc[t].op = "link" THEN fd' = fd /\ pc'[t] = "add" /\ loc'[t] = loc[t]
         ELSE fd' = [fd EXCEPT ![t] = s0] /\ pc'[t] \in {"trunc", "user"} /\ fd[t] = None
  <2>1. /\ Others(t) /\ pc[t] = "opened" /\ UNCHANGED <<used, open, slot, inode>>
        /\ IF loc[t].op = "link" THEN fd' = fd ELSE fd' = [fd EXCEPT ![t] = s0]
        /\ IF loc[t].op = "link" THEN Went(t, "add", loc[t])
           ELSE Went(t, IF loc[t].flag = "trunc" THEN "trunc" ELSE "user", loc[t])
    BY <1>0, <1>types, ZenonT(40) DEF Opened, At, mem, dsk, file
  <2>2. s0 \in Block /\ (loc[t].op # "link" => fd[t] = None)
    BY <1>0, <2>1, LocFields, ZenonT(40) DEF Fit
  <2> QED
    BY <2>1, <2>2, ZenonT(40) DEF Went
<1>2. CountInv /\ SectorInv /\ LengthInv
  BY Zenon DEF Sound
<1>3. Bare(t)' = {} /\ InCall(t) /\ ~Creator(t)
  BY <1>1, ZenonT(40) DEF Bare, InCall, Creator
<1>4. CallOK(t)'
  BY <1>1, ZenonT(40) DEF CallOK, Writing, WritingAt
<1>5. CASE loc[t].op = "link"
  <2>1. StaysIn(t)
    BY <1>1, <1>5, ZenonT(40) DEF StaysIn, InCall, Creator
  <2> QED
    BY <1>1, <1>3, <1>4, <1>5, <2>1, QuietStep, Zenon
<1>6. CASE loc[t].op # "link"
  <2>1. ~InCall(t)' /\ fd' = [fd EXCEPT ![t] = s0] /\ fd[t] = None
    BY <1>1, <1>6, Zenon DEF InCall
  <2>2. /\ t \in CallRefs(s0) /\ CallRefs(s0)' = CallRefs(s0) \ {t} /\ Creators(s0)' = Creators(s0)
        /\ \A s : s # s0 => CallRefs(s)' = CallRefs(s) /\ Creators(s)' = Creators(s)
    BY <1>0, <1>1, <1>3, <2>1, CallLoss, ZenonT(40)
  <2>3. /\ t \notin FdRefs(s0) /\ FdRefs(s0)' = FdRefs(s0) \cup {t}
        /\ \A s \in Block : s # s0 => FdRefs(s)' = FdRefs(s)
    BY <1>1, <2>1, FdGain, ZenonT(40)
  <2>4. CountInv'
    <3>1. /\ Cardinality(CallRefs(s0)') = Cardinality(CallRefs(s0)) - 1 /\ Cardinality(CallRefs(s0)) \in Nat
          /\ CallRefs(s0) # {}
      BY <2>2, RefsIn, CardRemove, Zenon
    <3>2. Cardinality(FdRefs(s0)') = Cardinality(FdRefs(s0)) + 1 /\ Cardinality(FdRefs(s0)) \in Nat
      BY <2>3, RefsIn, CardAdd, Zenon
    <3>3. Cardinality(CallRefs(s0)) # 0
      BY <3>1, RefsCount, Zenon
    <3>4. pc[t] # "clear" /\ pc'[t] # "clear"
      BY <1>1, <1>6, Zenon
    <3>5. Passed(s0)
      BY <2>2, <3>1, <3>2, <3>3 DEF Passed
    <3>6. \A s \in Block : s # s0 => Untouched(s)
      BY <2>2, <2>3, Zenon DEF Untouched
    <3> QED
      BY <1>1, <1>2, <3>4, <3>5, <3>6, PassCount, Zenon
  <2>5. SectorInv'
    <3>1. ASSUME NEW s \in Block, s # s0, Kept(s)' PROVE Kept(s)
      <4>1. ~Freeing(s)'
        BY <1>1, <1>6, OnlyFreeing, ZenonT(40)
      <4> QED
        BY <1>1, <2>2, <2>3, <3>1, <4>1, ZenonT(40) DEF Kept
    <3>2. Kept(s0)
      BY <2>2, Zenon DEF Kept
    <3> QED
      BY <1>1, <1>2, <1>3, <3>1, <3>2, SectorsQuiet, Zenon
  <2>6. LengthInv'
    BY <1>1, <1>2, <1>6, LengthKept, ZenonT(40)
  <2>7. CallInv'
    BY <1>1, <1>4, CallKept, Zenon
  <2> QED
    BY <2>4, <2>5, <2>6, <2>7, Zenon DEF Sound
<1> QED
  BY <1>5, <1>6, Zenon

LEMMA CloseInv ==
    ASSUME Serial, Counting, IInv, NEW t \in Thread, Close(t), lossy' = lossy
    PROVE  IInv'
<1> TypeInv
  BY Zenon DEF IInv
<1>types. TypeInv' /\ Others(t) /\ Went(t, "close", [NoLoc EXCEPT !.ino = fd[t]]) /\ fd[t] \in Block
  <2> DEFINE L == [NoLoc EXCEPT !.ino = fd[t]]
  <2>1. /\ pc[t] = "user" /\ Runs(t) /\ Goto(t, "close", L) /\ UNCHANGED <<mem, dsk>> /\ fd[t] # None
        /\ fd' = [fd EXCEPT ![t] = None] /\ pos' = [pos EXCEPT ![t] = 0]
    BY Zenon DEF Close, At
  <2>2. fd[t] \in Block /\ 0 \in 0..MaxBlk
    BY <2>1, LocFields, Constants
  <2>3. L \in LocType
    BY <2>2, NoLocType, Zenon DEF LocType
  <2>4. Fit("close", L, None, 0)
    BY <2>2, Zenon DEF Fit, WritingAt, NoLoc
  <2>5. DiskType' /\ DirType' /\ OpenTabType'
    BY <2>1, Zenon DEF TypeInv, DiskType, DirType, OpenTabType, mem, dsk
  <2> HIDE DEF NoLoc, L
  <2> QED
    BY <2>1, <2>2, <2>3, <2>4, <2>5, StepTypes, Labels, Zenon DEF L
<1>names. slot' = slot /\ pc'[t] # "put"
  <2>1. slot' = slot
    BY Zenon DEF Close, dsk
  <2> QED
    BY <1>types, <2>1, ZenonT(40) DEF Went
<1> SUFFICES ASSUME Sound PROVE Sound'
  BY <1>types, <1>names, OtherSteps, Zenon
<1>0. PICK s0 : s0 = fd[t]
  BY Zenon
<1>1. /\ Others(t) /\ pc[t] = "user" /\ s0 \in Block /\ UNCHANGED <<used, open, slot, inode>>
      /\ fd' = [fd EXCEPT ![t] = None] /\ pc'[t] = "close" /\ loc'[t].ino = s0 /\ loc'[t].next = "user"
  <2>1. /\ Others(t) /\ pc[t] = "user" /\ s0 \in Block /\ UNCHANGED <<used, open, slot, inode>>
        /\ fd' = [fd EXCEPT ![t] = None] /\ Went(t, "close", [NoLoc EXCEPT !.ino = s0])
    BY <1>0, <1>types, ZenonT(40) DEF Close, At, mem, dsk
  <2>2. [NoLoc EXCEPT !.ino = s0].ino = s0 /\ [NoLoc EXCEPT !.ino = s0].next = "user"
    BY Zenon DEF NoLoc
  <2> HIDE DEF NoLoc
  <2> QED
    BY <2>1, <2>2, Zenon DEF Went
<1>2. CountInv /\ SectorInv /\ LengthInv
  BY Zenon DEF Sound
<1>3. Bare(t)' = {} /\ ~InCall(t) /\ InCall(t)' /\ ~Creator(t)'
  BY <1>1, Zenon DEF Bare, InCall, Creator
<1>4. /\ t \notin CallRefs(s0) /\ CallRefs(s0)' = CallRefs(s0) \cup {t} /\ Creators(s0)' = Creators(s0)
      /\ \A s : s # s0 => CallRefs(s)' = CallRefs(s) /\ Creators(s)' = Creators(s)
  BY <1>1, <1>3, CallGain, ZenonT(40)
<1>5. /\ t \in FdRefs(s0) /\ FdRefs(s0)' = FdRefs(s0) \ {t}
      /\ \A s \in Block : s # s0 => FdRefs(s)' = FdRefs(s)
  BY <1>0, <1>1, FdLoss, ZenonT(40)
<1>6. CountInv'
  <2>1. /\ Cardinality(FdRefs(s0)') = Cardinality(FdRefs(s0)) - 1 /\ Cardinality(FdRefs(s0)) \in Nat
        /\ FdRefs(s0) # {}
    BY <1>5, RefsIn, CardRemove, Zenon
  <2>2. Cardinality(CallRefs(s0)') = Cardinality(CallRefs(s0)) + 1 /\ Cardinality(CallRefs(s0)) \in Nat
    BY <1>4, RefsIn, CardAdd, Zenon
  <2>3. Cardinality(FdRefs(s0)) # 0
    BY <2>1, RefsCount, Zenon
  <2>4. Passed(s0)
    BY <1>4, <2>1, <2>2, <2>3 DEF Passed
  <2>5. \A s \in Block : s # s0 => Untouched(s)
    BY <1>4, <1>5, Zenon DEF Untouched
  <2> QED
    BY <1>1, <1>2, <2>4, <2>5, PassCount, ZenonT(40)
<1>7. SectorInv'
  <2>1. ASSUME NEW s \in Block, s # s0, Kept(s)' PROVE Kept(s)
    <3>1. ~Freeing(s)'
      BY <1>1, OnlyFreeing, ZenonT(40)
    <3> QED
      BY <1>1, <1>4, <1>5, <2>1, <3>1, ZenonT(40) DEF Kept
  <2>2. Kept(s0)
    BY <1>5, Zenon DEF Kept
  <2> QED
    BY <1>1, <1>2, <1>3, <2>1, <2>2, SectorsQuiet, Zenon
<1>8. LengthInv'
  BY <1>1, <1>2, LengthKept, Zenon
<1>9. CallInv'
  <2>1. CallOK(t)'
    BY <1>1, ZenonT(40) DEF CallOK, Writing, WritingAt
  <2> QED
    BY <1>1, <2>1, CallKept, Zenon
<1> QED
  BY <1>6, <1>7, <1>8, <1>9, Zenon DEF Sound

(* The references that close finds.  Without a unit of open_cnt the call   *)
(* is a creator's, and its inode has no other reference; a removed inode   *)
(* with a count of 1 has none either.                                      *)
LEMMA CloseFinds ==
    ASSUME Counting, TypeInv, CountInv, NEW t \in Thread, NEW s0 \in Block, t \in CallRefs(s0), pc[t] = "close"
    PROVE  /\ Creator(t) <=> open[s0].cnt = 0
           /\ open[s0].cnt = 0 \/ (open[s0].cnt = 1 /\ open[s0].removed) =>
                 NameRefs(s0) = {} /\ FdRefs(s0) = {} /\ CallRefs(s0) = {t}
<1> DEFINE N == Cardinality(NameRefs(s0))
           F == Cardinality(FdRefs(s0))
           C == Cardinality(CallRefs(s0))
<1>1. CountOK(s0) /\ open[s0].cnt \in Nat
  BY Zenon DEF CountInv, TypeInv, OpenTabType, OpenType
<1>2. N \in Nat /\ F \in Nat /\ C \in Nat /\ (N = 0 <=> NameRefs(s0) = {}) /\ (F = 0 <=> FdRefs(s0) = {})
  BY RefsCount, Zenon
<1>3. C >= 1 /\ (C = 1 => CallRefs(s0) = {t})
  <2>1. C # 0
    BY RefsCount, Zenon
  <2>2. C = 1 => CallRefs(s0) = {t}
    BY RefsIn, CardinalityIs DEF Counting, CountRules
  <2> QED
    BY <1>2, <2>1, <2>2
<1>4. Spare1(s0) \in {0, 1} /\ (open[s0].removed => Spare1(s0) = 0)
      /\ (Spare1(s0) = 1 => NameRefs(s0) # {} \/ Creators(s0) # {})
  BY DEF Spare1
<1>5. N + F + C <= open[s0].cnt + Spare1(s0)
  BY <1>1, Zenon DEF CountOK, Counted
<1>6. t \in Creators(s0) <=> Creator(t)
  BY Zenon DEF Creators
<1> HIDE DEF N, F, C
<1>7. open[s0].cnt = 0 \/ (open[s0].cnt = 1 /\ open[s0].removed) => N = 0 /\ F = 0 /\ C = 1
  BY <1>1, <1>2, <1>3, <1>4, <1>5
<1>8. Creator(t) => open[s0].cnt = 0
  BY <1>1, <1>6, Zenon DEF CountOK
<1>9. ASSUME open[s0].cnt = 0 PROVE Creator(t)
  <2>1. N = 0 /\ F = 0 /\ C = 1
    BY <1>7, <1>9, Zenon
  <2>2. Spare1(s0) = 1
    BY <1>4, <1>5, <1>9, <2>1
  <2>3. Creators(s0) # {}
    BY <1>2, <1>4, <2>1, <2>2, Zenon
  <2>4. Creators(s0) \subseteq {t}
    BY <1>3, <2>1, Zenon DEF Creators
  <2> QED
    BY <1>6, <2>3, <2>4, Zenon
<1> QED
  BY <1>2, <1>3, <1>7, <1>8, <1>9, Zenon

(* t gives back the unit of open_cnt that it took.                         *)
LEMMA CloseCount ==
    ASSUME Counting, TypeInv, CountInv, NEW t \in Thread, Others(t), NEW s0 \in Block, pc[t] = "close", loc[t].ino = s0,
           ~InCall(t)', pc'[t] # "clear", UNCHANGED <<slot, fd>>,
           open' = IF open[s0].cnt = 1 THEN [open EXCEPT ![s0] = NotOpen]
                   ELSE IF open[s0].cnt > 1 THEN [open EXCEPT ![s0].cnt = @ - 1] ELSE open
    PROVE  CountInv'
<1>1. InCall(t)
  BY Zenon DEF InCall
<1>2. /\ t \in CallRefs(s0) /\ CallRefs(s0)' = CallRefs(s0) \ {t} /\ Creators(s0)' = Creators(s0) \ {t}
      /\ \A s : s # s0 => CallRefs(s)' = CallRefs(s) /\ Creators(s)' = Creators(s)
  BY <1>1, CallLoss, Zenon
<1>3. \A s : NameRefs(s)' = NameRefs(s) /\ FdRefs(s)' = FdRefs(s)
  BY NameRefsKept, FdRefsKept, Zenon
<1>4. \A s \in Block : s # s0 => SameOpen(s)
  BY Zenon DEF TypeInv, OpenTabType, OpenType, SameOpen
<1>5. ASSUME NEW s \in Block, s # s0 PROVE CountOK(s)'
  <2>1. CountOK(s) /\ SameOpen(s)
    BY <1>4, <1>5, Zenon DEF CountInv
  <2> QED
    BY <1>2, <1>3, <1>5, <2>1, CountSame, Zenon
<1>6. CountOK(s0) /\ open[s0].cnt \in Nat /\ open[s0].removed \in BOOLEAN
  BY Zenon DEF CountInv, TypeInv, OpenTabType, OpenType
<1>7. /\ Cardinality(CallRefs(s0)') = Cardinality(CallRefs(s0)) - 1
      /\ Cardinality(NameRefs(s0)') = Cardinality(NameRefs(s0)) /\ Cardinality(NameRefs(s0)) \in Nat
      /\ Cardinality(FdRefs(s0)') = Cardinality(FdRefs(s0)) /\ Cardinality(FdRefs(s0)) \in Nat
      /\ Cardinality(CallRefs(s0)) \in Nat
  BY <1>2, <1>3, RefsIn, RefsCount, CardRemove, ZenonT(40)
<1>8. Spare1(s0) \in {0, 1} /\ Spare1(s0)' \in {0, 1}
  BY Zenon DEF Spare1
<1>9. Cardinality(NameRefs(s0)) + Cardinality(FdRefs(s0)) + Cardinality(CallRefs(s0))
         <= open[s0].cnt + Spare1(s0)
  BY <1>6, Zenon DEF CountOK, Counted
<1>10. /\ open[s0].cnt = 0 => open'[s0].cnt = 0 /\ open'[s0].removed = open[s0].removed
       /\ open[s0].cnt = 1 => open'[s0].cnt = 0 /\ open'[s0].removed = FALSE
       /\ open[s0].cnt > 1 => open'[s0].cnt = open[s0].cnt - 1 /\ open'[s0].removed = open[s0].removed
  <2>1. open \in [Block -> OpenType]
    BY Zenon DEF TypeInv, OpenTabType
  <2>2. open[s0].cnt = 0 => open' = open
    BY <1>6
  <2>3. open[s0].cnt = 1 => open'[s0] = NotOpen
    BY <2>1, Zenon
  <2>4. open[s0].cnt > 1 => open'[s0] = [open[s0] EXCEPT !.cnt = open[s0].cnt - 1]
    BY <1>6, <2>1
  <2>5. [open[s0] EXCEPT !.cnt = open[s0].cnt - 1].cnt = open[s0].cnt - 1
    BY <2>1, Zenon DEF OpenType
  <2>6. [open[s0] EXCEPT !.cnt = open[s0].cnt - 1].removed = open[s0].removed
    BY <2>1, Zenon DEF OpenType
  <2>7. NotOpen.cnt = 0 /\ NotOpen.removed = FALSE
    BY Zenon DEF NotOpen
  <2> QED
    BY <2>2, <2>3, <2>4, <2>5, <2>6, <2>7, Zenon
<1>11. open[s0].cnt > 0 => Creators(s0) = {} /\ Creators(s0)' = {}
  BY <1>2, <1>6 DEF CountOK
<1>12. ASSUME open[s0].cnt = 0 PROVE CountOK(s0)'
  <2>1. Counted(s0)'
    BY <1>7, <1>8, <1>9, <1>10, <1>12 DEF Counted
  <2> QED
    BY <1>6, <1>10, <1>12, <2>1, Zenon DEF CountOK
<1>13. ASSUME open[s0].cnt = 1 PROVE CountOK(s0)'
  <2>1. Spare1(s0)' >= Spare1(s0)
    BY <1>3, <1>8, <1>10, <1>11, <1>13 DEF Spare1
  <2>2. Counted(s0)'
    BY <1>7, <1>8, <1>9, <1>10, <1>13, <2>1 DEF Counted
  <2> QED
    BY <1>10, <1>11, <1>13, <2>2, Zenon DEF CountOK
<1>14. ASSUME open[s0].cnt > 1 PROVE CountOK(s0)'
  <2>1. Spare1(s0)' = Spare1(s0)
    <3>1. NameRefs(s0)' = NameRefs(s0) /\ Creators(s0)' = Creators(s0) /\ open'[s0].removed = open[s0].removed
      <4>1. Creators(s0)' = Creators(s0)
        <5>1. open[s0].cnt > 0
          BY <1>6, <1>14
        <5> QED
          BY <1>11, <5>1, Zenon
      <4> QED
        BY <1>3, <1>10, <1>14, <4>1, Zenon
    <3> QED
      BY <3>1, Zenon DEF Spare1
  <2>2. Counted(s0)'
    BY <1>6, <1>7, <1>8, <1>9, <1>10, <1>14, <2>1 DEF Counted
  <2> QED
    BY <1>6, <1>10, <1>11, <1>14, <2>2 DEF CountOK
<1>15. CountOK(s0)'
  BY <1>6, <1>12, <1>13, <1>14
<1> QED
  BY <1>5, <1>15, Zenon DEF CountInv

LEMMA CloseInodeInv ==
    ASSUME Serial, Counting, IInv, NEW t \in Thread, CloseInode(t), lossy' = lossy
    PROVE  IInv'
<1> TypeInv
  BY Zenon DEF IInv
<1>types. /\ TypeInv' /\ Others(t) /\ loc[t].ino \in Block
          /\ IF open[loc[t].ino].cnt = 1 /\ open[loc[t].ino].removed
             THEN Went(t, "free", [loc[t] EXCEPT !.cp = [loc[t].cp EXCEPT !.len = open[loc[t].ino].len]])
             ELSE Went(t, loc[t].next, loc[t])
  <2> DEFINE s == loc[t].ino
             cp == [loc[t].cp EXCEPT !.len = open[s].len]
             L == [loc[t] EXCEPT !.cp = cp]
  <2>1. /\ pc[t] = "close" /\ Runs(t) /\ UNCHANGED <<saved, inode, slot, file>>
        /\ open' = IF open[s].cnt = 1 THEN [open EXCEPT ![s] = NotOpen]
                   ELSE IF open[s].cnt > 1 THEN [open EXCEPT ![s].cnt = @ - 1] ELSE open
        /\ IF open[s].cnt = 1 /\ open[s].removed
           THEN used' = used \ {s} /\ Goto(t, "free", L)
           ELSE Goto(t, loc[t].next, loc[t]) /\ used' = used
    BY Zenon DEF CloseInode, At, dsk
  <2>2. /\ s \in Block /\ loc[t].next \in {"user", "undo"} /\ loc[t].cp \in InodeType
        /\ Fit("undo", loc[t], fd[t], pos[t])
    BY <2>1, LocFields, Zenon DEF Fit, WritingAt, LocType
  <2>3. open[s].len \in 0..MaxBlk /\ open[s].cnt \in Nat
    BY <2>2, Zenon DEF TypeInv, OpenTabType, OpenType
  <2>4. cp \in InodeType
    BY <2>2, <2>3, Zenon DEF InodeType
  <2> HIDE DEF cp
  <2>5. L \in LocType /\ Fit("free", L, fd[t], pos[t])
    BY <2>1, <2>4, LocFields DEF LocType, Fit, WritingAt
  <2>6. OpenTabType'
    <3>1. NotOpen \in OpenType
      BY Constants DEF NotOpen, OpenType
    <3>2. open[s].cnt > 1 => [open[s] EXCEPT !.cnt = @ - 1] \in OpenType
      BY <2>2, <2>3 DEF TypeInv, OpenTabType, OpenType
    <3> QED
      BY <2>1, <2>2, <3>1, <3>2, Zenon DEF TypeInv, OpenTabType
  <2>7. DiskType' /\ DirType'
    BY <2>1, Zenon DEF TypeInv, DiskType, DirType
  <2> HIDE DEF NoLoc, L
  <2>8. CASE open[s].cnt = 1 /\ open[s].removed
    <3>1. TypeInv' /\ Others(t) /\ Went(t, "free", L)
      BY <2>1, <2>5, <2>6, <2>7, <2>8, CallStepTypes, Labels, Zenon
    <3> QED
      BY <2>2, <2>8, <3>1, Zenon DEF L, cp
  <2>9. CASE ~(open[s].cnt = 1 /\ open[s].removed)
    <3>1. TypeInv' /\ Others(t) /\ Went(t, loc[t].next, loc[t])
      BY <2>1, <2>2, <2>6, <2>7, <2>9, CallStepTypes, LocFields, Labels, Zenon
    <3> QED
      BY <2>2, <2>9, <3>1, Zenon
  <2> QED
    BY <2>8, <2>9, Zenon
<1>names. slot' = slot /\ pc'[t] # "put"
  <2>1. loc[t].next # "put"
    BY LocFields, Zenon DEF CloseInode, At, Fit
  <2>2. slot' = slot
    BY Zenon DEF CloseInode, dsk
  <2> QED
    BY <1>types, <2>1, <2>2, ZenonT(40) DEF Went
<1> SUFFICES ASSUME Sound PROVE Sound'
  BY <1>types, <1>names, OtherSteps, Zenon
<1>0. PICK s0 : s0 = loc[t].ino
  BY Zenon
<1> DEFINE last == open[s0].cnt = 1 /\ open[s0].removed
           L == [loc[t] EXCEPT !.cp = [loc[t].cp EXCEPT !.len = open[s0].len]]
<1>1. /\ Others(t) /\ pc[t] = "close" /\ s0 \in Block /\ UNCHANGED <<slot, inode, fd, pos>>
      /\ open' = IF open[s0].cnt = 1 THEN [open EXCEPT ![s0] = NotOpen]
                 ELSE IF open[s0].cnt > 1 THEN [open EXCEPT ![s0].cnt = @ - 1] ELSE open
      /\ used' = IF last THEN used \ {s0} ELSE used
      /\ IF last THEN Went(t, "free", L) ELSE Went(t, loc[t].next, loc[t])
  <2>1. /\ pc[t] = "close" /\ UNCHANGED <<slot, inode, fd, pos>>
        /\ open' = IF open[s0].cnt = 1 THEN [open EXCEPT ![s0] = NotOpen]
                   ELSE IF open[s0].cnt > 1 THEN [open EXCEPT ![s0].cnt = @ - 1] ELSE open
        /\ used' = IF last THEN used \ {s0} ELSE used
    BY <1>0, Zenon DEF CloseInode, At, dsk, file
  <2> QED
    BY <1>0, <2>1, <1>types, Zenon
<1>2. /\ last => pc'[t] = "free" /\ loc'[t].ino = s0 /\ loc'[t].next = loc[t].next
      /\ ~last => pc'[t] = loc[t].next /\ (pc'[t] = "undo" => loc'[t].ino = s0)
  <2>1. L.ino = s0 /\ L.next = loc[t].next
    BY <1>0, LocFields, Zenon DEF LocType
  <2> HIDE DEF L
  <2>2. CASE last
    BY <1>1, <2>1, <2>2, Zenon DEF Went
  <2>3. CASE ~last
    BY <1>0, <1>1, <2>3, Zenon DEF Went
  <2> QED
    BY <2>2, <2>3, Zenon
<1> HIDE DEF L
<1>3. loc[t].next \in {"user", "undo"}
  BY <1>1, LocFields, Zenon DEF Fit
<1>4. pc'[t] \in {"free", "user", "undo"} /\ ~InCall(t)' /\ InCall(t)
  BY <1>1, <1>2, <1>3, Zenon DEF InCall
<1>5. CountInv /\ SectorInv /\ LengthInv
  BY Zenon DEF Sound
<1>6. CountInv'
  BY <1>0, <1>1, <1>4, <1>5, CloseCount, Zenon
<1>7. /\ t \in CallRefs(s0) /\ CallRefs(s0)' = CallRefs(s0) \ {t}
      /\ \A s : s # s0 => CallRefs(s)' = CallRefs(s)
  BY <1>0, <1>1, <1>4, CallLoss, Zenon
<1>8. \A s : FdRefs(s)' = FdRefs(s)
  BY <1>1, FdRefsKept, Zenon
<1>9. /\ loc[t].next = "undo" <=> open[s0].cnt = 0
      /\ open[s0].cnt = 0 \/ last => NameRefs(s0) = {} /\ FdRefs(s0) = {} /\ CallRefs(s0) = {t}
  <2>1. Creator(t) <=> loc[t].next = "undo"
    BY <1>1, Zenon DEF Creator
  <2> QED
    BY <1>1, <1>5, <1>7, <2>1, CloseFinds, Zenon
<1>10. /\ \A s \in Block : s # s0 => open'[s] = open[s]
       /\ open'[s0].cnt > 0 => open[s0].cnt > 0 /\ open'[s0].len = open[s0].len
       /\ open[s0].cnt \in {0, 1} => open'[s0].cnt = 0
  BY <1>1 DEF TypeInv, OpenTabType, OpenType, NotOpen
<1>11. Kept(s0) /\ \A s \in Block : ~Freeing(s) /\ ~Zeroing(s)
  BY <1>1, <1>7, OnlyFreeing, Zenon DEF Kept
<1>12. ASSUME NEW s \in Block, Kept(s)' PROVE Kept(s) /\ Stays(s)
  <2>1. CASE s # s0
    <3>1. ~Freeing(s)'
      BY <1>1, <1>2, <1>3, <2>1, OnlyFreeing, Zenon
    <3>2. Kept(s)
      BY <1>1, <1>7, <1>8, <1>10, <1>12, <2>1, <3>1, Zenon DEF Kept
    <3> QED
      BY <1>1, <1>11, <3>2, Zenon DEF Stays
  <2> QED
    BY <1>1, <1>11, <2>1, Zenon DEF Stays
<1>13. NameRefs(s0) = {} => ~\E i \in Slot : slot[i].ino = s0
  BY <1>1, NamedInode, Zenon
<1>14. SectorInv'
  <2>1. CASE last
    <3>1. Freeing(s0)' /\ Bare(t)' = {}
      BY <1>1, <1>2, <2>1, OnlyFreeing, Zenon DEF Bare
    <3>2. Released(s0)
      <4>1. s0 \in Owned(s0)
        BY Zenon DEF Owned
      <4> QED
        BY <1>1, <1>5, <1>11, <1>12, <3>1, <4>1, Zenon DEF Released, SectorInv, Disjoint
    <3>3. BareOK'
      BY <1>1, <3>1, BareOthers, Zenon DEF BareOK
    <3> QED
      BY <1>1, <1>5, <1>12, <2>1, <3>2, <3>3, SectorKept, Zenon
  <2>2. CASE ~last /\ loc[t].next = "user"
    <3>1. Bare(t)' = {} /\ used' = used
      BY <1>1, <1>2, <2>2, Zenon DEF Bare
    <3> QED
      BY <1>1, <1>5, <1>12, <3>1, SectorsQuiet, Zenon
  <2>3. CASE ~last /\ loc[t].next = "undo"
    <3>1. pc'[t] = "undo" /\ loc'[t].ino = s0 /\ used' = used /\ open'[s0].cnt = 0
      BY <1>1, <1>2, <1>9, <1>10, <2>3, Zenon
    <3>2. Bare(t)' = {s0}
      BY <1>1, <3>1, Zenon DEF Bare
    <3>3. ~Kept(s0)'
      <4>1. ~Freeing(s0)' /\ FdRefs(s0)' = {} /\ CallRefs(s0)' = {} /\ ~\E i \in Slot : slot[i].ino = s0
        BY <1>1, <1>7, <1>8, <1>9, <1>13, <2>3, <3>1, OnlyFreeing
      <4> QED
        BY <1>1, <3>1, <4>1 DEF Kept
    <3>4. s0 \in used
      BY <1>1, <1>5, <1>11, Zenon DEF SectorInv, KeptOK
    <3>5. ASSUME NEW s \in Block, Kept(s)' PROVE s0 \notin Owned(s)'
      <4>1. Kept(s) /\ s # s0 /\ Owned(s)' = Owned(s)
        BY <1>12, <3>3, <3>5, OwnedSame, Zenon DEF Stays
      <4>2. s0 \in Owned(s0)
        BY Zenon DEF Owned
      <4> QED
        BY <1>1, <1>5, <1>11, <4>1, <4>2, Zenon DEF SectorInv, Disjoint
    <3>6. BareOK'
      BY <1>1, <3>1, <3>2, <3>4, <3>5, BareOthers, Zenon DEF BareOK
    <3> QED
      BY <1>5, <1>12, <3>1, <3>6, SectorKept, ZenonT(40)
  <2> QED
    BY <1>3, <2>1, <2>2, <2>3, Zenon
<1>15. LengthInv'
  BY <1>1, <1>4, <1>5, <1>10, LengthKept, Zenon
<1>16. CallInv'
  <2>1. CASE last
    <3>1. pc'[t] = "free" /\ loc'[t].ino = s0 /\ loc'[t].next = "user" /\ open'[s0].cnt = 0
      BY <1>1, <1>2, <1>3, <1>9, <1>10, <2>1
    <3>2. ~(\E i \in Slot : slot[i].ino = s0) /\ FdRefs(s0)' = {} /\ CallRefs(s0)' = {}
      BY <1>7, <1>8, <1>9, <1>13, <2>1, Zenon
    <3>3. FdRefs(loc[t].ino)' = {} /\ CallRefs(loc[t].ino)' = {}
      BY <3>1, <3>2, ZenonT(40) DEF FdRefs, CallRefs
    <3>4. CallOK(t)'
      BY <1>1, <3>1, <3>2, <3>3, Zenon DEF CallOK, Writing, WritingAt
    <3> QED
      BY <1>1, <3>4, CallKept, Zenon
  <2>2. CASE ~last
    <3>1. CallOK(t)'
      BY <1>2, <1>3, <2>2, ZenonT(40) DEF CallOK, Writing, WritingAt
    <3> QED
      BY <1>1, <3>1, CallKept, Zenon
  <2> QED
    BY <2>1, <2>2, Zenon
<1> QED
  BY <1>6, <1>14, <1>15, <1>16, Zenon DEF Sound

(* The names of an inode when unlink starts on entry i, when it clears the *)
(* entry, and when a new entry is written.                                 *)
LEMMA UnlinkRefs ==
    ASSUME NEW t \in Thread, Others(t), pc[t] = "user", pc'[t] = "clear", slot' = slot,
           NEW i \in Slot, loc'[t].slot = i, NEW s0, slot[i].ino = s0
    PROVE  /\ i \in NameRefs(s0) /\ NameRefs(s0)' = NameRefs(s0) \ {i}
           /\ \A s : s # s0 => NameRefs(s)' = NameRefs(s)
<1>1. \A j : ~Clearing(j) /\ (Clearing(j)' <=> j = i)
  BY Zenon DEF Others, Clearing
<1> QED
  BY <1>1 DEF NameRefs

LEMMA ClearRefs ==
    ASSUME NEW t \in Thread, Others(t), pc[t] = "clear", pc'[t] = "user", NEW i \in Slot, loc[t].slot = i,
           DirType, slot' = [slot EXCEPT ![i] = Unused]
    PROVE  \A s \in Block : NameRefs(s)' = NameRefs(s)
<1>1. \A j : ~Clearing(j)' /\ (Clearing(j) <=> j = i)
  BY Zenon DEF Others, Clearing
<1>2. Unused.ino \notin Block
  BY Constants, Zenon DEF Unused
<1>3. slot'[i] = Unused /\ \A j \in Slot : j # i => slot'[j] = slot[j]
  BY Zenon DEF DirType
<1> QED
  BY <1>1, <1>2, <1>3 DEF NameRefs

LEMMA PutRefs ==
    ASSUME NEW t \in Thread, Others(t), pc[t] = "put", pc'[t] # "clear", NEW i \in Slot,
           DirType, slot[i] = Unused, NEW n, NEW s0 \in Block,
           slot' = [slot EXCEPT ![i] = [name |-> n, ino |-> s0]]
    PROVE  /\ i \notin NameRefs(s0) /\ NameRefs(s0)' = NameRefs(s0) \cup {i}
           /\ \A s \in Block : s # s0 => NameRefs(s)' = NameRefs(s)
<1>1. \A j : ~Clearing(j) /\ ~Clearing(j)'
  BY ZenonT(40) DEF Others, Clearing
<1>2. Unused.ino \notin Block
  BY Constants, ZenonT(40) DEF Unused
<1>3. slot'[i].ino = s0 /\ \A j \in Slot : j # i => slot'[j] = slot[j]
  BY Zenon DEF DirType
<1> QED
  BY <1>1, <1>2, <1>3, ZenonT(40) DEF NameRefs

(* unlink takes a name from s0; the inode is marked removed if it is open. *)
LEMMA UnlinkCount ==
    ASSUME Counting, TypeInv, CountInv, NEW t \in Thread, Others(t), pc[t] = "user", pc'[t] = "clear",
           UNCHANGED <<slot, fd>>, NEW i \in Slot, loc'[t].slot = i, NEW s0 \in Block, slot[i].ino = s0,
           open' = IF open[s0].cnt > 0 THEN [open EXCEPT ![s0].removed = TRUE] ELSE open
    PROVE  CountInv'
<1>1. /\ i \in NameRefs(s0) /\ NameRefs(s0)' = NameRefs(s0) \ {i}
      /\ \A s : s # s0 => NameRefs(s)' = NameRefs(s)
  BY UnlinkRefs, ZenonT(40)
<1>2. \A s : FdRefs(s)' = FdRefs(s) /\ CallRefs(s)' = CallRefs(s) /\ Creators(s)' = Creators(s)
  BY FdRefsKept, CallRefsKept, Zenon DEF StaysIn, InCall
<1>3. \A s \in Block : s # s0 => SameOpen(s)
  BY Zenon DEF TypeInv, OpenTabType, OpenType, SameOpen
<1>4. ASSUME NEW s \in Block, s # s0 PROVE CountOK(s)'
  <2>1. CountOK(s) /\ SameOpen(s)
    BY <1>3, <1>4, Zenon DEF CountInv
  <2> QED
    BY <1>1, <1>2, <1>4, <2>1, CountSame, Zenon
<1>5. CountOK(s0) /\ open[s0].cnt \in Nat
  BY Zenon DEF CountInv, TypeInv, OpenTabType, OpenType
<1>6. open'[s0].cnt = open[s0].cnt /\ (open[s0].cnt = 0 => open'[s0].removed = open[s0].removed)
  <2>1. open \in [Block -> OpenType]
    BY Zenon DEF TypeInv, OpenTabType
  <2>2. open'[s0].cnt = open[s0].cnt
    BY <2>1, Zenon DEF OpenType
  <2>3. open[s0].cnt = 0 => open' = open
    BY <1>5
  <2> QED
    BY <2>2, <2>3, Zenon
<1>7. /\ Cardinality(NameRefs(s0)') = Cardinality(NameRefs(s0)) - 1
      /\ Cardinality(CallRefs(s0)') = Cardinality(CallRefs(s0)) /\ Cardinality(CallRefs(s0)) \in Nat
      /\ Cardinality(FdRefs(s0)') = Cardinality(FdRefs(s0)) /\ Cardinality(FdRefs(s0)) \in Nat
      /\ Cardinality(NameRefs(s0)) \in Nat
  BY <1>1, <1>2, RefsIn, RefsCount, CardRemove
<1>8. Spare1(s0) \in {0, 1} /\ Spare1(s0)' \in {0, 1}
  BY Zenon DEF Spare1
<1>9. Cardinality(NameRefs(s0)) + Cardinality(FdRefs(s0)) + Cardinality(CallRefs(s0))
         <= open[s0].cnt + Spare1(s0)
  BY <1>5, Zenon DEF CountOK, Counted
<1>10. Counted(s0)'
  BY <1>5, <1>6, <1>7, <1>8, <1>9 DEF Counted
<1>11. Creators(s0)' = {}
  BY <1>1, <1>2, NamedNotCreated, Zenon
<1>12. open'[s0].cnt = 0 => ~open'[s0].removed
  BY <1>5, <1>6, Zenon DEF CountOK
<1>13. CountOK(s0)'
  BY <1>10, <1>11, <1>12, Zenon DEF CountOK
<1> QED
  BY <1>4, <1>13, Zenon DEF CountInv

(* Dir::add gives s0 a name for the unit of open_cnt that the call had.    *)
LEMMA PutCount ==
    ASSUME Counting, TypeInv, CountInv, NEW t \in Thread, Others(t), pc[t] = "put", NEW s0 \in Block, loc[t].ino = s0,
           ~InCall(t)', pc'[t] # "clear", UNCHANGED <<open, fd>>, NEW i \in Slot, slot[i] = Unused, NEW n,
           slot' = [slot EXCEPT ![i] = [name |-> n, ino |-> s0]]
    PROVE  CountInv'
<1>1. InCall(t)
  BY ZenonT(40) DEF InCall
<1>2. /\ t \in CallRefs(s0) /\ CallRefs(s0)' = CallRefs(s0) \ {t} /\ Creators(s0)' = Creators(s0) \ {t}
      /\ \A s : s # s0 => CallRefs(s)' = CallRefs(s) /\ Creators(s)' = Creators(s)
  BY <1>1, CallLoss, ZenonT(40)
<1>3. /\ i \notin NameRefs(s0) /\ NameRefs(s0)' = NameRefs(s0) \cup {i}
      /\ \A s \in Block : s # s0 => NameRefs(s)' = NameRefs(s)
  BY PutRefs, ZenonT(40) DEF TypeInv
<1>4. \A s : FdRefs(s)' = FdRefs(s)
  BY FdRefsKept, Zenon
<1>5. ASSUME NEW s \in Block, s # s0 PROVE CountOK(s)'
  <2>1. CountOK(s) /\ SameOpen(s)
    BY ZenonT(40) DEF CountInv, SameOpen
  <2> QED
    BY <1>2, <1>3, <1>4, <1>5, <2>1, CountSame, ZenonT(40)
<1>6. CountOK(s0) /\ open[s0].cnt \in Nat
  BY Zenon DEF CountInv, TypeInv, OpenTabType, OpenType
<1>7. /\ Cardinality(NameRefs(s0)') = Cardinality(NameRefs(s0)) + 1
      /\ Cardinality(CallRefs(s0)') = Cardinality(CallRefs(s0)) - 1 /\ Cardinality(CallRefs(s0)) \in Nat
      /\ Cardinality(FdRefs(s0)') = Cardinality(FdRefs(s0)) /\ Cardinality(FdRefs(s0)) \in Nat
      /\ Cardinality(NameRefs(s0)) \in Nat
  BY <1>2, <1>3, <1>4, RefsIn, RefsCount, CardRemove, CardAdd, ZenonT(40)
<1>8. Spare1(s0) \in {0, 1} /\ Spare1(s0)' \in {0, 1} /\ Spare1(s0)' >= Spare1(s0)
  <2>1. NameRefs(s0)' # {}
    BY <1>3, ZenonT(40)
  <2> QED
    BY <2>1, SMTT(20) DEF Spare1
<1>9. Cardinality(NameRefs(s0)) + Cardinality(FdRefs(s0)) + Cardinality(CallRefs(s0))
         <= open[s0].cnt + Spare1(s0)
  BY <1>6, ZenonT(40) DEF CountOK, Counted
<1>10. Counted(s0)'
  BY <1>6, <1>7, <1>8, <1>9, SMTT(20) DEF Counted
<1>11. CountOK(s0)'
  BY <1>2, <1>6, <1>10, ZenonT(40) DEF CountOK
<1> QED
  BY <1>5, <1>11, ZenonT(40) DEF CountInv

LEMMA UnlinkInv ==
    ASSUME Serial, Counting, IInv, NEW t \in Thread, NEW n \in Name, Unlink(t, n), lossy' = lossy
    PROVE  IInv'
<1> TypeInv
  BY Zenon DEF IInv
<1>types. /\ TypeInv' /\ Others(t) /\ UNCHANGED <<used, dsk, file>> /\ pc[t] = "user"
          /\ \E i \in Lookup(n) :
                /\ slot[i].ino \in Block /\ Went(t, "clear", [NoLoc EXCEPT !.slot = i])
                /\ open' = IF open[slot[i].ino].cnt > 0
                           THEN [open EXCEPT ![slot[i].ino].removed = TRUE] ELSE open
  <2> DEFINE L(i) == [NoLoc EXCEPT !.slot = i]
  <2>1. pc[t] = "user" /\ Runs(t) /\ UNCHANGED <<used, dsk, file>>
    BY Zenon DEF Unlink, At
  <2>2. PICK i \in First(Lookup(n)) :
           /\ open' = IF open[slot[i].ino].cnt > 0 THEN [open EXCEPT ![slot[i].ino].removed = TRUE] ELSE open
           /\ Goto(t, "clear", L(i))
    BY Zenon DEF Unlink
  <2>3. i \in Lookup(n) /\ i \in Slot /\ slot[i].name = n
    BY Zenon DEF First, Lookup
  <2>4. slot[i].ino \in Block
    BY <2>3, Constants DEF TypeInv, DirType, SlotType, Unused
  <2>5. L(i) \in LocType /\ Fit("clear", L(i), fd[t], pos[t])
    BY <2>3, NoLocType, Zenon DEF LocType, Fit, WritingAt, NoLoc
  <2>6. DiskType' /\ DirType' /\ OpenTabType'
    <3>1. OpenTabType'
      BY <2>2, <2>4, Zenon DEF TypeInv, OpenTabType, OpenType
    <3> QED
      BY <2>1, <3>1, Zenon DEF TypeInv, DiskType, DirType, dsk
  <2> HIDE DEF NoLoc, L
  <2>7. TypeInv' /\ Others(t) /\ Went(t, "clear", L(i))
    BY <2>1, <2>2, <2>5, <2>6, CallStepTypes, Labels, Zenon
  <2> QED
    BY <2>1, <2>2, <2>3, <2>4, <2>7, Zenon DEF L
<1>names. slot' = slot /\ pc'[t] # "put"
  <2>1. slot' = slot
    BY <1>types, Zenon DEF dsk
  <2> QED
    BY <1>types, <2>1, ZenonT(40) DEF Went
<1> SUFFICES ASSUME Sound PROVE Sound'
  BY <1>types, <1>names, OtherSteps, Zenon
<1>1. Others(t) /\ UNCHANGED <<used, inode, slot, fd, pos>> /\ pc[t] = "user"
  BY <1>types, Zenon DEF dsk, file
<1>2. PICK i \in Lookup(n) :
         /\ slot[i].ino \in Block /\ Went(t, "clear", [NoLoc EXCEPT !.slot = i])
         /\ open' = IF open[slot[i].ino].cnt > 0
                    THEN [open EXCEPT ![slot[i].ino].removed = TRUE] ELSE open
  BY <1>types, Zenon
<1>3. PICK s0 : s0 = slot[i].ino
  BY Zenon
<1>4. i \in Slot /\ s0 \in Block
  BY <1>2, <1>3, Zenon DEF Lookup
<1>5. pc'[t] = "clear" /\ loc'[t].slot = i
  BY <1>2, Zenon DEF Went, NoLoc
<1>6. CountInv /\ SectorInv /\ LengthInv
  BY Zenon DEF Sound
<1>7. CountInv'
  BY <1>1, <1>2, <1>3, <1>4, <1>5, <1>6, UnlinkCount, Zenon
<1>8. \A s : FdRefs(s)' = FdRefs(s) /\ CallRefs(s)' = CallRefs(s)
  BY <1>1, <1>5, FdRefsKept, CallRefsKept, Zenon DEF StaysIn, InCall
<1>9. \A s \in Block : open'[s].cnt = open[s].cnt /\ open'[s].len = open[s].len
  BY <1>2, Zenon DEF TypeInv, OpenTabType, OpenType
<1>10. \A s \in Block : Kept(s)' => Kept(s)
  <2>1. \A s \in Block : ~Freeing(s)'
    BY <1>1, <1>5, OnlyFreeing, Zenon
  <2> QED
    BY <1>1, <1>8, <1>9, <2>1, Zenon DEF Kept
<1>11. Bare(t)' = {}
  BY <1>5, ZenonT(40) DEF Bare
<1>12. SectorInv'
  BY <1>1, <1>6, <1>10, <1>11, SectorsQuiet, Zenon
<1>13. LengthInv'
  BY <1>1, <1>5, <1>6, <1>9, LengthKept, Zenon
<1>14. CallInv'
  <2>1. CallOK(t)'
    BY <1>5, Zenon DEF CallOK, Writing, WritingAt
  <2> QED
    BY <1>1, <2>1, CallKept, Zenon
<1> QED
  BY <1>7, <1>12, <1>13, <1>14, Zenon DEF Sound

LEMMA ClearInv ==
    ASSUME Serial, IInv, NEW t \in Thread, Clear(t), lossy' = lossy
    PROVE  IInv'
<1> TypeInv /\ NamesInv
  BY Zenon DEF IInv
<1>types. TypeInv' /\ Others(t) /\ Went(t, "user", NoLoc)
  <2>1. /\ pc[t] = "clear" /\ Runs(t) /\ Goto(t, "user", NoLoc) /\ UNCHANGED <<used, open, saved, inode, file>>
        /\ slot' = [slot EXCEPT ![loc[t].slot] = Unused]
    BY Zenon DEF Clear, At, mem
  <2>3. DiskType' /\ DirType' /\ OpenTabType'
    BY <2>1, Zenon DEF TypeInv, DiskType, DirType, SlotType, OpenTabType
  <2> HIDE DEF NoLoc
  <2> QED
    BY <2>1, <2>3, CallStepTypes, NoLocType, Labels, Zenon
<1>names. NamesInv'
  <2>0. PICK i : i = loc[t].slot
    BY Zenon
  <2>1. Others(t) /\ pc[t] = "clear" /\ slot' = [slot EXCEPT ![i] = Unused]
    BY <2>0, <1>types, ZenonT(40) DEF Clear, At
  <2>2. \A u \in Thread : pc'[u] # "put"
    BY <2>1, <1>types, Zenon DEF Others, Went
  <2>3. i \in Slot
    BY <2>0, <2>1, LocFields, ZenonT(40) DEF Fit
  <2>4. slot'[i].name = None /\ \A j \in Slot : j # i => slot'[j] = slot[j]
    BY <2>1, <2>3, Zenon DEF TypeInv, DirType, Unused
  <2> QED
    BY <2>2, <2>4 DEF NamesInv
<1> SUFFICES ASSUME Sound PROVE Sound'
  BY <1>types, <1>names, Zenon DEF IInv
<1>0. PICK i : i = loc[t].slot
  BY Zenon
<1>1. Others(t) /\ UNCHANGED <<used, inode, open, fd, pos>> /\ pc[t] = "clear"
      /\ slot' = [slot EXCEPT ![i] = Unused]
  BY <1>0, <1>types, ZenonT(40) DEF Clear, At, mem, file
<1>2. pc'[t] = "user" /\ i \in Slot
  BY <1>0, <1>1, <1>types, LocFields, ZenonT(40) DEF Went, Fit
<1>3. CountInv /\ SectorInv /\ LengthInv /\ DirType
  BY Zenon DEF Sound, TypeInv
<1>4. \A s : FdRefs(s)' = FdRefs(s) /\ CallRefs(s)' = CallRefs(s) /\ Creators(s)' = Creators(s)
  BY <1>1, <1>2, FdRefsKept, CallRefsKept, ZenonT(40) DEF StaysIn, InCall
<1>5. \A s \in Block : NameRefs(s)' = NameRefs(s)
  BY <1>0, <1>1, <1>2, <1>3, ClearRefs, Zenon
<1>6. CountInv'
  <2> SUFFICES ASSUME NEW s \in Block PROVE CountOK(s)'
    BY Zenon DEF CountInv
  <2>1. CountOK(s) /\ SameOpen(s)
    BY <1>1, <1>3, Zenon DEF CountInv, SameOpen
  <2> QED
    BY <1>4, <1>5, <2>1, CountSame, Zenon
<1>7. \A s \in Block : Kept(s)' => Kept(s)
  <2>1. \A s \in Block : ~Freeing(s)'
    BY <1>1, <1>2, OnlyFreeing, ZenonT(40)
  <2>2. slot'[i].ino \notin Block /\ \A j \in Slot : j # i => slot'[j] = slot[j]
    BY <1>1, <1>2, <1>3, Constants, Zenon DEF DirType, Unused
  <2> QED
    BY <1>1, <1>4, <2>1, <2>2, ZenonT(40) DEF Kept
<1>8. Bare(t)' = {}
  BY <1>2, Zenon DEF Bare
<1>9. SectorInv'
  BY <1>1, <1>3, <1>7, <1>8, SectorsQuiet, Zenon
<1>10. LengthInv'
  BY <1>1, <1>2, <1>3, LengthKept, Zenon
<1>11. CallInv'
  <2>1. CallOK(t)'
    BY <1>2, Zenon DEF CallOK, Writing, WritingAt
  <2> QED
    BY <1>1, <2>1, CallKept, Zenon
<1> QED
  BY <1>6, <1>9, <1>10, <1>11, Zenon DEF Sound

LEMMA PutInv ==
    ASSUME Serial, Counting, IInv, NEW t \in Thread, Put(t), lossy' = lossy
    PROVE  IInv'
<1> TypeInv /\ NamesInv
  BY Zenon DEF IInv
<1>types. TypeInv' /\ Others(t) /\ Went(t, IF loc[t].op = "open" THEN "look" ELSE "user", loc[t])
  <2> DEFINE l == IF loc[t].op = "open" THEN "look" ELSE "user"
  <2>1. /\ pc[t] = "put" /\ Runs(t) /\ Goto(t, l, loc[t]) /\ UNCHANGED <<used, open, saved, inode, file>>
        /\ slot' = [slot EXCEPT ![loc[t].slot] = [name |-> loc[t].to, ino |-> loc[t].ino]]
    BY Zenon DEF Put, At, mem
  <2>2. /\ loc[t].ino \in Block /\ loc[t].to \in Name /\ loc[t].slot \in Slot
        /\ l \in PCs /\ (l # "user" => Fit(l, loc[t], fd[t], pos[t]))
    BY <2>1, LocFields, Labels, ZenonT(40) DEF Fit, WritingAt
  <2>3. DiskType' /\ DirType' /\ OpenTabType'
    BY <2>1, <2>2, Zenon DEF TypeInv, DiskType, DirType, SlotType, OpenTabType
  <2> HIDE DEF NoLoc, l
  <2>4. TypeInv' /\ Others(t) /\ Went(t, l, loc[t])
    BY <2>1, <2>2, <2>3, CallStepTypes, LocFields, Zenon
  <2> QED
    BY <2>4, Zenon DEF l
<1>names. NamesInv'
  <2>0. PICK i, s0, n : i = loc[t].slot /\ s0 = loc[t].ino /\ n = loc[t].to
    BY Zenon
  <2>1. Others(t) /\ pc[t] = "put" /\ slot' = [slot EXCEPT ![i] = [name |-> n, ino |-> s0]]
    BY <2>0, <1>types, ZenonT(40) DEF Put, At
  <2>2. \A u \in Thread : pc'[u] # "put"
    BY <2>1, <1>types, ZenonT(40) DEF Others, Went
  <2>3. i \in Slot /\ \A j \in Slot : slot[j].name # n
    BY <2>0, <2>1, LocFields, ZenonT(40) DEF Fit, NamesInv
  <2>4. slot'[i].name = n /\ \A j \in Slot : j # i => slot'[j] = slot[j]
    BY <2>1, <2>3, Zenon DEF TypeInv, DirType
  <2> QED
    BY <2>2, <2>3, <2>4 DEF NamesInv
<1> SUFFICES ASSUME Sound PROVE Sound'
  BY <1>types, <1>names, Zenon DEF IInv
<1>0. PICK i, s0, n : i = loc[t].slot /\ s0 = loc[t].ino /\ n = loc[t].to
  BY Zenon
<1>1. Others(t) /\ UNCHANGED <<used, inode, open, fd, pos>> /\ pc[t] = "put"
      /\ slot' = [slot EXCEPT ![i] = [name |-> n, ino |-> s0]]
  BY <1>0, <1>types, ZenonT(40) DEF Put, At, mem, file
<1>2. pc'[t] \in {"look", "user"}
  BY <1>types, Zenon DEF Went
<1>3. CountInv /\ SectorInv /\ LengthInv /\ DirType
  BY Zenon DEF Sound, TypeInv
<1>4. i \in Slot /\ s0 \in Block /\ slot[i] = Unused
  BY <1>0, <1>1, LocFields, ZenonT(40) DEF Fit, NamesInv
<1>5. InCall(t) /\ ~InCall(t)'
  BY <1>1, <1>2, ZenonT(40) DEF InCall
<1>6. CountInv'
  BY <1>0, <1>1, <1>2, <1>3, <1>4, <1>5, PutCount, ZenonT(40)
<1>7. /\ t \in CallRefs(s0) /\ CallRefs(s0)' = CallRefs(s0) \ {t}
      /\ \A s : s # s0 => CallRefs(s)' = CallRefs(s)
  BY <1>0, <1>1, <1>5, CallLoss, ZenonT(40)
<1>8. \A s : FdRefs(s)' = FdRefs(s)
  BY <1>1, FdRefsKept, Zenon
<1>9. \A s \in Block : Kept(s)' => Kept(s)
  <2>1. \A s \in Block : ~Freeing(s)'
    BY <1>1, <1>2, OnlyFreeing, ZenonT(40)
  <2>2. slot'[i].ino = s0 /\ \A j \in Slot : j # i => slot'[j] = slot[j]
    BY <1>1, <1>3, <1>4, Zenon DEF DirType
  <2>3. Kept(s0)
    BY <1>7, Zenon DEF Kept
  <2> SUFFICES ASSUME NEW s \in Block, s # s0, Kept(s)' PROVE Kept(s)
    BY <2>3, Zenon
  <2> QED
    BY <1>1, <1>7, <1>8, <2>1, <2>2, ZenonT(40) DEF Kept
<1>10. Bare(t)' = {}
  BY <1>2, Zenon DEF Bare
<1>11. SectorInv'
  BY <1>1, <1>3, <1>9, <1>10, SectorsQuiet, Zenon
<1>12. LengthInv'
  BY <1>1, <1>2, <1>3, LengthKept, Zenon
<1>13. CallInv'
  <2>1. CallOK(t)'
    BY <1>2, Zenon DEF CallOK, Writing, WritingAt
  <2> QED
    BY <1>1, <2>1, CallKept, Zenon
<1> QED
  BY <1>6, <1>11, <1>12, <1>13, Zenon DEF Sound

-----------------------------------------------------------------------------
(* Names                                                                   *)

-----------------------------------------------------------------------------
(* The invariant                                                           *)

(* Every step of a call preserves the invariant.                           *)
LEMMA CallStepInv ==
    ASSUME Serial, Counting, IInv, NEW t \in Thread, ThreadStep(t), lossy' = lossy
    PROVE  IInv'
<1>1. ASSUME NEW n \in Name, NEW f \in Flags, Open(t, n, f[1], f[2]) PROVE IInv'
  BY <1>1, OpenFlags, OpenInv, Zenon
<1> QED
  BY <1>1, MarkInv, UndoInv, CreateInv, MkdirBlockInv, MkdirInodeInv, LookInv,
     OpenInodeInv, InsertInv, OpenedInv, TruncateInv, TruncateInodeInv, WriteInv,
     ExtendInv, WriteInodeInv, WriteLengthInv, CloseInv, CloseInodeInv, CloseDataInv,
     UnlinkInv, MkdirInv, LinkInv, AddInv, PutInv, ClearInv, Zenon DEF ThreadStep

(* After a stop everyone is outside, and the entries are as they were.     *)
LEMMA RebootNames ==
    ASSUME NamesInv, NEW map, Reboot(map)
    PROVE  NamesInv' /\ \A t \in Thread : pc'[t] = "user"
<1>1. \A t \in Thread : pc'[t] = "user"
  BY Zenon DEF Reboot
<1>2. slot' = slot
  BY Zenon DEF Reboot
<1> QED
  BY <1>1, <1>2, ZenonT(40) DEF NamesInv

(* A shutdown without a second name keeps what the counts stand for: the   *)
(* only references left are names, one for each file.                      *)
LEMMA ShutdownSound ==
    ASSUME Counting, TypeInv, NamesInv, Sound, Reboot(used), ~TwoNames, \A t \in Thread : pc[t] = "user"
    PROVE  Sound'
<1>1. \A t \in Thread : pc'[t] = "user" /\ fd'[t] = None
  BY Zenon DEF Reboot
<1>2. used' = used /\ slot' = slot /\ inode' = inode /\ \A s \in Block : open'[s] = NotOpen
  BY Zenon DEF Reboot
<1>3. \A s \in Block : FdRefs(s)' = {} /\ CallRefs(s)' = {} /\ Creators(s)' = {}
  BY <1>1, Constants, Zenon DEF FdRefs, CallRefs, Creators, InCall
<1>4. CountInv'
  <2> SUFFICES ASSUME NEW s \in Block PROVE CountOK(s)'
    BY Zenon DEF CountInv
  <2>1. open'[s].cnt = 0 /\ ~open'[s].removed
    BY <1>2 DEF NotOpen
  <2>2. \A i, j \in NameRefs(s)' : i = j
    <3> SUFFICES ASSUME NEW i \in NameRefs(s)', NEW j \in NameRefs(s)' PROVE i = j
      BY Zenon
    <3>1. i \in Slot /\ j \in Slot /\ slot[i].ino = s /\ slot[j].ino = s
      BY <1>2, Zenon DEF NameRefs
    <3>2. slot[i] # Unused
      BY <3>1, Constants DEF Unused
    <3> QED
      BY <3>1, <3>2, Zenon DEF TwoNames
  <2>3. Cardinality(NameRefs(s)') <= Spare1(s)' /\ Cardinality(NameRefs(s)') \in Nat /\ Spare1(s)' \in {0, 1}
    <3>1. CASE NameRefs(s)' = {}
      BY <3>1, CardFew DEF Spare1
    <3>2. CASE NameRefs(s)' # {}
      <4>1. PICK i : i \in NameRefs(s)'
        BY <3>2, Zenon
      <4>2. NameRefs(s)' = {i}
        BY <2>2, <4>1, Zenon
      <4>3. Cardinality(NameRefs(s)') = 1
        <5>1. i \in Slot \cup Thread
          BY <4>1 DEF NameRefs
        <5> QED
          BY <4>2, <5>1, CardFew, Zenon
      <4>4. Spare1(s)' = 1
        BY <2>1, <3>2, Zenon DEF Spare1
      <4> QED
        BY <4>3, <4>4
    <3> QED
      BY <3>1, <3>2, Zenon
  <2>4. Cardinality(FdRefs(s)') = 0 /\ Cardinality(CallRefs(s)') = 0
    BY <1>3, CardFew, Zenon
  <2>5. Counted(s)'
    BY <2>1, <2>3, <2>4 DEF Counted
  <2> QED
    BY <1>3, <2>1, <2>5, Zenon DEF CountOK
<1>5. SectorInv'
  <2>1. \A s \in Block : ~Freeing(s) /\ ~Zeroing(s) /\ ~Freeing(s)'
    BY <1>1, Zenon DEF Freeing, Zeroing
  <2>2. ASSUME NEW s \in Block, Kept(s)' PROVE Stays(s)
    <3>1. open'[s].cnt = 0
      BY <1>2 DEF NotOpen
    <3>2. \E i \in Slot : slot[i].ino = s
      BY <1>2, <1>3, <2>1, <2>2, <3>1 DEF Kept
    <3> QED
      BY <1>2, <2>1, <3>2, ZenonT(40) DEF Stays, Kept
  <2>3. BareOK'
    <3>1. \A t \in Thread : Bare(t)' = {}
      BY <1>1, ZenonT(40) DEF Bare
    <3> QED
      BY <3>1, Zenon DEF BareOK
  <2> QED
    BY <1>2, <2>2, <2>3, SectorKept, Zenon DEF Sound
<1>6. LengthInv'
  BY <1>2 DEF LengthInv, NotOpen
<1>7. CallInv'
  BY <1>1, Zenon DEF CallInv, CallOK, Writing, WritingAt
<1> QED
  BY <1>4, <1>5, <1>6, <1>7, Zenon DEF Sound

(* The file system starts empty, with nothing open.                        *)
LEMMA InitInv ==
    ASSUME Counting, Init
    PROVE  IInv
<1> USE DEF Init
<1>1. TypeInv
  <2>1. NotOpen \in OpenType /\ 0 \in 0..MaxBlk
    BY Constants DEF NotOpen, OpenType
  <2>2. DiskType /\ DirType
    BY NoLocType, ZenonT(40) DEF DiskType, DirType, SlotType
  <2>3. OpenTabType
    BY <2>1, Zenon DEF OpenTabType
  <2>4. CallType
    BY <2>1, NoLocType, Labels, Zenon DEF CallType
  <2>5. \A t \in Thread : Locals(t)
    <3> HIDE DEF NoLoc
    <3> QED
      BY NoLocFits, Zenon DEF Locals
  <2>6. Alone /\ lossy \in BOOLEAN
    BY ZenonT(40) DEF Alone, Busy
  <2> QED
    BY <2>2, <2>3, <2>4, <2>5, <2>6, Zenon DEF TypeInv
<1>2. \A t \in Thread : pc[t] = "user" /\ fd[t] = None
  BY Zenon
<1>3. \A i \in Slot : slot[i].name = None /\ slot[i].ino = None
  BY Zenon DEF Unused
<1>4. \A s \in Block : open[s] = NotOpen
  BY Zenon
<1> USE DEF Init
<1>5. NamesInv
  BY <1>2, <1>3, Zenon DEF NamesInv
<1>6. \A s \in Block : NameRefs(s) = {} /\ FdRefs(s) = {} /\ CallRefs(s) = {} /\ Creators(s) = {}
  BY <1>2, <1>3, Constants, ZenonT(40) DEF NameRefs, FdRefs, CallRefs, Creators, InCall
<1>7. \A s \in Block : ~Kept(s)
  BY <1>2, <1>3, <1>4, <1>6, Constants, SMTT(20) DEF Kept, NotOpen, Freeing
<1>8. CountInv
  <2> SUFFICES ASSUME NEW s \in Block PROVE CountOK(s)
    BY Zenon DEF CountInv
  <2>1. Spare1(s) = 0 /\ open[s].cnt = 0 /\ ~open[s].removed
    BY <1>4, <1>6, Zenon DEF Spare1, NotOpen
  <2>2. Cardinality(NameRefs(s)) = 0 /\ Cardinality(FdRefs(s)) = 0 /\ Cardinality(CallRefs(s)) = 0
    BY <1>6, CardFew, ZenonT(40)
  <2> QED
    BY <1>6, <2>1, <2>2 DEF CountOK, Counted
<1>9. SectorInv
  <2>1. \A t \in Thread : Bare(t) = {}
    BY <1>2, ZenonT(40) DEF Bare
  <2> QED
    BY <1>7, <2>1, Zenon DEF SectorInv, Disjoint, BareOK
<1>10. LengthInv
  BY <1>4 DEF LengthInv, NotOpen
<1>11. CallInv
  BY <1>2, Zenon DEF CallInv, CallOK, Writing, WritingAt
<1> QED
  BY <1>1, <1>5, <1>8, <1>9, <1>10, <1>11, Zenon DEF IInv, Sound

LEMMA Unchanged ==
    ASSUME IInv, UNCHANGED vars
    PROVE  IInv'
<1> USE DEF vars, mem, dsk, file
<1>1. TypeInv'
  BY Zenon DEF IInv, TypeInv, DiskType, DirType, OpenTabType, CallType, Locals, Alone, Busy
<1>2. NamesInv'
  BY Zenon DEF IInv, NamesInv
<1>3. \A s : /\ NameRefs(s)' = NameRefs(s) /\ FdRefs(s)' = FdRefs(s) /\ CallRefs(s)' = CallRefs(s)
             /\ Creators(s)' = Creators(s)
  BY ZenonT(40) DEF NameRefs, FdRefs, CallRefs, Creators, Creator, InCall, Clearing
<1>4. \A s : (Freeing(s)' <=> Freeing(s)) /\ (Zeroing(s)' <=> Zeroing(s)) /\ Owned(s)' = Owned(s)
             /\ (Proper(s)' <=> Proper(s))
  BY ZenonT(40) DEF Freeing, Zeroing, Owned, DataBlocks, Proper
<1>5. \A s : Kept(s)' <=> Kept(s)
  BY <1>3, <1>4, ZenonT(40) DEF Kept
<1>6. \A t : Bare(t)' = Bare(t)
  BY ZenonT(40) DEF Bare
<1>7. CountInv => CountInv'
  BY <1>3, ZenonT(40) DEF CountInv, CountOK, Counted, Spare1
<1>8. SectorInv => SectorInv'
  BY <1>4, <1>5, <1>6, Zenon DEF SectorInv, KeptOK, Disjoint, BareOK
<1>9. LengthInv => LengthInv'
  BY Zenon DEF LengthInv
<1>10. CallInv => CallInv'
  BY <1>3, ZenonT(40) DEF CallInv, CallOK, Writing
<1>11. lossy' = lossy
  BY Zenon
<1> QED
  BY <1>1, <1>2, <1>7, <1>8, <1>9, <1>10, <1>11 DEF IInv, Sound

(* Steps of calls, shutdowns and crashes preserve the invariant.           *)
LEMMA NextInv ==
    ASSUME Serial, Counting, IInv, [Next]_vars
    PROVE  IInv'
<1>1. CASE UNCHANGED vars
  BY <1>1, Unchanged, Zenon
<1>2. ASSUME NEW t \in Thread, ThreadStep(t), UNCHANGED <<stops, lossy>> PROVE IInv'
  BY <1>2, CallStepInv, Zenon
<1>3. CASE Shutdown
  <2>1. TypeInv /\ NamesInv /\ used \in SUBSET Block /\ Reboot(used) /\ \A t \in Thread : pc[t] = "user"
    BY <1>3, Zenon DEF IInv, TypeInv, DiskType, Shutdown
  <2>2. lossy' = (lossy \/ TwoNames)
    BY <1>3, Zenon DEF Shutdown
  <2>3. TypeInv' /\ NamesInv'
    BY <2>1, <2>2, RebootTypes, RebootNames, Zenon
  <2>4. ~lossy' => Sound'
    BY <2>1, <2>2, ShutdownSound, Zenon DEF IInv
  <2> QED
    BY <2>3, <2>4, Zenon DEF IInv
<1>4. CASE Crash
  <2>1. TypeInv /\ NamesInv /\ saved \in SUBSET Block /\ Reboot(saved) /\ lossy'
    BY <1>4, Zenon DEF IInv, TypeInv, DiskType, Crash
  <2>2. lossy' \in BOOLEAN
    BY <1>4, Zenon DEF Crash
  <2>3. TypeInv' /\ NamesInv'
    BY <2>1, <2>2, RebootTypes, RebootNames, Zenon
  <2> QED
    BY <2>1, <2>3, Zenon DEF IInv
<1> QED
  BY <1>1, <1>2, <1>3, <1>4, Zenon DEF Next

-----------------------------------------------------------------------------
(* Theorems                                                                *)

(* A file with a name or a handle is one whose sectors are in use.         *)
LEMMA LiveIsKept ==
    ASSUME TypeInv, NEW s \in Live
    PROVE  s \in Block /\ Kept(s)
<1>1. s # None /\ ((\E i \in Slot : slot[i].ino = s) \/ (\E t \in Thread : fd[t] = s))
  BY Zenon DEF Live
<1>2. (\E i \in Slot : slot[i].ino = s) => s \in Block
  BY <1>1 DEF TypeInv, DirType, SlotType, Unused
<1>3. (\E t \in Thread : fd[t] = s) => s \in Block
  BY <1>1, Zenon DEF TypeInv, CallType
<1> QED
  BY <1>1, <1>2, <1>3, Zenon DEF Kept, FdRefs

(* Between calls nothing is being released and no call has a reference.    *)
LEMMA QuietIsFree ==
    ASSUME Quiet
    PROVE  \A s : ~Freeing(s) /\ ~Zeroing(s) /\ CallRefs(s) = {} /\ Creators(s) = {}
BY Zenon DEF Quiet, Freeing, Zeroing, CallRefs, Creators, InCall

(* No two entries have the same name, so a name is found once at most.     *)
LEMMA NamesDiffer ==
    ASSUME Counting, IInv
    PROVE  UniqueNames
<1> SUFFICES ASSUME NEW n \in Name PROVE Cardinality(Lookup(n)) <= 1
  BY DEF UniqueNames
<1>1. \A i, j \in Lookup(n) : i = j
  BY Constants, Zenon DEF IInv, NamesInv, Lookup
<1>2. CASE Lookup(n) = {}
  BY <1>2, CardFew
<1>3. CASE Lookup(n) # {}
  <2>1. PICK i : i \in Lookup(n)
    BY <1>3, Zenon
  <2>2. Lookup(n) = {i} /\ i \in Slot \cup Thread
    BY <1>1, <2>1, Zenon DEF Lookup
  <2>3. Cardinality(Lookup(n)) = 1
    BY <2>2, CardFew, Zenon
  <2> QED
    BY <2>3
<1> QED
  BY <1>2, <1>3, Zenon

(* Between calls the references counted are names and handles.             *)
LEMMA HandlesCovered ==
    ASSUME Counting, IInv
    PROVE  HandlesCounted
<1> SUFFICES ASSUME ~lossy, Quiet, NEW s \in Block PROVE Cardinality(FdRefs(s)) <= open[s].cnt
  BY DEF HandlesCounted, FdRefs
<1>1. TypeInv /\ Counted(s) /\ open[s].cnt \in Nat
  BY Zenon DEF IInv, Sound, CountInv, CountOK, TypeInv, OpenTabType, OpenType
<1>2. CallRefs(s) = {} /\ Creators(s) = {}
  BY QuietIsFree, Zenon
<1>3. /\ Cardinality(CallRefs(s)) = 0 /\ Cardinality(NameRefs(s)) \in Nat /\ Cardinality(FdRefs(s)) \in Nat
      /\ (Cardinality(NameRefs(s)) = 0 <=> NameRefs(s) = {})
  BY <1>2, RefsCount
<1>4. Spare1(s) <= Cardinality(NameRefs(s)) /\ Spare1(s) \in {0, 1}
  BY <1>2, <1>3 DEF Spare1
<1> QED
  BY <1>1, <1>3, <1>4 DEF Counted

(* A list of the threads.                                                  *)
Listed(S) == \E seq \in Seq(S) : \A s \in S : \E n \in 1..Len(seq) : seq[n] = s

LEMMA ThreadsListed ==
    Listed(Thread)
BY Threads, Zenon DEF Listed, IsFiniteSet

LOCAL INSTANCE FiniteSetTheorems

(* The entries are finitely many, and so are the threads.                  *)
LEMMA Counts ==
    Counting
<1>1. IsFiniteSet(Slot) /\ IsFiniteSet(Thread)
  <2>1. IsFiniteSet(Slot)
    BY FS_Interval, Bounds DEF Slot
  <2>2. IsFiniteSet(Thread)
    BY ThreadsListed, Zenon DEF Listed, IsFiniteSet
  <2> QED
    BY <2>1, <2>2, Zenon
<1>2. \A S : Cardinality(S) = SizeOf(S)
  BY Zenon DEF Cardinality, SizeOf
<1>3. ASSUME NEW S \in (SUBSET Slot) \cup (SUBSET Thread) PROVE CountRules(S)
  <2>1. S \in SUBSET Slot \/ S \in SUBSET Thread
    BY <1>3, Zenon
  <2>2. IsFiniteSet(S)
    BY <1>1, <2>1, FS_Subset, Zenon
  <2>3. /\ Cardinality(S) \in Nat
        /\ Cardinality(S) = 0 <=> S = {}
        /\ Cardinality(S) = 1 <=> \E x : S = {x}
    BY <2>2, FS_CardinalityType, FS_EmptySet, FS_Singleton, Zenon
  <2>4. /\ \A x \in S : Cardinality(S \ {x}) = Cardinality(S) - 1
        /\ \A x : x \notin S => Cardinality(S \cup {x}) = Cardinality(S) + 1
    BY <2>2, FS_AddElement, FS_RemoveElement, Zenon
  <2> QED
    BY <1>2, <2>3, <2>4, Zenon DEF CountRules
<1> QED
  BY <1>3, Zenon DEF Counting

(* While at most Dir::add may be entered by a second thread, every         *)
(* reachable state has the types, the entries have different names, and,   *)
(* until a stop loses what only memory knew, open_cnt covers all           *)
(* references to an inode, the sectors in use are marked and belong to one *)
(* owner, and the lengths agree.                                           *)
THEOREM InvHolds ==
    ASSUME Serial
    PROVE  Spec => []IInv
<1>1. Init => IInv
  BY Counts, InitInv, Zenon
<1>2. IInv /\ [Next]_vars => IInv'
  BY Counts, NextInv, Zenon
<1> QED
  BY <1>1, <1>2, PTL DEF Spec

(* Dir::add looks for a duplicate before it writes an entry, and no call   *)
(* runs between the two: no two entries ever have the same name, whatever  *)
(* the calls, shutdowns and crashes.                                       *)
THEOREM NamesStayUnique ==
    ASSUME Serial
    PROVE  Spec => []UniqueNames
<1>1. IInv => UniqueNames
  BY Counts, NamesDiffer, Zenon
<1> QED
  BY <1>1, InvHolds, PTL

(* free_map::allocate, release, truncate, write_at and close never let two *)
(* files with a name or a handle have a sector in common, nor one file     *)
(* have a sector twice, inside or between calls.                           *)
THEOREM SectorsPrivate ==
    ASSUME Serial
    PROVE  Spec => []NoSharedSector
<1>1. IInv => NoSharedSector
  <2> SUFFICES ASSUME IInv, ~lossy PROVE NoSharedSector
    BY Zenon DEF NoSharedSector
  <2>1. TypeInv /\ SectorInv
    BY Zenon DEF IInv, Sound
  <2>2. \A s, r \in Live : s # r => Owned(s) \cap Owned(r) = {}
    BY <2>1, LiveIsKept, Zenon DEF SectorInv, Disjoint
  <2>3. \A s \in Live : Proper(s)
    BY <2>1, LiveIsKept, ZenonT(40) DEF SectorInv, KeptOK
  <2> QED
    BY <2>2, <2>3, Zenon DEF NoSharedSector, Proper
<1> QED
  BY <1>1, InvHolds, PTL

(* Between calls every sector of a file with a name or a handle is marked  *)
(* in FREE_MAP: inode::close, inode::truncate and the undo of a failed     *)
(* create only release what nobody can reach.                              *)
THEOREM ReachableStaysUsed ==
    ASSUME Serial
    PROVE  Spec => []ReachableIsUsed
<1>1. IInv => ReachableIsUsed
  <2> SUFFICES ASSUME IInv, ~lossy, Quiet, NEW s \in Live PROVE Owned(s) \subseteq used
    BY Zenon DEF ReachableIsUsed
  <2>1. TypeInv /\ SectorInv
    BY Zenon DEF IInv, Sound
  <2>2. KeptOK(s)
    BY <2>1, LiveIsKept, Zenon DEF SectorInv
  <2> QED
    BY <2>2, QuietIsFree, Zenon DEF KeptOK
<1> QED
  BY <1>1, InvHolds, PTL

(* Between calls open_cnt is at least the number of the handles of the     *)
(* inode: inode::open and inode::close keep it so even though link leaves  *)
(* a unit behind and close does nothing for an inode that is not open.     *)
THEOREM CountsCoverHandles ==
    ASSUME Serial
    PROVE  Spec => []HandlesCounted
<1>1. IInv => HandlesCounted
  BY Counts, HandlesCovered, Zenon
<1> QED
  BY <1>1, InvHolds, PTL

(* Between calls the length that OPEN_INODES has for an open inode is the  *)
(* one in its sector: write_at and truncate update both.                   *)
THEOREM LengthsStayEqual ==
    ASSUME Serial
    PROVE  Spec => []LengthsAgree
<1>1. IInv => LengthsAgree
  <2> SUFFICES ASSUME IInv, ~lossy, Quiet, NEW s \in Block, open[s].cnt > 0
               PROVE  open[s].len = inode[s].len
    BY Zenon DEF LengthsAgree
  <2>1. LengthInv
    BY Zenon DEF IInv, Sound
  <2> QED
    BY <2>1, Zenon DEF LengthInv, Quiet
<1> QED
  BY <1>1, InvHolds, PTL

=============================================================================
