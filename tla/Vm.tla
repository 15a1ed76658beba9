---------------------------------- MODULE Vm ----------------------------------
(* The memory of user processes: page directories (userprog/pagedir.rs),    *)
(* supplementary page tables (vm/page.rs), frames and eviction              *)
(* (vm/frame.rs), swap (vm/swap.rs), the page fault handler                 *)
(* (userprog/exception.rs), and the calls that use them: exec and fork      *)
(* (userprog/process.rs), sbrk and the buffers of read (userprog/syscall.rs)*)
(*                                                                          *)
(* A page is a number and a page's content says who wrote it.  The kernel   *)
(* does all this with interrupts on, page faults included; Windows says at  *)
(* which places in it another thread does come in.  mem is not in the code: *)
(* it is what each process must find in its pages.                          *)
EXTENDS FrameTable, FiniteSetsExt

CONSTANTS Thread, Page,
          Initial,     \* processes that the kernel starts
          FilePage,    \* pages of the program with bytes in its file
          ReadOnly,    \* those of them that are not writable
          BssPage,     \* pages of the program without
          StackPage,   \* the first page of the stack
          GrowPage,    \* pages the stack may grow to
          HeapPage,    \* pages that sbrk gives
          NFrame,      \* pages of the user pool
          NSlot,       \* slots of the swap device, 0 without one
          HandMod,     \* CLOCK_HAND is kept modulo this
          Written,     \* pages that processes write
          Watched,     \* pages whose contents a run follows
          Windows, Ops

(* The hand is only used modulo the number of frames.                       *)
ASSUME HandKept == HandMod \in Nat /\ \A n \in 1..NFrame : HandMod % n = 0
ASSUME PageKinds == /\ Page \subseteq Nat
                    /\ Page = FilePage \cup BssPage \cup {StackPage} \cup GrowPage \cup HeapPage
                    /\ ReadOnly \subseteq FilePage

VARIABLES vm,        \* the memory that threads share
          pc, loc,   \* where each thread is, and its local variables
          side,      \* the page directory it holds besides its own: old_pd, child_pd
          mem

vars == <<vm, pc, loc, side, mem>>

Frame == 1..NFrame
Slot == 1..NSlot
Placeholder == "-1"
Image == FilePage \cup BssPage
Stack == {StackPage} \cup GrowPage

Region(u) == IF u \in Image \cup HeapPage THEN "image" ELSE "stack"
NoPte == [k |-> 0, a |-> FALSE, d |-> FALSE]
NoDir == [on |-> FALSE, pt |-> {}, pte |-> [u \in Page |-> NoPte]]
NewDir == [NoDir EXCEPT !.on = TRUE]
NoSpt == [on |-> FALSE, at |-> <<>>]
InSwap(s) == [in |-> "swap", slot |-> s]
At(x) == [in |-> x, slot |-> 0]
NoLoc == [page |-> 0, k |-> 0, how |-> At("zero"), ret |-> "user", kid |-> Placeholder,
          spt |-> NoSpt, todo |-> {}]
NoMem == [u \in Page |-> "none"]
Bytes(u, c) == IF u \in Watched THEN c ELSE "zero"

Init ==
    /\ vm = [tab |-> EmptyTable, hand |-> 0, pool |-> Frame,
             data |-> [k \in Frame |-> "zero"],
             dir |-> [t \in Thread |-> NoDir], spt |-> [t \in Thread |-> NoSpt],
             used |-> {}, swap |-> [s \in Slot |-> "zero"], smap |-> {}]
    /\ pc = [t \in Thread |-> IF t \in Initial THEN "start" ELSE "none"]
    /\ loc = [t \in Thread |-> NoLoc]
    /\ side = [t \in Thread |-> NoDir]
    /\ mem = [t \in Thread |-> NoMem]

(* ------------------------------- page tables ---------------------------- *)
(* set_page: it fails only when there is no page table yet and no page of   *)
(* the kernel's for one.                                                    *)
MayFail(d, u) == "nopt" \in Ops /\ Region(u) \notin d.pt
WithPage(d, u, k) == [d EXCEPT !.pt = @ \cup {Region(u)}, !.pte[u] = [NoPte EXCEPT !.k = k]]
SetPage(v, t, u, k) == [v EXCEPT !.dir[t] = WithPage(@, u, k)]
Mapped(t, u) == vm.dir[t].pte[u].k # 0
HasEntry(v, t, u) == v.spt[t].on /\ u \in DOMAIN v.spt[t].at
Insert(v, t, u, w) == IF v.spt[t].on THEN [v EXCEPT !.spt[t].at = Put(@, u, w)] ELSE v

(* ---------------------------------- frames ------------------------------ *)
(* free_frame; what is left in a free page is of no account, as palloc      *)
(* zeroes the page when it gives it.                                        *)
FreeFrame(v, k) == [v EXCEPT !.tab = Release(@, k), !.pool = @ \cup {k}, !.data[k] = "zero"]

PageOrder == SetToSortSeq(Page, <)

(* pagedir::destroy, page by page.                                          *)
Destroy(v, d) ==
    FoldLeft(LAMBDA w, u : IF d.pte[u].k = 0 THEN w ELSE FreeFrame(w, d.pte[u].k), v, PageOrder)

(* free_slot; the same holds of a free slot.                                *)
FreeSlots(v, S) ==
    [v EXCEPT !.used = @ \ S, !.swap = [s \in Slot |-> IF s \in S THEN "zero" ELSE @[s]]]

(* SupplementaryPageTable::destroy.                                         *)
DropSpt(v, t) ==
    LET at == v.spt[t].at
    IN [FreeSlots(v, {at[u].slot : u \in {w \in DOMAIN at : at[w].in = "swap"}})
           EXCEPT !.spt[t] = NoSpt]

(* A mutated swap_out that leaves the slot free.                            *)
SwapOutUnmarked(v, s, k) == [v EXCEPT !.swap[s] = v.data[k]]

(* swap_out.                                                                *)
SwapOut(v, s, k) == [v EXCEPT !.used = @ \cup {s}, !.swap[s] = v.data[k]]

(* Where evict_frame says that a clean page can be found again; mutants say *)
(* the wrong place.                                                         *)
ReloadZero(u) == At("zero")
ReloadNot(u) == At("mem")
Reload(u) == At(IF u \in FilePage THEN "disk" ELSE "zero")

(* Where evict_frame says that the page can be found again.  A page without *)
(* an entry in its owner's table is recorded nowhere.                       *)
Unload(v, e) ==
    LET s == Min(Slot \ v.used)
        o == e.owner
        u == e.upage
    IN IF v.dir[o].pte[u].d
       THEN LET w == SwapOut(v, s, e.kpage)
            IN CASE HasEntry(v, o, u) -> [w EXCEPT !.spt[o].at[u] = InSwap(s)]
                 [] ~v.spt[o].on -> [w EXCEPT !.smap = {m \in @ : m[1] # o \/ m[2] # u}
                                                       \cup {<<o, u, s>>}]
                 [] OTHER -> w
       ELSE IF HasEntry(v, o, u)
            THEN [v EXCEPT !.spt[o].at[u] = Reload(u)]
            ELSE v

(* clear_page of the frame that is evicted, and a mutant that forgets it.   *)
UnmapNot(v, e) == v
Unmap(v, e) == [v EXCEPT !.dir[e.owner].pte[e.upage] = NoPte]

(* evict_frame: two rounds of the clock.  The frame at the i-th visit is    *)
(* taken unless it is pinned, has no owner with a page directory, was       *)
(* accessed and not visited since, or is dirty with no slot left.           *)
EvictFrame(v) ==
    LET n == Len(v.tab.entry)
        E(i) == v.tab.entry[((v.hand + i) % n) + 1]
        InPlay(e) == ~e.pinned /\ e.owner \in Thread /\ v.dir[e.owner].on
        Same(e, f) == e.owner = f.owner /\ e.upage = f.upage
        Cleared(i) == \E j \in 0..(i - 1) : InPlay(E(j)) /\ Same(E(j), E(i))
        Taken == {i \in 0..(2 * n - 1) :
                     /\ InPlay(E(i))
                     /\ v.dir[E(i).owner].pte[E(i).upage].a => Cleared(i)
                     /\ v.dir[E(i).owner].pte[E(i).upage].d => Slot \ v.used # {}}
        last == IF n = 0 THEN 0 ELSE IF Taken = {} THEN 2 * n ELSE Min(Taken)
        aged == [v EXCEPT
                   !.hand = (@ + last) % HandMod,
                   !.dir = [t \in Thread |-> [@[t] EXCEPT !.pte = [u \in Page |->
                       IF \E j \in 0..(last - 1) : /\ InPlay(E(j))
                                                   /\ E(j).owner = t /\ E(j).upage = u
                       THEN [@[u] EXCEPT !.a = FALSE] ELSE @[u]]]]]
        e == E(last)
    IN IF n = 0 \/ Taken = {}
       THEN [k |-> 0, v |-> aged]
       ELSE [k |-> e.kpage,
             v |-> [Unmap(Unload(aged, e), e) EXCEPT
                       !.tab = TakeOut(@, ((v.hand + last) % n) + 1)]]

(* alloc_frame: the first free page of the pool, or an evicted one.         *)
AllocFrame(v, u, t) ==
    LET got == IF v.pool # {}
               THEN [k |-> Min(v.pool), v |-> [v EXCEPT !.pool = @ \ {Min(v.pool)}]]
               ELSE EvictFrame(v)
    IN IF got.k = 0
       THEN got
       ELSE [k |-> got.k,
             v |-> [got.v EXCEPT !.data[got.k] = "zero", !.tab = Register(@, got.k, u, t)]]

(* -------------------------------- processes ----------------------------- *)
(* A thread waits while another is at a place that is not open.             *)
Turn(t, p) ==
    /\ pc[t] = p
    /\ \A o \in Thread \ {t} : pc[o] \in {"none", "start", "new", "user"} \cup Windows

Go(t, p, l) == pc' = [pc EXCEPT ![t] = p] /\ loc' = [loc EXCEPT ![t] = l]
Back(t) == Go(t, "user", NoLoc)
Resume(t, p, u) == Go(t, p, [NoLoc EXCEPT !.page = IF p = "user" THEN 0 ELSE u])

(* exit_with_status, as far as memory goes.                                 *)
Leave(t, v) ==
    /\ vm' = Destroy([DropSpt(v, t) EXCEPT !.dir[t] = NoDir], v.dir[t])
    /\ mem' = [mem EXCEPT ![t] = NoMem]
    /\ Go(t, "none", NoLoc)
    /\ UNCHANGED side

Exit(t) == "exit" \in Ops /\ Turn(t, "user") /\ Leave(t, vm)

(* The process reads or writes a page that is mapped.                       *)
Access(t, u, w) ==
    /\ Turn(t, "user")
    /\ Mapped(t, u) /\ mem[t][u] # "none"
    /\ w => u \in Written
    /\ vm' = [vm EXCEPT !.dir[t].pte[u] = [@ EXCEPT !.a = TRUE, !.d = @ \/ w],
                        !.data[vm.dir[t].pte[u].k] = IF w THEN Bytes(u, t) ELSE @]
    /\ mem' = [mem EXCEPT ![t][u] = IF w THEN Bytes(u, t) ELSE @]
    /\ UNCHANGED <<pc, loc, side>>

(* load_page, up to where the frame is filled: ret is where the caller goes *)
(* on, and miss where it goes when there is no frame.                       *)
LoadPage(t, u, ret, miss) ==
    LET got == AllocFrame(vm, u, t)
    IN IF vm.spt[t].at[u].in = "mem"
       THEN vm' = vm /\ Resume(t, ret, u)
       ELSE /\ vm' = got.v
            /\ IF got.k = 0
               THEN Resume(t, miss, u)
               ELSE Go(t, "fill", [NoLoc EXCEPT !.page = u, !.k = got.k, !.ret = ret,
                                                !.how = vm.spt[t].at[u]])

(* page_fault on a page that is not present.                                *)
Fault(t, u, w) ==
    /\ Turn(t, "user")
    /\ ~Mapped(t, u)
    /\ mem[t][u] # "none" \/ ("grow" \in Ops /\ u \in GrowPage)
    /\ IF HasEntry(vm, t, u)
       THEN IF w /\ u \in ReadOnly
            THEN Leave(t, vm)
            ELSE LoadPage(t, u, "user", "miss") /\ UNCHANGED <<side, mem>>
       ELSE Resume(t, "miss", u) /\ UNCHANGED <<vm, side, mem>>

(* load_page from there: the frame is read from the file or the slot, and   *)
(* mapped.                                                                  *)
Fill(t) ==
    LET l == loc[t]
        v == CASE l.how.in = "disk" -> [vm EXCEPT !.data[l.k] = Bytes(l.page, "file")]
               [] l.how.in = "swap" -> [FreeSlots(vm, {l.how.slot}) EXCEPT
                                           !.data[l.k] = vm.swap[l.how.slot]]
               [] l.how.in = "zero" -> vm
    IN /\ Turn(t, "fill")
       /\ \/ /\ vm' = Insert(SetPage(v, t, l.page, l.k), t, l.page, At("mem"))
             /\ Resume(t, l.ret, l.page)
          \/ /\ MayFail(vm.dir[t], l.page)
             /\ vm' = FreeFrame(v, l.k)
             /\ Resume(t, IF l.ret = "user" THEN "miss" ELSE l.ret, l.page)
       /\ UNCHANGED <<side, mem>>

(* page_fault when the table could not help: stack growth, then the slot of *)
(* a page evicted without a table, then the process is killed.              *)
Miss(t) ==
    LET u == loc[t].page
        got == AllocFrame(vm, u, t)
        grows == u \in Stack /\ got.k # 0
        old == {m \in vm.smap : m[1] = t /\ m[2] = u}
        s == (CHOOSE m \in old : TRUE)[3]
    IN /\ Turn(t, "miss")
       /\ CASE grows ->
               \/ /\ vm' = Insert(SetPage(got.v, t, u, got.k), t, u, At("mem"))
                  /\ mem' = [mem EXCEPT ![t][u] = IF @ = "none" THEN "zero" ELSE @]
                  /\ Back(t) /\ UNCHANGED side
               \/ MayFail(vm.dir[t], u) /\ Leave(t, FreeFrame(got.v, got.k))
            [] ~grows /\ old # {} /\ got.k # 0 ->
               /\ vm' = [FreeSlots(SetPage(got.v, t, u, got.k), {s}) EXCEPT
                            !.data[got.k] = vm.swap[s], !.smap = @ \ old]
               /\ Back(t) /\ UNCHANGED <<side, mem>>
            [] OTHER -> Leave(t, IF u \in Stack \/ old # {} THEN got.v ELSE vm)

(* sbrk by one page.  Without a frame it fails; the result of set_page is   *)
(* not looked at.                                                           *)
Sbrk(t, u) ==
    LET got == AllocFrame(vm, u, t)
    IN /\ "sbrk" \in Ops /\ Turn(t, "user")
       /\ u \in HeapPage /\ mem[t][u] = "none"
       /\ IF Mapped(t, u)
          THEN vm' = vm /\ mem' = [mem EXCEPT ![t][u] = vm.data[vm.dir[t].pte[u].k]]
          ELSE \/ got.k = 0 /\ vm' = got.v /\ mem' = mem
               \/ /\ got.k # 0
                  /\ \/ vm' = SetPage(got.v, t, u, got.k)
                     \/ MayFail(vm.dir[t], u) /\ vm' = got.v
                  /\ mem' = [mem EXCEPT ![t][u] = "zero"]
       /\ UNCHANGED <<pc, loc, side>>

(* sbrk of a negative number moves the break and unmaps nothing.            *)
Shrink(t, u) ==
    /\ "sbrk" \in Ops /\ Turn(t, "user")
    /\ u \in HeapPage
    /\ mem' = [mem EXCEPT ![t][u] = "none"]
    /\ UNCHANGED <<vm, pc, loc, side>>

(* ------------------------------ user buffers ---------------------------- *)
(* is_valid_user_ptr on the buffer of read.  Whether the page could be      *)
(* loaded is not looked at.                                                 *)
Validate(t, u) ==
    /\ "io" \in Ops /\ Turn(t, "user")
    /\ mem[t][u] # "none" /\ u \in Written
    /\ CASE Mapped(t, u) \/ (~HasEntry(vm, t, u) /\ u \in Stack) ->
              Resume(t, "valid", u) /\ UNCHANGED <<vm, side, mem>>
         [] ~Mapped(t, u) /\ HasEntry(vm, t, u) ->
              LoadPage(t, u, "valid", "valid") /\ UNCHANGED <<side, mem>>
         [] OTHER -> Leave(t, vm)

(* A mutated bounced_read that does not pin.                                *)
PinNot(t) == Turn(t, "valid") /\ Go(t, "io", loc[t]) /\ UNCHANGED <<vm, side, mem>>

(* bounced_read: pin the page, wait for the file, copy into the page, unpin.*)
Pin(t) ==
    /\ Turn(t, "valid")
    /\ vm' = [vm EXCEPT !.tab = SetPinned(@, t, loc[t].page, TRUE)]
    /\ Go(t, "io", loc[t])
    /\ UNCHANGED <<side, mem>>

(* The copy faults in the kernel when the page is not there.                *)
Transfer(t) ==
    LET u == loc[t].page
        k == vm.dir[t].pte[u].k
    IN /\ Turn(t, "io")
       /\ IF k = 0
          THEN Go(t, "panic", loc[t]) /\ UNCHANGED <<vm, mem>>
          ELSE /\ vm' = [vm EXCEPT !.data[k] = Bytes(u, t),
                                   !.dir[t].pte[u] = [@ EXCEPT !.a = TRUE, !.d = TRUE],
                                   !.tab = SetPinned(@, t, u, FALSE)]
               /\ mem' = [mem EXCEPT ![t][u] = Bytes(u, t)]
               /\ Back(t)
       /\ UNCHANGED side

(* --------------------------------- exec --------------------------------- *)
(* sys_exec, before load: the old table is destroyed and the old page       *)
(* directory put aside.                                                     *)
Exec(t) ==
    /\ "exec" \in Ops /\ Turn(t, "user")
    /\ vm' = [DropSpt(vm, t) EXCEPT !.dir[t] = NoDir]
    /\ side' = [side EXCEPT ![t] = vm.dir[t]]
    /\ Go(t, "exec", NoLoc)
    /\ UNCHANGED mem

(* The entries that load_demand_paged makes.                                *)
ImageSpt ==
    [on |-> TRUE,
     at |-> [u \in Image \cup {StackPage} |->
                CASE u \in FilePage -> At("disk")
                  [] u \in BssPage -> At("zero")
                  [] u = StackPage -> At("mem")]]
ImageMem ==
    [u \in Page |-> CASE u \in FilePage -> Bytes(u, "file")
                      [] u \in BssPage -> "zero"
                      [] u = StackPage -> Bytes(u, "args")
                      [] OTHER -> "none"]

(* setup_stack: the frame of the stack page is filled with the arguments    *)
(* through the kernel's address of it.                                      *)
SetupStack(v, t) ==
    LET got == AllocFrame(v, StackPage, t)
    IN IF got.k = 0 THEN got ELSE [got EXCEPT !.v.data[got.k] = Bytes(StackPage, "args")]

(* load.  When it fails, sys_exec goes back to the old page directory, and  *)
(* start_process exits.                                                     *)
Load(t) ==
    LET got == SetupStack(vm, t)
        Failed(v) == /\ vm' = [v EXCEPT !.dir[t] = side[t]]
                     /\ side' = [side EXCEPT ![t] = NoDir]
                     /\ Go(t, IF side[t].on THEN "user" ELSE "none", NoLoc)
                     /\ UNCHANGED mem
    IN /\ Turn(t, "exec") \/ Turn(t, "start")
       /\ \/ "badfile" \in Ops /\ Failed(vm)
          \/ got.k = 0 /\ Failed(got.v)
          \/ got.k # 0 /\ MayFail(NewDir, StackPage) /\ Failed(FreeFrame(got.v, got.k))
          \/ /\ got.k # 0
             /\ vm' = [got.v EXCEPT !.dir[t] = WithPage(NewDir, StackPage, got.k),
                                    !.spt[t] = ImageSpt]
             /\ mem' = [mem EXCEPT ![t] = ImageMem]
             /\ Go(t, "loaded", NoLoc)
             /\ UNCHANGED side

(* sys_exec, after load: the old page directory and its frames are freed.   *)
DestroyOld(t) ==
    /\ Turn(t, "loaded")
    /\ vm' = Destroy(vm, side[t])
    /\ side' = [side EXCEPT ![t] = NoDir]
    /\ Back(t)
    /\ UNCHANGED mem

(* --------------------------------- fork --------------------------------- *)
Fork(t) ==
    /\ "fork" \in Ops /\ Turn(t, "user")
    /\ side' = [side EXCEPT ![t] = NewDir]
    /\ Go(t, "copy", [NoLoc EXCEPT !.todo = Page])
    /\ UNCHANGED <<vm, mem>>

(* copy_user_pages, one page: the address of the parent's frame is read     *)
(* before the child's frame is allocated.                                   *)
CopyPage(t) ==
    LET u == Min(loc[t].todo)
        src == vm.dir[t].pte[u].k
        got == AllocFrame(vm, u, Placeholder)
        next == Go(t, "copy", [loc[t] EXCEPT !.todo = @ \ {u}])
        Failed(v) == /\ vm' = Destroy(v, side[t])
                     /\ side' = [side EXCEPT ![t] = NoDir]
                     /\ Back(t)
    IN /\ Turn(t, "copy") /\ loc[t].todo # {}
       /\ \/ src = 0 /\ next /\ UNCHANGED <<vm, side>>
          \/ src # 0 /\ got.k = 0 /\ Failed(got.v)
          \/ src # 0 /\ got.k # 0 /\ MayFail(side[t], u) /\ Failed(FreeFrame(got.v, got.k))
          \/ /\ src # 0 /\ got.k # 0
             /\ vm' = [got.v EXCEPT !.data[got.k] = got.v.data[src]]
             /\ side' = [side EXCEPT ![t] = WithPage(@, u, got.k)]
             /\ next
       /\ UNCHANGED mem

(* clone_spt.                                                               *)
CloneSpt(p) ==
    [p EXCEPT !.at = [u \in DOMAIN @ |-> IF @[u].in = "swap" THEN At("mem") ELSE @[u]]]

(* The child's thread is created; without one everything is undone.         *)
Create(t, c) ==
    /\ Turn(t, "copy") /\ loc[t].todo = {}
    /\ pc[c] = "none"
    /\ vm' = [vm EXCEPT !.dir[c] = [side[t] EXCEPT !.on = FALSE]]
    /\ mem' = [mem EXCEPT ![c] = mem[t]]
    /\ pc' = [pc EXCEPT ![t] = "publish", ![c] = "new"]
    /\ loc' = [loc EXCEPT ![t] = [NoLoc EXCEPT !.kid = c, !.spt = CloneSpt(vm.spt[t])]]
    /\ side' = [side EXCEPT ![t] = NoDir]

CreateFails(t) ==
    /\ Turn(t, "copy") /\ loc[t].todo = {}
    /\ vm' = Destroy(vm, side[t])
    /\ side' = [side EXCEPT ![t] = NoDir]
    /\ Back(t)
    /\ UNCHANGED mem

(* Steps 9 and 10 of fork: the copied frames and the copied table are given *)
(* to the child.                                                            *)
Publish(t) ==
    LET c == loc[t].kid
    IN /\ Turn(t, "publish")
       /\ vm' = [vm EXCEPT !.tab = FixOwner(@, Placeholder, c),
                           !.spt[c] = IF loc[t].spt.on THEN loc[t].spt ELSE @]
       /\ Back(t)
       /\ UNCHANGED <<side, mem>>

(* fork_child_entry.                                                        *)
ChildStart(c) ==
    /\ Turn(c, "new")
    /\ vm' = [vm EXCEPT !.dir[c].on = TRUE]
    /\ Go(c, "user", NoLoc)
    /\ UNCHANGED <<side, mem>>

Next ==
    \E t \in Thread :
        \/ Exit(t) \/ Exec(t) \/ Load(t) \/ DestroyOld(t)
        \/ Fill(t) \/ Miss(t) \/ Pin(t) \/ Transfer(t)
        \/ Fork(t) \/ CopyPage(t) \/ CreateFails(t) \/ Publish(t) \/ ChildStart(t)
        \/ \E c \in Thread : Create(t, c)
        \/ \E u \in Page : \/ Sbrk(t, u) \/ Shrink(t, u) \/ Validate(t, u)
                           \/ \E w \in BOOLEAN : Access(t, u, w) \/ Fault(t, u, w)

Spec == Init /\ [][Next]_vars

(* ------------------------------- properties ----------------------------- *)
Content == {"zero", "file", "args"} \cup Thread
Pte == [k : 0..NFrame, a : BOOLEAN, d : BOOLEAN]
IsDir(d) == d.on \in BOOLEAN /\ d.pt \subseteq {"image", "stack"} /\ d.pte \in [Page -> Pte]
Entry == [kpage : Frame, upage : Page, owner : Thread \cup {Placeholder}, pinned : BOOLEAN]
Where == {At(x) : x \in {"mem", "disk", "zero"}} \cup {InSwap(s) : s \in Slot}
IsSpt(p) == p.on \in BOOLEAN /\ DOMAIN p.at \subseteq Page /\ Range(p.at) \subseteq Where

(* The state has its type.                                                  *)
TypeOK ==
    /\ Range(vm.tab.entry) \subseteq Entry
    /\ DOMAIN vm.tab.index \subseteq Frame /\ Range(vm.tab.index) \subseteq Nat
    /\ vm.hand \in 0..HandMod
    /\ vm.pool \subseteq Frame /\ vm.used \subseteq Slot
    /\ vm.data \in [Frame -> Content] /\ vm.swap \in [Slot -> Content]
    /\ \A t \in Thread : IsDir(vm.dir[t]) /\ IsDir(side[t])
    /\ \A t \in Thread : IsSpt(vm.spt[t]) /\ IsSpt(loc[t].spt)
    /\ vm.smap \subseteq Thread \X Page \X Slot
    /\ pc \in [Thread -> {"none", "start", "new", "user", "fill", "miss", "valid", "io", "panic",
                          "exec", "loaded", "copy", "publish"}]
    /\ mem \in [Thread -> [Page -> Content \cup {"none"}]]

(* Every page of the user pool is either free or in the frame table, once,  *)
(* and KPAGE_INDEX finds it there (frame.rs: "Kept in sync with             *)
(* FRAME_TABLE"): eviction, free_frame and palloc never disagree about who  *)
(* has a page.                                                              *)
FramesAccounted ==
    /\ Agrees(vm.tab)
    /\ vm.pool = Frame \ Kpages(vm.tab)

(* The places where frames are mapped, and the frame at one.                *)
FrameAt(x) == (IF x[1] = "own" THEN vm.dir[x[2]] ELSE side[x[2]]).pte[x[3]].k
Uses == {x \in {"own", "side"} \X Thread \X Page : FrameAt(x) # 0}

(* A frame that a process has mapped is mapped nowhere else, is not free,   *)
(* and the frame table says at which page: no process sees another's        *)
(* memory and evict_frame clears the right page table entry.                *)
PrivateFrames ==
    /\ Cardinality({FrameAt(x) : x \in Uses}) = Cardinality(Uses)
    /\ \A x \in Uses : /\ FrameAt(x) \in DOMAIN vm.tab.index
                       /\ vm.tab.entry[vm.tab.index[FrameAt(x)]].upage = x[3]

(* The owner_tid in a frame's entry is the process that has it mapped, from *)
(* when fork has put the child's number for the placeholder.                *)
OwnerRight ==
    \A t \in Thread, u \in Page :
        pc[t] = "user" /\ Mapped(t, u)
            => /\ vm.dir[t].pte[u].k \in DOMAIN vm.tab.index
               /\ \/ vm.tab.entry[vm.tab.index[vm.dir[t].pte[u].k]].owner = t
                  \/ \E o \in Thread : pc[o] = "publish" /\ loc[o].kid = t

(* page.rs: InMemory means "in physical memory (mapped in page directory)". *)
(* The page fault handler resumes a process without loading anything when   *)
(* the entry says so.                                                       *)
InMemoryIsMapped ==
    \A t \in Thread : pc[t] = "user" /\ vm.spt[t].on =>
        \A u \in DOMAIN vm.spt[t].at : vm.spt[t].at[u].in = "mem" <=> Mapped(t, u)

(* What the process finds in a page: in its frame, or after the page fault  *)
(* that loads it.                                                           *)
Found(t, u) ==
    CASE Mapped(t, u) -> vm.data[vm.dir[t].pte[u].k]
      [] ~Mapped(t, u) /\ HasEntry(vm, t, u) ->
            LET a == vm.spt[t].at[u]
            IN (CASE a.in = "swap" -> vm.swap[a.slot]
                  [] a.in = "disk" -> Bytes(u, "file")
                  [] a.in = "zero" -> "zero"
                  [] a.in = "mem" -> "lost")
      [] OTHER -> "lost"
Keeps(S) ==
    \A t \in Thread, u \in S : pc[t] = "user" /\ vm.spt[t].on /\ mem[t][u] # "none"
                                  => Found(t, u) = mem[t][u]

(* A process with a supplementary page table (a failed exec leaves one      *)
(* without) finds in the pages of its program, and in those that its stack  *)
(* grew to, what it last wrote there, or what is in the file, through any   *)
(* evictions and reloads.                                                   *)
PagesKept == Keeps(Image \cup GrowPage)

(* The same for the pages that sbrk gave.                                   *)
HeapKept == Keeps(HeapPage)

(* "Deep-copy all user pages": the pages of the program that a child has    *)
(* mapped when it starts hold what its parent had in them.                  *)
ForkCopies ==
    \A c \in Thread, u \in Image :
        pc[c] = "new" /\ Mapped(c, u) => vm.data[vm.dir[c].pte[u].k] = mem[c][u]

(* A swap slot that a page was written to stays its own until it is read    *)
(* back: no two pages have one slot, and it is not free.                    *)
SlotsPrivate ==
    LET Held == {<<t, u>> \in Thread \X Page : HasEntry(vm, t, u) /\ vm.spt[t].at[u].in = "swap"}
    IN \A x \in Held : LET s == vm.spt[x[1]].at[x[2]].slot
                       IN /\ s \in vm.used
                          /\ \A y \in Held \ {x} : vm.spt[y[1]].at[y[2]].slot # s

(* "Pinned frames can't be evicted": while a read into a user page waits    *)
(* for its file, the page stays mapped to the same frame.                   *)
PinnedStays ==
    [][\A t \in Thread : pc[t] = "io" /\ pc'[t] = "io" /\ Mapped(t, loc[t].page)
          => vm'.dir[t].pte[loc[t].page].k = vm.dir[t].pte[loc[t].page].k]_vars

(* The kernel does not fault on a user page that it checked: exception.rs   *)
(* has panic! for a fault in kernel mode.                                   *)
NoKernelFault == \A t \in Thread : pc[t] # "panic"
===============================================================================
