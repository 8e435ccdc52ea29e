--------------------------------- MODULE Mmap ---------------------------------
(***************************************************************************)
(* Memory mapping: sys_mmap, sys_munmap, pagefault, fork, exec, exit and   *)
(* wait, with the page tables they share and the allocator of module Kmem  *)
(* underneath.                                                             *)
(*                                                                         *)
(* Virtual memory is NBLOCK blocks of PPH pages; block b is what one       *)
(* level-1 entry of a page table covers.  A level-1 entry is a table of    *)
(* PPH level-0 entries or a leaf that maps the whole block to a section.   *)
(* Level-1 and level-2 tables are not modelled: they exist for as long as  *)
(* the process.                                                            *)
(*                                                                         *)
(* Atomicity follows the locks.  mmap, munmap and pagefault hold mmaplock; *)
(* the only part of them that another process can observe half done is the *)
(* loop by which pagefault connects the processes that share a page (one   *)
(* step per process, with that process's lock).  fork holds the child's    *)
(* lock and no other, so it takes a step for each access to a shared entry *)
(* of its own page table.  All of these run with interrupts off: with one  *)
(* hart nothing else runs before they are done.                            *)
(***************************************************************************)
EXTENDS Kmem, FiniteSetsExt

CONSTANTS NPROC,     \* process slots (64)
          NBLOCK,    \* blocks of virtual memory
          NSLOT,     \* entries of mmap_list (4)
          Scene,     \* what the harts and the programs may do, see below
          REUSE      \* a freed process slot is used again; if not, NPROC bounds
                     \* the number of processes of a behaviour

Proc == 1 .. NPROC
Slot == 1 .. NSLOT
Block == 0 .. NBLOCK - 1
Off == 0 .. PPH - 1
VA == 0 .. NBLOCK * PPH - 1   \* page-aligned virtual addresses

blk(va) == va \div PPH        \* PX(1, va), the block of HUGEPGROUNDDOWN(va)
off(va) == va % PPH           \* PX(0, va)

\* The operations a program may refrain from; spawn is the shell's.
\* forkfresh is a fork before every shared page has been touched.
AllOps == {"mmap", "munmap", "exec", "execfail", "copyout", "forkfresh", "spawn"}

\* A scene: the number of harts (up to NCPU = 8), the mmap calls that programs
\* make, and the operations that the program of each process uses (the DOMAIN
\* of ops has the slots that exist).
SceneOK(sc) ==
  /\ sc.harts \in Nat \ {0}
  /\ DOMAIN sc.ops \subseteq Proc /\ \A p \in DOMAIN sc.ops : sc.ops[p] \subseteq AllOps
  /\ \A r \in sc.requests :
       /\ r.addr \in VA /\ r.len \in Nat
       /\ r.prot \in {"r", "rw"} /\ r.flag \in {"private", "shared"}
       /\ r.huge \in BOOLEAN

ASSUME MmapAssumption ==
  /\ NPROC \in Nat \ {0} /\ NPROC < REFMOD   \* 64 < 256: no counter wraps
  /\ NBLOCK \in Nat \ {0} /\ NSLOT \in Nat \ {0}
  /\ REUSE \in BOOLEAN
  /\ \A sc \in Scene : SceneOK(sc)

\* An entry of mmap_list; addr = 0 in the code is NoRegion.
NoRegion == [addr |-> -1, len |-> 0, prot |-> "r", flag |-> "private", huge |-> FALSE]
PagesOf(r) == {va \in VA : r.addr <= va /\ va < r.addr + r.len}

-----------------------------------------------------------------------------
(* Page table entries.                                                     *)

NoPte == [k |-> "none"]

\* V clear, (pte & PTE_CoW) = 0x200, R set: a shared page nobody has touched.
Marker(w) == [k |-> "marker", w |-> w]

\* A valid leaf; cow is (pte & PTE_CoW) = 0x300.
Leaf(pa, w, cow) == [k |-> "leaf", pa |-> pa, w |-> w, cow |-> cow]

\* A valid non-leaf at level 1, with the level-0 entries it points to.
Table(pa, ptes) == [k |-> "table", pa |-> pa, ptes |-> ptes]

EmptyPagetable == [b \in Block |-> NoPte]

IsLeaf(e) == e.k = "leaf"
IsMarker(e) == e.k = "marker"

\* The leaf flags of create_pte_flag(flags, 0, 0), which are also pagefault's perm.
MapLeaf(pa, r) == Leaf(pa, r.prot = "rw", FALSE)

\* create_pte_flag(flags, 1, 0).
MarkerOf(r) == Marker(r.prot = "rw")

-----------------------------------------------------------------------------
(* Physical memory: kmem, the contents of every page, and the message of   *)
(* the panic that has stopped the kernel ("" if none).                     *)

Val == {0, 1}

Panic(m, msg) == IF m.panic = "" THEN [m EXCEPT !.panic = msg] ELSE m

SectionPages(h) == {p \in Page : p[1] = h}
Zero(mem, S) == [p \in Page |-> IF p \in S THEN 0 ELSE mem[p]]

\* kalloc, with the memset of the page it returns.
PageAlloc(m) ==
  [m EXCEPT !.km = kalloc(m.km), !.mem = Zero(@, {kalloc_pa(m.km)})]

\* kfree: pa must lie in the range of the allocator; the freed page is cleared.
PageFree(m, pa) ==
  IF pa \notin Page THEN Panic(m, "kfree")
  ELSE IF kfree_panics(m.km, pa) THEN Panic(m, "double kfree")
  ELSE [m EXCEPT !.km = kfree(m.km, pa),
                 !.mem = Zero(@, {p \in {pa} : kfree(m.km, pa).pagelist[pa] = 1})]

\* A section is named by its first page.
Section(h) == IF h = NoHuge THEN NoPage ELSE <<h, 0>>

HugeAlloc(m) ==
  [m EXCEPT !.km = kalloc_huge(m.km), !.mem = Zero(@, SectionPages(kalloc_huge_pa(m.km)))]

HugeFree(m, pa) ==
  IF pa \notin Page THEN Panic(m, "kfree_huge")
  ELSE IF kfree_huge_panics(m.km, pa[1]) THEN Panic(m, "kfree_huge")
  ELSE [m EXCEPT !.km = kfree_huge(m.km, pa[1]),
                 !.mem = Zero(@, IF kfree_huge(m.km, pa[1]).hugepagelist[pa[1]] = 0
                                   THEN SectionPages(pa[1]) ELSE {})]

PageShare(m, pa) ==
  IF pa \notin Page THEN Panic(m, "incr_pa_ref")
  ELSE [m EXCEPT !.km = incr_pa_ref(m.km, pa)]

HugeShare(m, pa) ==
  IF pa \notin Page THEN Panic(m, "incr_pa_ref")
  ELSE [m EXCEPT !.km = incr_huge_pa_ref(m.km, pa[1])]

-----------------------------------------------------------------------------
(* Page table walks, on x = [m: physical memory, t: a page table].  The    *)
(* result says in ok whether the walk returned an entry.                   *)

\* walk: the level-0 entry of va, creating the table if alloc.  A leaf at
\* level 1 is taken for a table, so that user data is read as entries.
walk(x, va, alloc) ==
  LET e == x.t[blk(va)]
      pa == kalloc_pa(x.m.km)
  IN IF e.k = "table" THEN [m |-> x.m, t |-> x.t, ok |-> TRUE]
     ELSE IF IsLeaf(e)
       THEN [m |-> Panic(x.m, "walk through a leaf"), t |-> x.t, ok |-> FALSE]
     ELSE IF ~alloc \/ pa = NoPage THEN [m |-> x.m, t |-> x.t, ok |-> FALSE]
     ELSE [m |-> PageAlloc(x.m), ok |-> TRUE,
           t |-> [x.t EXCEPT ![blk(va)] = Table(pa, [o \in Off |-> NoPte])]]

\* walk_huge: the level-1 entry of block b; a table found there is freed and
\* its entry made invalid.
walk_huge(x, b) ==
  IF x.t[b].k = "table"
    THEN [m |-> PageFree(x.m, x.t[b].pa), t |-> [x.t EXCEPT ![b] = NoPte]]
    ELSE [m |-> x.m, t |-> x.t]

\* The level-0 entry of va, NoPte if there is no table.
Pte(t, va) == IF t[blk(va)].k = "table" THEN t[blk(va)].ptes[off(va)] ELSE NoPte

\* Write the level-0 entry of va; the pointer dangles if the table has gone.
SetPte(x, va, e) ==
  IF x.t[blk(va)].k = "table"
    THEN [m |-> x.m, t |-> [x.t EXCEPT ![blk(va)].ptes[off(va)] = e]]
    ELSE [m |-> Panic(x.m, "write to a freed page table"), t |-> x.t]

SetHugePte(x, b, e) == [m |-> x.m, t |-> [x.t EXCEPT ![b] = e]]

\* An entry used by pagefault or fork without a test for a failed walk.
NonNull(y) == IF y.ok THEN y ELSE [y EXCEPT !.m = Panic(@, "null page table entry")]

-----------------------------------------------------------------------------
(* Unmapping, as in sys_munmap and proc_freepagetable.                     *)

\* One iteration of the loop over base pages: entries that are not valid are
\* skipped, and stay as they are.
UnmapPage(va, x) ==
  LET y == walk(x, va, FALSE)
      e == Pte(y.t, va)
  IN IF y.ok /\ IsLeaf(e)
       THEN SetPte([m |-> PageFree(y.m, e.pa), t |-> y.t], va, NoPte)
       ELSE [m |-> y.m, t |-> y.t]

\* One iteration of uvmunmap_huge.
UnmapBlock(b, x) ==
  LET y == walk_huge(x, b)
      e == y.t[b]
  IN IF IsLeaf(e) THEN SetHugePte([m |-> HugeFree(y.m, e.pa), t |-> y.t], b, NoPte)
     ELSE y

Unmap(r, x) ==
  IF r = NoRegion THEN x
  ELSE IF ~r.huge THEN FoldSet(UnmapPage, x, PagesOf(r))
  ELSE IF off(r.addr) # 0
    THEN [x EXCEPT !.m = Panic(@, "uvmunmap(huge): not aligned")]
  ELSE FoldSet(UnmapBlock, x, {blk(va) : va \in PagesOf(r)})

\* freewalk: free the tables; any leaf that is left is a panic.
freewalk(x) ==
  IF \E b \in Block : IsLeaf(x.t[b]) \/ (x.t[b].k = "table" /\ \E o \in Off : IsLeaf(x.t[b].ptes[o]))
    THEN [x EXCEPT !.m = Panic(@, "freewalk: leaf")]
    ELSE FoldSet(LAMBDA b, y : walk_huge(y, b), x, Block)

\* proc_freepagetable(pagetable, sz, p): unmap what mmap_list says is mapped.
proc_freepagetable(x, list) ==
  freewalk(FoldSet(LAMBDA s, y : Unmap(list[s], y), x, Slot))

-----------------------------------------------------------------------------
(* The system.                                                             *)

VARIABLES scene,   \* the scene that is played, chosen at the start
          phys,    \* [km: kmem, mem: contents of the pages, panic: message]
          pt,      \* p->pagetable
          list,    \* p->mmap_list
          pstate,  \* p->state: runnable stands for SLEEPING and RUNNING too
          act,     \* what p is in the middle of, in the kernel
          view,    \* what p's program has been promised to see at each page
          sharers  \* the processes that share the page with p (MAP_SHARED)

vars == <<phys, pt, list, pstate, act, view, sharers>>
promises == <<view, sharers>>

Unmapped == -1
User == [op |-> "user"]
NoList == [s \in Slot |-> NoRegion]

\* kmem when user programs start, after kinit.
KmemAfterBoot ==
  [KmemAtBoot EXCEPT !.hugepagelist = [h \in Huge |-> 0],
                     !.pagelist = [p \in Page |-> 1],
                     !.freemem = NHUGE * PPH + PPH]

Init ==
  /\ scene \in Scene
  /\ phys = [km |-> KmemAfterBoot, mem |-> [p \in Page |-> 0], panic |-> ""]
  /\ pt = [p \in Proc |-> EmptyPagetable]
  /\ list = [p \in Proc |-> NoList]
  /\ pstate = [p \in Proc |-> IF p = 1 THEN "runnable"
                           ELSE IF p \in DOMAIN scene.ops THEN "unused" ELSE "gone"]
  /\ act = [p \in Proc |-> User]
  /\ view = [p \in Proc |-> [va \in VA |-> Unmapped]]
  /\ sharers = [p \in Proc |-> [va \in VA |-> {}]]

\* mmaplock is held across the connect loop, p->lock of the child by fork.
MmaplockFree == \A p \in Proc : act[p].op # "connect"
LockFree(p) == \A q \in Proc : act[q].op = "fork" => act[q].np # p

\* Whoever is inside fork or pagefault occupies a hart, interrupts off.
HartFree == Cardinality({p \in Proc : act[p].op # "user"}) < scene.harts
Uses(p, op) == p \in DOMAIN scene.ops /\ op \in scene.ops[p]
Up == phys.panic = ""
Runs(p) == Up /\ HartFree /\ pstate[p] = "runnable" /\ act[p] = User

Here(p) == [m |-> phys, t |-> pt[p]]
Lowest(S) == {q \in S : \A r \in S : q <= r}
Unused == {q \in Proc : pstate[q] = "unused"}
Gone == {q \in Proc : pstate[q] = "gone"}

\* The program of p no longer has the pages S.
Forget(p, S) ==
  /\ view' = [view EXCEPT ![p] = [va \in VA |-> IF va \in S THEN Unmapped ELSE @[va]]]
  /\ sharers' = [q \in Proc |-> [va \in VA |->
                  IF va \notin S THEN sharers[q][va]
                  ELSE IF q = p THEN {} ELSE sharers[q][va] \ {p}]]

\* The shell starts another program, if there is none or the run has several.
Spawn ==
  /\ Up /\ HartFree
  /\ \E q \in Lowest(Unused) :
       /\ Uses(q, "spawn") \/ Unused \cup Gone = Proc
       /\ pstate' = [pstate EXCEPT ![q] = "runnable"]
  /\ UNCHANGED <<phys, pt, list, act, promises>>

Rounded(r) == IF r.huge THEN [r EXCEPT !.len = PPH * ((@ + PPH - 1) \div PPH)] ELSE r

\* The two overlap tests of sys_mmap.
Overlaps(p, r) ==
  \E s \in Slot :
    LET q == list[p][s]
    IN \/ q.addr <= r.addr /\ r.addr < q.addr + q.len
       \/ r.addr <= q.addr /\ q.addr < r.addr + r.len

\* sys_mmap, when it returns an address: it does so even if mmap_list is full.
sys_mmap(p, q) ==
  LET r == Rounded(q)
  IN /\ Runs(p) /\ MmaplockFree
     /\ Uses(p, "mmap")
     /\ r.len > 0
     /\ ~Overlaps(p, r)
     /\ list' = [list EXCEPT ![p] = [s \in Slot |->
                  IF s \in Lowest({i \in Slot : @[i] = NoRegion}) THEN r ELSE @[s]]]
     /\ view' = [view EXCEPT ![p] = [va \in VA |-> IF va \in PagesOf(r) THEN 0 ELSE @[va]]]
     /\ sharers' = [sharers EXCEPT ![p] = [va \in VA |->
                     IF va \in PagesOf(r) /\ r.flag = "shared" THEN {p} ELSE @[va]]]
     /\ UNCHANGED <<phys, pt, pstate, act>>

\* sys_munmap of the region in slot s.
sys_munmap(p, s) ==
  LET x == Unmap(list[p][s], Here(p))
  IN /\ Uses(p, "munmap")
     /\ Runs(p) /\ MmaplockFree
     /\ list[p][s] # NoRegion
     /\ phys' = x.m
     /\ pt' = [pt EXCEPT ![p] = x.t]
     /\ list' = [list EXCEPT ![p][s] = NoRegion]
     /\ Forget(p, PagesOf(list[p][s]))
     /\ UNCHANGED <<pstate, act>>

\* The leaf that translates va, NoPte if the access faults.
Translation(t, va) == IF IsLeaf(t[blk(va)]) THEN t[blk(va)] ELSE Pte(t, va)

\* The physical page that va is in.
Frame(t, va) ==
  IF IsLeaf(t[blk(va)]) /\ t[blk(va)].pa # NoPage
    THEN <<t[blk(va)].pa[1], off(va)>> ELSE Translation(t, va).pa

Hit(p, va, write) ==
  LET e == Translation(pt[p], va) IN IsLeaf(e) /\ (write => e.w)

\* What the programs are promised once p has written 1 at va.
Promise(p, va) ==
  view' = [q \in Proc |-> [view[q] EXCEPT ![va] =
            IF @ # Unmapped /\ q \in sharers[p][va] \cup {p} THEN 1 ELSE @]]

\* A store that the hardware completes.
Store(p, va) ==
  /\ Runs(p)
  /\ Hit(p, va, TRUE)
  /\ Frame(pt[p], va) # NoPage
  /\ phys' = [phys EXCEPT !.mem[Frame(pt[p], va)] = 1]
  /\ Promise(p, va)
  /\ UNCHANGED <<pt, list, pstate, act, sharers>>

\* walkaddr: the physical page of va, NoPage (0) if it finds none.
walkaddr(t, va) == IF IsLeaf(Pte(t, va)) THEN Pte(t, va).pa ELSE NoPage

\* copyout of the value 1 to va, say by read(): walkaddr ignores PTE_W.
copyout(p, va) ==
  LET y == walk(Here(p), va, FALSE)
      pa == walkaddr(y.t, va)
  IN /\ Uses(p, "copyout")
     /\ Runs(p)
     /\ IF pa # NoPage
          THEN phys' = [y.m EXCEPT !.mem[pa] = 1] /\ Promise(p, va)
          ELSE phys' = y.m /\ UNCHANGED view
     /\ UNCHANGED <<pt, list, pstate, act, sharers>>

-----------------------------------------------------------------------------
(* pagefault.  The outcome is one of done, kill, connect.                  *)

Outcome(x, o) == [m |-> x.m, t |-> x.t, o |-> o]

\* Mutant: the old frame is not dropped.
cow_base_leak(x, r, va, e) ==
  LET new == kalloc_pa(x.m.km)
      copied == [PageAlloc(x.m) EXCEPT !.mem[new] = x.m.mem[e.pa]]
  IN IF new = NoPage THEN [x EXCEPT !.m = Panic(@, "memmove to 0")]
     ELSE SetPte([m |-> copied, t |-> x.t], va, MapLeaf(new, r))

\* The copy-on-write branches: copy to a new frame, drop the old one.
cow_base(x, r, va, e) ==
  LET new == kalloc_pa(x.m.km)
      copied == [PageAlloc(x.m) EXCEPT !.mem[new] = x.m.mem[e.pa]]
  IN IF new = NoPage THEN [x EXCEPT !.m = Panic(@, "memmove to 0")]
     ELSE SetPte([m |-> PageFree(copied, e.pa), t |-> x.t], va, MapLeaf(new, r))

cow_huge(x, r, b, e) ==
  LET new == Section(kalloc_huge_pa(x.m.km))
      copied == [HugeAlloc(x.m) EXCEPT !.mem = [p \in Page |->
                  IF p[1] = new[1] THEN x.m.mem[<<e.pa[1], p[2]>>] ELSE @[p]]]
  IN IF new = NoPage THEN [x EXCEPT !.m = Panic(@, "memmove to 0")]
     ELSE SetHugePte([m |-> HugeFree(copied, e.pa), t |-> x.t], b, MapLeaf(new, r))

\* A fault on a base page of region r.  The result of kalloc is not tested.
fault_base(x, r, va, write) ==
  LET y == NonNull(walk(x, va, TRUE))
      z == [m |-> y.m, t |-> y.t]
      e == Pte(y.t, va)
  IN IF ~IsLeaf(e)
       THEN Outcome(SetPte([m |-> PageAlloc(z.m), t |-> z.t], va, MapLeaf(kalloc_pa(z.m.km), r)),
                    IF IsMarker(e) THEN "connect" ELSE "done")
     ELSE IF ~write \/ e.w THEN Outcome(z, "done")
     ELSE IF e.cow THEN Outcome(cow_base(z, r, va, e), "done")
     ELSE Outcome(z, "kill")

fault_huge(x, r, va, write) ==
  LET b == blk(va)
      z == walk_huge(x, b)
      e == z.t[b]
  IN IF ~IsLeaf(e)
       THEN Outcome(SetHugePte([m |-> HugeAlloc(z.m), t |-> z.t], b,
                               MapLeaf(Section(kalloc_huge_pa(z.m.km)), r)),
                    IF IsMarker(e) THEN "connect" ELSE "done")
     ELSE IF ~write \/ e.w THEN Outcome(z, "done")
     ELSE IF e.cow THEN Outcome(cow_huge(z, r, b, e), "done")
     ELSE Outcome(z, "kill")

\* The first region of mmap_list that contains va.
RegionsAt(p, va) == Lowest({s \in Slot : va \in PagesOf(list[p][s])})

\* pagefault on a load or store at va, up to the connect loop; a killed process
\* exits on its way back to user space.
pagefault(p, va, write) ==
  LET s == CHOOSE i \in RegionsAt(p, va) : TRUE
      r == list[p][s]
      f == IF RegionsAt(p, va) = {} THEN Outcome(Here(p), "kill")
           ELSE IF r.huge THEN fault_huge(Here(p), r, va, write)
           ELSE fault_base(Here(p), r, va, write)
  IN /\ Runs(p) /\ MmaplockFree
     /\ ~Hit(p, va, write)
     /\ phys' = f.m
     /\ pt' = [pt EXCEPT ![p] = f.t]
     /\ act' = IF f.o = "connect"
                 THEN [act EXCEPT ![p] = [op |-> "connect", va |-> va, huge |-> r.huge, i |-> 1]]
                 ELSE act
     /\ pstate' = IF f.o = "kill" THEN [pstate EXCEPT ![p] = "zombie"] ELSE pstate
     /\ UNCHANGED <<list, promises>>

\* The connect loop is at a process whose lock it can take.
ConnectReady(p) == Up /\ act[p].op = "connect" /\ LockFree(act[p].i)


\* Process i's entry for va becomes a copy of p's if it is a marker.
connect_base(p, i, va) ==
  LET y == walk(Here(i), va, FALSE)
      e == Pte(pt[p], va)
  IN IF y.ok /\ IsMarker(Pte(y.t, va))
       THEN SetPte([m |-> PageShare(y.m, e.pa), t |-> y.t], va, e)
       ELSE [m |-> y.m, t |-> y.t]

connect_huge(p, i, va) ==
  LET y == walk_huge(Here(i), blk(va))
      e == pt[p][blk(va)]
  IN IF IsMarker(y.t[blk(va)])
       THEN SetHugePte([m |-> HugeShare(y.m, e.pa), t |-> y.t], blk(va), e)
       ELSE y

\* One iteration of the connect loop, for process i = act[p].i.
connect(p) ==
  LET a == act[p]
      i == a.i
      x == IF i = p \/ pstate[i] \in {"unused", "gone"} THEN Here(i)
           ELSE IF a.huge THEN connect_huge(p, i, a.va) ELSE connect_base(p, i, a.va)
  IN /\ ConnectReady(p)
     /\ phys' = x.m
     /\ pt' = [pt EXCEPT ![i] = x.t]
     /\ act' = [act EXCEPT ![p] = IF i = NPROC THEN User ELSE [a EXCEPT !.i = i + 1]]
     /\ UNCHANGED <<list, pstate, promises>>

-----------------------------------------------------------------------------
(* fork, exec, exit and wait.                                              *)

\* fork, once it has the child's lock, waits for no other lock.
ForkReady(p) == Up /\ act[p].op = "fork"

\* The entries fork visits: base pages one by one, huge regions block by block.
ForkVisits(p) ==
  {<<s, va>> \in Slot \X VA : /\ va \in PagesOf(list[p][s])
                              /\ list[p][s].huge => (va - list[p][s].addr) % PPH = 0}

\* fork up to the copy of the mmap regions; mmap_list is copied with them.
ForkBegin(p) ==
  /\ Runs(p)
  /\ \/ Uses(p, "forkfresh")
     \/ \A va \in VA : sharers[p][va] # {} => IsLeaf(Translation(pt[p], va))
  /\ \E np \in Lowest(Unused) :
       /\ LockFree(np)
       /\ pstate' = [pstate EXCEPT ![np] = "used"]
       /\ list' = [list EXCEPT ![np] = list[p]]
       /\ act' = [act EXCEPT ![p] = [op |-> "fork", np |-> np, todo |-> ForkVisits(p),
                                     step |-> "page"]]
  /\ UNCHANGED <<phys, pt, promises>>

\* The visit fork is at, and act when it is done.
ForkAt(p) ==
  CHOOSE c \in act[p].todo :
    \A d \in act[p].todo : c[1] < d[1] \/ (c[1] = d[1] /\ c[2] <= d[2])

\* Mutant: the address is not advanced.
ForkAdvance_stuck(p) == [act EXCEPT ![p].step = "page"]

ForkAdvance(p) == [act EXCEPT ![p].todo = @ \ {ForkAt(p)}, ![p].step = "page"]

\* Mutant: the pages stay writable.
ForkedLeaf_writable(e, r) == e

\* The leaf that parent and child have after fork: private writable pages
\* become copy-on-write (create_pte_flag(flags, 0, 1)).
ForkedLeaf(e, r) ==
  IF r.flag = "private" /\ r.prot = "rw" THEN Leaf(e.pa, FALSE, TRUE) ELSE e

\* A visit to a base page: x the parent, c the child's page table.
fork_base(x, c, r, va) ==
  LET y0 == walk(x, va, FALSE)
      y == IF r.flag = "shared" /\ ~y0.ok THEN NonNull(walk(x, va, TRUE)) ELSE y0
      e == ForkedLeaf(Pte(y.t, va), r)
      n == NonNull(walk([m |-> y.m, t |-> c], va, TRUE))
      new == SetPte([m |-> PageShare(n.m, e.pa), t |-> n.t], va, e)
  IN IF IsLeaf(Pte(y.t, va))
       THEN [m |-> new.m, t |-> SetPte(y, va, e).t, c |-> new.t, mark |-> FALSE]
       ELSE [m |-> y.m, t |-> y.t, c |-> c, mark |-> r.flag = "shared"]

fork_huge(x, c, r, b) ==
  LET y == walk_huge(x, b)
      e == ForkedLeaf(y.t[b], r)
      n == walk_huge([m |-> y.m, t |-> c], b)
      new == SetHugePte([m |-> HugeShare(n.m, e.pa), t |-> n.t], b, e)
  IN IF IsLeaf(y.t[b])
       THEN [m |-> new.m, t |-> SetHugePte(y, b, e).t, c |-> new.t, mark |-> FALSE]
       ELSE [m |-> y.m, t |-> y.t, c |-> c, mark |-> r.flag = "shared"]

\* fork looks at one entry; a shared one that is not valid needs two more steps.
ForkPage(p) ==
  LET np == act[p].np
      r == list[p][ForkAt(p)[1]]
      va == ForkAt(p)[2]
      f == IF r.huge THEN fork_huge(Here(p), pt[np], r, blk(va))
           ELSE fork_base(Here(p), pt[np], r, va)
  IN /\ ForkReady(p) /\ act[p].step = "page" /\ act[p].todo # {}
     /\ phys' = f.m
     /\ pt' = [pt EXCEPT ![p] = f.t, ![np] = f.c]
     /\ act' = IF f.mark THEN [act EXCEPT ![p].step = "mark"] ELSE ForkAdvance(p)
     /\ UNCHANGED <<list, pstate, promises>>

\* *pte = create_pte_flag(flags, 1, 0), whatever *pte has become.
ForkMark(p) ==
  LET r == list[p][ForkAt(p)[1]]
      va == ForkAt(p)[2]
      x == IF r.huge THEN SetHugePte(Here(p), blk(va), MarkerOf(r))
           ELSE SetPte(Here(p), va, MarkerOf(r))
  IN /\ ForkReady(p) /\ act[p].step = "mark"
     /\ phys' = x.m
     /\ pt' = [pt EXCEPT ![p] = x.t]
     /\ act' = [act EXCEPT ![p].step = "copy"]
     /\ UNCHANGED <<list, pstate, promises>>

\* *new_pte = *pte, whatever *pte has become.
ForkCopy(p) ==
  LET np == act[p].np
      r == list[p][ForkAt(p)[1]]
      va == ForkAt(p)[2]
      x == IF r.huge THEN SetHugePte(walk_huge(Here(np), blk(va)), blk(va), pt[p][blk(va)])
           ELSE SetPte(NonNull(walk(Here(np), va, TRUE)), va, Pte(pt[p], va))
  IN /\ ForkReady(p) /\ act[p].step = "copy"
     /\ phys' = x.m
     /\ pt' = [pt EXCEPT ![np] = x.t]
     /\ act' = ForkAdvance(p)
     /\ UNCHANGED <<list, pstate, promises>>

\* The child becomes RUNNABLE, with the memory its parent sees now.
ForkEnd(p) ==
  LET np == act[p].np
  IN /\ ForkReady(p) /\ act[p].todo = {}
     /\ pstate' = [pstate EXCEPT ![np] = "runnable"]
     /\ act' = [act EXCEPT ![p] = User]
     /\ view' = [view EXCEPT ![np] = view[p]]
     /\ sharers' = [q \in Proc |-> [va \in VA |->
                     IF p \in sharers[p][va] /\ q \in sharers[p][va] \cup {np}
                       THEN sharers[p][va] \cup {np} ELSE sharers[q][va]]]
     /\ UNCHANGED <<phys, pt, list>>

\* exec succeeds: the old image goes, with every region of mmap_list.
exec(p) ==
  LET x == proc_freepagetable(Here(p), list[p])
  IN /\ Uses(p, "exec")
     /\ Runs(p)
     /\ phys' = x.m
     /\ pt' = [pt EXCEPT ![p] = EmptyPagetable]
     /\ list' = [list EXCEPT ![p] = NoList]
     /\ Forget(p, VA)
     /\ UNCHANGED <<pstate, act>>

\* exec fails after it has built a page table, and frees it with
\* proc_freepagetable(pagetable, sz, p): mmap_list is cleared, p's own page
\* table is not touched.
exec_bad(p) ==
  LET x == proc_freepagetable([m |-> phys, t |-> EmptyPagetable], list[p])
  IN /\ Uses(p, "execfail")
     /\ Runs(p)
     /\ phys' = x.m
     /\ list' = [list EXCEPT ![p] = NoList]
     /\ UNCHANGED <<pt, pstate, act, promises>>

\* exit.
exit(p) ==
  /\ Runs(p)
  /\ pstate' = [pstate EXCEPT ![p] = "zombie"]
  /\ UNCHANGED <<phys, pt, list, act, promises>>

\* wait by p's parent, or by init: freeproc.
freeproc(p) ==
  LET x == proc_freepagetable(Here(p), list[p])
  IN /\ Up /\ HartFree
     /\ pstate[p] = "zombie"
     /\ phys' = x.m
     /\ pt' = [pt EXCEPT ![p] = EmptyPagetable]
     /\ list' = [list EXCEPT ![p] = NoList]
     /\ pstate' = [pstate EXCEPT ![p] = IF REUSE THEN "unused" ELSE "gone"]
     /\ Forget(p, VA)
     /\ UNCHANGED act

\* panic() never returns; without REUSE the processes may all be gone.
Halted == (~Up \/ Gone = Proc) /\ UNCHANGED vars

KernelStep(p) ==
  connect(p) \/ ForkPage(p) \/ ForkMark(p) \/ ForkCopy(p) \/ ForkEnd(p)

ProgramStep(p) ==
  \/ \E r \in scene.requests : sys_mmap(p, r)
  \/ \E s \in Slot : sys_munmap(p, s)
  \/ \E va \in VA : Store(p, va) \/ copyout(p, va)
  \/ \E va \in VA, write \in BOOLEAN : pagefault(p, va, write)
  \/ ForkBegin(p) \/ exec(p) \/ exec_bad(p) \/ exit(p)

Next ==
  /\ \/ \E p \in Proc : KernelStep(p) \/ ProgramStep(p) \/ freeproc(p)
     \/ Spawn
     \/ Halted
  /\ UNCHANGED scene

Spec == Init /\ [][Next]_<<scene, vars>>

\* A hart inside the kernel with interrupts off keeps executing: weak fairness
\* of KernelStep(p), with what enables it spelt out (TLC is slow at ENABLED).
FairSpec ==
  /\ Spec
  /\ \A p \in Proc : []<>~(ForkReady(p) \/ ConnectReady(p)) \/ []<><<KernelStep(p)>>_vars

-----------------------------------------------------------------------------
(* Properties.                                                             *)

\* No sequence of mmap, munmap, faults, fork, exec, exit and wait makes the kernel
\* free a frame that is free (double kfree, kfree_huge) or a page table that still
\* has a leaf (freewalk: leaf), and no walk goes astray.  Three things programs may
\* do are left out, because each of them does end in a panic: a fork on one hart
\* while a relative on another touches a page that nobody had touched
\* (MmapForkRace.cfg); munmap of such a page after a fork (MmapUnmapMarker.cfg);
\* and unmapping a huge region whose address is not a multiple of 2 MB, which
\* sys_mmap does not ask for (sysproc.c:148) and uvmunmap_huge does
\* (MmapUnaligned.cfg).
NoPanic == phys.panic = ""

MapsOf(pg) ==
  {<<q, va>> \in Proc \X VA : IsLeaf(Pte(pt[q], va)) /\ Pte(pt[q], va).pa = pg}
TablesAt(pg) == {<<q, b>> \in Proc \X Block : pt[q][b].k = "table" /\ pt[q][b].pa = pg}
BlockMapsOf(h) ==
  {<<q, b>> \in Proc \X Block : IsLeaf(pt[q][b]) /\ pt[q][b].pa = <<h, 0>>}

\* The reference counters of kalloc.c count the page table entries that refer
\* to a frame: none is leaked, none is freed while it is mapped.
RefsExact ==
  Up =>
    /\ \A pg \in Page :
         phys.km.pa_referenced[pg] = Cardinality(MapsOf(pg)) + Cardinality(TablesAt(pg))
    /\ \A h \in Huge : phys.km.huge_pa_referenced[h] = Cardinality(BlockMapsOf(h))

\* What a load by p's program gives: the mapped page, or a page of zeros that
\* pagefault will map, or the process is killed.
Loads(p, va) ==
  LET e == Translation(pt[p], va)
  IN IF IsLeaf(e) THEN (IF e.pa = NoPage THEN Unmapped ELSE phys.mem[Frame(pt[p], va)])
     ELSE IF RegionsAt(p, va) = {} THEN Unmapped
     ELSE 0

\* A program reads what it was promised: zeros after mmap, its own writes, in
\* a shared region also those of the processes it shares it with, and in a
\* private region nobody else's; outside its regions it is killed.  An access
\* that faults waits for mmaplock, and so for a connect loop to end.
MemoryAsPromised ==
  Up => \A p \in Proc, va \in VA :
          pstate[p] = "runnable" /\ (MmaplockFree \/ IsLeaf(Translation(pt[p], va)))
            => Loads(p, va) = view[p][va]

\* walk_huge frees a page table it finds at level 1; "the page hanging off the
\* non-leaf has to be empty" (vm.c): it maps nothing, whoever's table it is.
FreedTableEmpty ==
  [][\A q \in Proc, b \in Block :
       pt[q][b].k = "table" /\ pt'[q][b].k # "table" /\ list'[q] = list[q]
         => \A o \in Off : ~IsLeaf(pt[q][b].ptes[o])]_vars

\* Every fork and every page fault that has begun gets to its end: the connect
\* loop waits for the locks of children being forked, fork for nobody.
KernelReturns == \A p \in Proc : act[p].op # "user" ~> (act[p].op = "user" \/ ~Up)
=============================================================================
