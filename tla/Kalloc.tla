-------------------------------- MODULE Kalloc --------------------------------
(***************************************************************************)
(* The physical memory allocator of kernel/kalloc.c as a state machine:    *)
(* kinit frees every page, then any number of clients (the rest of the     *)
(* kernel) allocate frames, add references to frames they hold and free    *)
(* them.  A client may also free a frame nobody holds; the code panics.    *)
(***************************************************************************)
EXTENDS Kmem

CONSTANT MAXREF   \* most references clients hold to one frame (NPROC = 64)

ASSUME KallocAssumption ==
  /\ MAXREF \in Nat \ {0}
  /\ MAXREF < REFMOD

VARIABLES kmem,      \* the allocator's state
          booted,    \* kinit has returned
          panicked,  \* the kernel has panicked, and spins for ever
          held,      \* references the clients hold to each page
          hugeheld,  \* references the clients hold to each section
          stray      \* a client has freed a frame it held no reference to

vars == <<kmem, booted, panicked, held, hugeheld, stray>>
ghosts == <<held, hugeheld, stray>>

Init ==
  /\ kmem = KmemAtBoot
  /\ booted = FALSE
  /\ panicked = FALSE
  /\ held = [p \in Page |-> 0]
  /\ hugeheld = [h \in Huge |-> 0]
  /\ stray = FALSE

Below(p, q) == p[1] < q[1] \/ (p[1] = q[1] /\ p[2] < q[2])

\* One iteration of freerange: pages are freed in address order.
Freerange(p) ==
  /\ ~booted /\ ~panicked
  /\ kmem.pagelist[p] = 0
  /\ \A q \in Page : Below(q, p) => kmem.pagelist[q] = 1
  /\ kmem' = kfree(kmem, p)
  /\ UNCHANGED <<booted, panicked, ghosts>>

\* Mutant: used4k keeps the value that freerange's kfree calls left.
KinitDone_noreset ==
  /\ ~booted /\ ~panicked
  /\ \A p \in Page : kmem.pagelist[p] = 1
  /\ kmem' = [kmem EXCEPT !.freemem = @ + PPH]
  /\ booted' = TRUE
  /\ UNCHANGED <<panicked, ghosts>>

\* The end of kinit: used4k and freemem are patched up.
KinitDone ==
  /\ ~booted /\ ~panicked
  /\ \A p \in Page : kmem.pagelist[p] = 1
  /\ kmem' = [kmem EXCEPT !.used4k = 0, !.freemem = @ + PPH]
  /\ booted' = TRUE
  /\ UNCHANGED <<panicked, ghosts>>

Running == booted /\ ~panicked

\* A client calls kalloc.
Kalloc ==
  /\ Running
  /\ kmem' = kalloc(kmem)
  /\ held' = IF kalloc_pa(kmem) = NoPage THEN held
             ELSE [held EXCEPT ![kalloc_pa(kmem)] = @ + 1]
  /\ UNCHANGED <<booted, panicked, hugeheld, stray>>

\* A client calls kfree(p); it holds a reference to p unless the call is stray.
Kfree(p) ==
  /\ Running
  /\ IF kfree_panics(kmem, p)
       THEN panicked' = TRUE /\ UNCHANGED kmem
       ELSE panicked' = FALSE /\ kmem' = kfree(kmem, p)
  /\ held' = [held EXCEPT ![p] = IF @ > 0 THEN @ - 1 ELSE @]
  /\ stray' = (held[p] = 0)
  /\ UNCHANGED <<booted, hugeheld>>

\* fork or pagefault maps a page once more (incr_pa_ref).
IncrPaRef(p) ==
  /\ Running
  /\ held[p] \in 1 .. MAXREF - 1
  /\ kmem' = incr_pa_ref(kmem, p)
  /\ held' = [held EXCEPT ![p] = @ + 1]
  /\ UNCHANGED <<booted, panicked, hugeheld, stray>>

\* A client calls kalloc_huge.
KallocHuge ==
  /\ Running
  /\ kmem' = kalloc_huge(kmem)
  /\ hugeheld' = IF kalloc_huge_pa(kmem) = NoHuge THEN hugeheld
                 ELSE [hugeheld EXCEPT ![kalloc_huge_pa(kmem)] = @ + 1]
  /\ UNCHANGED <<booted, panicked, held, stray>>

\* A client calls kfree_huge(h); it holds a reference unless the call is stray.
KfreeHuge(h) ==
  /\ Running
  /\ IF kfree_huge_panics(kmem, h)
       THEN panicked' = TRUE /\ UNCHANGED kmem
       ELSE panicked' = FALSE /\ kmem' = kfree_huge(kmem, h)
  /\ hugeheld' = [hugeheld EXCEPT ![h] = IF @ > 0 THEN @ - 1 ELSE @]
  /\ stray' = (hugeheld[h] = 0)
  /\ UNCHANGED <<booted, held>>

\* fork or pagefault maps a huge page once more (incr_huge_pa_ref).
IncrHugePaRef(h) ==
  /\ Running
  /\ hugeheld[h] \in 1 .. MAXREF - 1
  /\ kmem' = incr_huge_pa_ref(kmem, h)
  /\ hugeheld' = [hugeheld EXCEPT ![h] = @ + 1]
  /\ UNCHANGED <<booted, panicked, held, stray>>

\* panic() never returns.
Halted == panicked /\ UNCHANGED vars

Next ==
  \/ \E p \in Page : Freerange(p) \/ Kfree(p) \/ IncrPaRef(p)
  \/ KinitDone \/ Kalloc \/ KallocHuge
  \/ \E h \in Huge : KfreeHuge(h) \/ IncrHugePaRef(h)
  \/ Halted

Spec == Init /\ [][Next]_vars

-----------------------------------------------------------------------------
(* Properties.                                                             *)

AllocatedIn(km, h) == {k \in 0 .. PPH - 1 : km.pagelist[<<h, k>>] = 0}
AllocatedPages(km) == {p \in Page : km.pagelist[p] = 0}
HugeSections(km) == {h \in Huge : km.hugepagelist[h] = -1}
FreePages(km) ==
  {p \in Page : km.pagelist[p] = 1 /\ km.hugepagelist[p[1]] # -1}

\* Type invariant: in particular hugepagelist stays within -1..512, the range
\* debug_hugepagechecker panics outside of.
TypeOK ==
  /\ kmem \in Kmem
  /\ booted \in BOOLEAN /\ panicked \in BOOLEAN /\ stray \in BOOLEAN
  /\ held \in [Page -> 0 .. MAXREF]
  /\ hugeheld \in [Huge -> 0 .. MAXREF]

\* hugepagelist, which both searches of kalloc and kalloc_huge trust, agrees
\* with pagelist: it counts the allocated pages of a section, and a section
\* allocated as a huge page has none.
SectionCountExact ==
  \A h \in Huge :
    IF kmem.hugepagelist[h] = -1 THEN AllocatedIn(kmem, h) = {}
    ELSE kmem.hugepagelist[h] = Cardinality(AllocatedIn(kmem, h))

\* What sys_kcall reports is exact once kinit is done: used4k and used2m count
\* the allocated pages and sections, freemem the free pages plus the PPH pages
\* below the first section (kinit adds them although they hold the kernel).
CountersExact ==
  booted => /\ kmem.used4k = Cardinality(AllocatedPages(kmem))
            /\ kmem.used2m = Cardinality(HugeSections(kmem))
            /\ kmem.freemem = PPH + Cardinality(FreePages(kmem))

\* A frame is allocated exactly while somebody holds a reference to it: kfree
\* and kfree_huge free a shared frame with its last reference, not before.
HeldIffAllocated ==
  booted => /\ \A p \in Page :
                 /\ kmem.pa_referenced[p] = held[p]
                 /\ held[p] > 0 <=> kmem.pagelist[p] = 0
            /\ \A h \in Huge :
                 /\ kmem.huge_pa_referenced[h] = hugeheld[h]
                 /\ hugeheld[h] > 0 <=> kmem.hugepagelist[h] = -1

\* A section is never in use as a huge page and page by page at once.
NoOverlap ==
  \A p \in Page : ~(held[p] > 0 /\ hugeheld[p[1]] > 0)

\* The panics of kfree and kfree_huge fire on every free of a frame nobody
\* holds and on no other call.
PanicIffStray == panicked <=> stray

\* kalloc finds a page whenever one is free, and the page it finds is one that
\* nobody holds, in a section nobody holds.
KallocComplete ==
  Running =>
    IF FreePages(kmem) = {} THEN kalloc_pa(kmem) = NoPage
    ELSE kalloc_pa(kmem) \in FreePages(kmem)

-----------------------------------------------------------------------------
(* What the allocator promises its clients.                                *)

Frames == INSTANCE Frames WITH base <- held, huge <- hugeheld

\* The allocator implements the abstract one of module Frames: a call only
\* hands out frames that nobody holds, and never overlapping ones.
FramesSpec == Frames!Spec
=============================================================================
