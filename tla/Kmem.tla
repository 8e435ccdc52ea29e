--------------------------------- MODULE Kmem ---------------------------------
(***************************************************************************)
(* The operations of kernel/kalloc.c on the structure kmem.                *)
(*                                                                         *)
(* Physical memory is NHUGE sections of PPH base pages (63 sections of 512 *)
(* pages in the kernel).  A section is handed out whole by kalloc_huge or  *)
(* page by page by kalloc.  Every page and every section has a reference   *)
(* counter kept in a char, so modulo REFMOD (256); fork and pagefault add  *)
(* references, kfree and kfree_huge drop them.                             *)
(*                                                                         *)
(* A page is the pair <<section, offset>>: page_i = 512 * section + offset,*)
(* and get_hugepage_i is the first component.                              *)
(*                                                                         *)
(* Each operator takes a kmem value and is the body the code runs with     *)
(* kmem.lock held, hence atomic.  Module Kalloc drives them from clients   *)
(* that hold references, module Mmap from page tables.                     *)
(***************************************************************************)
EXTENDS Integers, FiniteSets

CONSTANTS NHUGE,   \* number of sections (63)
          PPH,     \* base pages per section (512)
          REFMOD   \* modulus of a reference counter (256, a char)

ASSUME KmemAssumption ==
  /\ NHUGE \in Nat \ {0}
  /\ PPH \in Nat \ {0}
  /\ REFMOD \in Nat \ {0, 1}

Huge == 0 .. NHUGE - 1
Page == Huge \X (0 .. PPH - 1)

NoHuge == -1           \* the null pointer, as a section
NoPage == <<-1, -1>>   \* the null pointer, as a page

\* struct kmem, with the three global counters it protects.
Kmem == [hugepagelist       : [Huge -> -1 .. PPH],
         pagelist           : [Page -> {0, 1}],
         pa_referenced      : [Page -> 0 .. REFMOD - 1],
         huge_pa_referenced : [Huge -> 0 .. REFMOD - 1],
         freemem : Int, used4k : Int, used2m : Int]

LowestOf(S) == CHOOSE i \in S : \A j \in S : i <= j

-----------------------------------------------------------------------------

\* The loop at the start of freerange: every section starts as full.
KmemAtBoot ==
  [hugepagelist       |-> [h \in Huge |-> PPH],
   pagelist           |-> [p \in Page |-> 0],
   pa_referenced      |-> [p \in Page |-> 0],
   huge_pa_referenced |-> [h \in Huge |-> 0],
   freemem |-> 0, used4k |-> 0, used2m |-> 0]

\* kfree panics ("double kfree") on a page that is free, which includes every
\* page of a section that is free or allocated as a huge page.
kfree_panics(km, p) == km.pagelist[p] = 1

\* Mutants: the section's count is not updated; the first kfree frees.
kfree_leak(km, p) ==
  LET ref == km.pa_referenced[p]
      left == IF ref > 0 THEN ref - 1 ELSE ref
  IN IF left = 0
       THEN [km EXCEPT !.pa_referenced[p] = left, !.pagelist[p] = 1,
                       !.freemem = @ + 1, !.used4k = @ - 1]
       ELSE [km EXCEPT !.pa_referenced[p] = left]

kfree_eager(km, p) ==
  [km EXCEPT !.pa_referenced[p] = IF @ > 0 THEN @ - 1 ELSE @, !.pagelist[p] = 1,
             !.hugepagelist[p[1]] = @ - 1, !.freemem = @ + 1, !.used4k = @ - 1]

\* kfree: drop one reference; the last one frees the page.
kfree(km, p) ==
  LET ref == km.pa_referenced[p]
      left == IF ref > 0 THEN ref - 1 ELSE ref
  IN IF left = 0
       THEN [km EXCEPT !.pa_referenced[p] = left, !.pagelist[p] = 1,
                       !.hugepagelist[p[1]] = @ - 1,
                       !.freemem = @ + 1, !.used4k = @ - 1]
       ELSE [km EXCEPT !.pa_referenced[p] = left]

\* Mutant: the bound is off by one.
PartlyUsed_short(km) ==
  {h \in Huge : 0 < km.hugepagelist[h] /\ km.hugepagelist[h] < PPH - 1}
\* Sections with some but not all pages allocated: kalloc's first search.
PartlyUsed(km) ==
  {h \in Huge : 0 < km.hugepagelist[h] /\ km.hugepagelist[h] < PPH}

\* Sections with no page allocated: kalloc's second search.
Empty(km) == {h \in Huge : km.hugepagelist[h] = 0}

\* The section kalloc takes a page from, NoHuge if both searches fail.
kalloc_section(km) ==
  IF PartlyUsed(km) # {} THEN LowestOf(PartlyUsed(km))
  ELSE IF Empty(km) # {} THEN LowestOf(Empty(km))
  ELSE NoHuge

\* Mutant: allocated pages are not skipped.
FreeOffsets_all(km, h) == 0 .. PPH - 1

FreeOffsets(km, h) == {k \in 0 .. PPH - 1 : km.pagelist[<<h, k>>] = 1}

\* The linear search in section h; when no page is free it ends one past the
\* section, on the first page of the next one.
kalloc_page(km, h) ==
  IF FreeOffsets(km, h) = {} THEN <<h + 1, 0>>
  ELSE <<h, LowestOf(FreeOffsets(km, h))>>

\* The page kalloc returns.
kalloc_pa(km) ==
  IF kalloc_section(km) = NoHuge THEN NoPage
  ELSE kalloc_page(km, kalloc_section(km))

\* kalloc's effect when it takes page p of section h: a page that already has
\* references only gains one and is not marked allocated.
kalloc_take(km, p, h) ==
  LET ref == (km.pa_referenced[p] + 1) % REFMOD
  IN IF ref = 1
       THEN [km EXCEPT !.pa_referenced[p] = ref, !.pagelist[p] = 0,
                       !.hugepagelist[h] = @ + 1,
                       !.freemem = @ - 1, !.used4k = @ + 1]
       ELSE [km EXCEPT !.pa_referenced[p] = ref]

\* kalloc: the state after the call.
kalloc(km) ==
  IF kalloc_section(km) = NoHuge THEN km
  ELSE kalloc_take(km, kalloc_pa(km), kalloc_section(km))

\* The section kalloc_huge returns, NoHuge if none is empty.
kalloc_huge_pa(km) == IF Empty(km) = {} THEN NoHuge ELSE LowestOf(Empty(km))

\* kalloc_huge: the state after the call.
kalloc_huge(km) ==
  LET h == kalloc_huge_pa(km)
  IN IF h = NoHuge THEN km
     ELSE [km EXCEPT !.hugepagelist[h] = -1,
                     !.huge_pa_referenced[h] = (@ + 1) % REFMOD,
                     !.freemem = @ - PPH, !.used2m = @ + 1]

\* kfree_huge panics on a section that is not allocated as a huge page.
kfree_huge_panics(km, h) == km.hugepagelist[h] # -1

\* Mutant: freemem is not updated.
kfree_huge_leak(km, h) ==
  LET ref == km.huge_pa_referenced[h]
      left == IF ref > 0 THEN ref - 1 ELSE ref
  IN IF left = 0
       THEN [km EXCEPT !.huge_pa_referenced[h] = left, !.hugepagelist[h] = 0,
                       !.used2m = @ - 1]
       ELSE [km EXCEPT !.huge_pa_referenced[h] = left]

\* kfree_huge: drop one reference; the last one frees the section.
kfree_huge(km, h) ==
  LET ref == km.huge_pa_referenced[h]
      left == IF ref > 0 THEN ref - 1 ELSE ref
  IN IF left = 0
       THEN [km EXCEPT !.huge_pa_referenced[h] = left, !.hugepagelist[h] = 0,
                       !.freemem = @ + PPH, !.used2m = @ - 1]
       ELSE [km EXCEPT !.huge_pa_referenced[h] = left]

\* incr_pa_ref: one more mapping of page p.
incr_pa_ref(km, p) == [km EXCEPT !.pa_referenced[p] = (@ + 1) % REFMOD]

\* incr_huge_pa_ref: one more mapping of section h.
incr_huge_pa_ref(km, h) ==
  [km EXCEPT !.huge_pa_referenced[h] = (@ + 1) % REFMOD]
=============================================================================
