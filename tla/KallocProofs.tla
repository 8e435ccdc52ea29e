----------------------------- MODULE KallocProofs -----------------------------
(***************************************************************************)
(* Proofs about the allocator (module Kalloc), for every number of         *)
(* sections, pages per section and references.                             *)
(*                                                                         *)
(* IInv below is inductive.  It joins the properties of Kalloc, none of    *)
(* which is inductive alone: kfree keeps hugepagelist in its range because *)
(* a page that is allocated is counted, and it frees the right page        *)
(* because the reference counter is what the clients hold.  BootInv is     *)
(* what holds before kinit is done, when pages are freed that nobody ever  *)
(* allocated.                                                              *)
(***************************************************************************)
EXTENDS Kalloc, FiniteSetTheorems, TLAPS

\* The linear searches of kalloc and kalloc_huge end on an entry that
\* satisfies their test, if there is one.
LEMMA LowestOfIsIn ==
  ASSUME NEW S \in SUBSET Nat, S # {}
  PROVE  LowestOf(S) \in S
<1>1. PICK x \in S : \A y \in S : <<y, x>> \notin OpToRel(<, Nat)
  BY NatLessThanWellFounded, WFMin, Zenon
<1>2. \A y \in S : x <= y
  <2>. SUFFICES ASSUME NEW y \in S PROVE x <= y
    BY Zenon
  <2>1. <<y, x>> \notin {ss \in Nat \X Nat : ss[1] < ss[2]}
    BY <1>1, Zenon DEF OpToRel
  <2>. QED BY <2>1
<1>. QED BY <1>2, ZenonT(40) DEF LowestOf

\* hugepagelist and pagelist are finite arrays.
LEMMA FiniteUniverse ==
  /\ IsFiniteSet(Huge)
  /\ IsFiniteSet(0 .. PPH - 1) /\ Cardinality(0 .. PPH - 1) = PPH
  /\ IsFiniteSet(Page)
<1>1. IsFiniteSet(Huge)
  BY KmemAssumption, KallocAssumption, FS_Interval DEF Huge
<1>2. IsFiniteSet(0 .. PPH - 1) /\ Cardinality(0 .. PPH - 1) = PPH
  BY KmemAssumption, KallocAssumption, FS_Interval
<1>3. IsFiniteSet(Page)
  BY <1>1, <1>2, FS_Product, ZenonT(40) DEF Page
<1>. QED BY <1>1, <1>2, <1>3, Zenon

\* Allocating one more page or section adds one to a count.
LEMMA CardAdd ==
  ASSUME NEW S, IsFiniteSet(S), NEW x, x \notin S
  PROVE  Cardinality(S \cup {x}) = Cardinality(S) + 1
BY FS_AddElement, Zenon

\* Freeing one takes one from a count.
LEMMA CardRemove ==
  ASSUME NEW S, IsFiniteSet(S), NEW x, x \in S
  PROVE  Cardinality(S \ {x}) = Cardinality(S) - 1
BY FS_RemoveElement, Zenon

\* The pages of section h.
SectionPages(h) == {p \in Page : p[1] = h}

\* A section consists of PPH pages (get_hugepage_i divides by 512).
LEMMA SectionSize ==
  ASSUME NEW h \in Huge
  PROVE  IsFiniteSet(SectionPages(h)) /\ Cardinality(SectionPages(h)) = PPH
<1>. DEFINE f == [k \in 0 .. PPH - 1 |-> <<h, k>>]
<1>1. f \in Bijection(0 .. PPH - 1, SectionPages(h))
  BY DEF Bijection, Injection, Surjection, SectionPages, Page, IsInjective
<1>2. ExistsBijection(0 .. PPH - 1, SectionPages(h))
  BY <1>1, Zenon DEF ExistsBijection
<1>. QED BY <1>2, FiniteUniverse, FS_Bijection, Zenon

\* SectionCountExact of a kmem value.
Counts(km) ==
  \A h \in Huge :
    IF km.hugepagelist[h] = -1 THEN AllocatedIn(km, h) = {}
    ELSE km.hugepagelist[h] = Cardinality(AllocatedIn(km, h))

\* The sets that the counters of kalloc.c count are finite.
LEMMA FiniteParts ==
  ASSUME NEW km
  PROVE  /\ \A h : /\ IsFiniteSet(AllocatedIn(km, h))
                   /\ Cardinality(AllocatedIn(km, h)) \in 0 .. PPH
         /\ IsFiniteSet(AllocatedPages(km)) /\ Cardinality(AllocatedPages(km)) \in Nat
         /\ IsFiniteSet(FreePages(km)) /\ Cardinality(FreePages(km)) \in Nat
         /\ IsFiniteSet(HugeSections(km)) /\ Cardinality(HugeSections(km)) \in Nat
<1>1. ASSUME NEW h
      PROVE  /\ IsFiniteSet(AllocatedIn(km, h))
             /\ Cardinality(AllocatedIn(km, h)) \in 0 .. PPH
  <2>1. AllocatedIn(km, h) \in SUBSET (0 .. PPH - 1)
    BY Zenon DEF AllocatedIn
  <2>2. /\ IsFiniteSet(AllocatedIn(km, h))
        /\ Cardinality(AllocatedIn(km, h)) <= PPH
    BY <2>1, FiniteUniverse, FS_Subset, ZenonT(40)
  <2>. QED BY <2>2, FS_CardinalityType, KmemAssumption, KallocAssumption
<1>2. AllocatedPages(km) \in SUBSET Page /\ FreePages(km) \in SUBSET Page
  BY Zenon DEF AllocatedPages, FreePages
<1>3. HugeSections(km) \in SUBSET Huge
  BY Zenon DEF HugeSections
<1>4. IsFiniteSet(AllocatedPages(km)) /\ IsFiniteSet(FreePages(km))
  BY <1>2, FiniteUniverse, FS_Subset, Zenon
<1>5. IsFiniteSet(HugeSections(km))
  BY <1>3, FiniteUniverse, FS_Subset, Zenon
<1>. QED BY <1>1, <1>4, <1>5, FS_CardinalityType, Zenon

\* A page has a section and an offset in it (get_page_i, get_hugepage_i).
LEMMA PageParts ==
  ASSUME NEW p \in Page
  PROVE  p[1] \in Huge /\ p[2] \in 0 .. PPH - 1 /\ p = <<p[1], p[2]>>
BY DEF Page

\* What the assignments at the end of kfree do to the sets that are counted:
\* one page is free that was not, and its section's count is one less.
LEMMA PageFreed ==
  ASSUME NEW km \in Kmem, Counts(km), NEW p \in Page, km.pagelist[p] = 0,
         NEW km2,
         \A q \in Page : km2.pagelist[q] = IF q = p THEN 1 ELSE km.pagelist[q],
         \A h \in Huge : km2.hugepagelist[h] =
            IF h = p[1] THEN km.hugepagelist[h] - 1 ELSE km.hugepagelist[h]
  PROVE  /\ \A h \in Huge : km2.hugepagelist[h] \in -1 .. PPH
         /\ Counts(km2)
         /\ HugeSections(km2) = HugeSections(km)
         /\ Cardinality(AllocatedPages(km2)) = Cardinality(AllocatedPages(km)) - 1
         /\ Cardinality(FreePages(km2)) = Cardinality(FreePages(km)) + 1
<1>. USE PageParts
<1>0. /\ km.pagelist \in [Page -> {0, 1}]
      /\ km.hugepagelist \in [Huge -> -1 .. PPH]
  BY Zenon DEF Kmem
<1>2. p[2] \in AllocatedIn(km, p[1])
  BY Zenon DEF AllocatedIn
<1>3. /\ km.hugepagelist[p[1]] # -1
      /\ km.hugepagelist[p[1]] = Cardinality(AllocatedIn(km, p[1]))
  BY <1>2, Zenon DEF Counts
<1>4. /\ AllocatedIn(km2, p[1]) = AllocatedIn(km, p[1]) \ {p[2]}
      /\ \A h \in Huge : h # p[1] => AllocatedIn(km2, h) = AllocatedIn(km, h)
  BY <1>0 DEF AllocatedIn, Page
<1>5. Cardinality(AllocatedIn(km2, p[1])) = Cardinality(AllocatedIn(km, p[1])) - 1
  BY <1>2, <1>4, CardRemove, FiniteParts, ZenonT(40)
<1>6. km2.hugepagelist[p[1]] = Cardinality(AllocatedIn(km2, p[1]))
  BY <1>0, <1>3, <1>5, Zenon
<1>7. Cardinality(AllocatedIn(km2, p[1])) \in 0 .. PPH
  BY FiniteParts, Zenon
<1>8. \A h \in Huge : km2.hugepagelist[h] \in -1 .. PPH
  BY <1>0, <1>6, <1>7
<1>9. Counts(km2)
  <2>. SUFFICES ASSUME NEW h \in Huge
       PROVE  IF km2.hugepagelist[h] = -1 THEN AllocatedIn(km2, h) = {}
              ELSE km2.hugepagelist[h] = Cardinality(AllocatedIn(km2, h))
    BY Zenon DEF Counts
  <2>1. CASE h = p[1]
    BY <1>6, <1>7, <2>1
  <2>2. CASE h # p[1]
    BY <1>0, <1>4, <2>2, Zenon DEF Counts
  <2>. QED BY <2>1, <2>2, Zenon
<1>10. HugeSections(km2) = HugeSections(km)
  BY <1>0, <1>3, <1>6, <1>7 DEF HugeSections
<1>11. AllocatedPages(km2) = AllocatedPages(km) \ {p} /\ p \in AllocatedPages(km)
  BY <1>0 DEF AllocatedPages
<1>12. FreePages(km2) = FreePages(km) \cup {p} /\ p \notin FreePages(km)
  BY <1>0, <1>3, <1>6, <1>7 DEF FreePages
<1>13. Cardinality(AllocatedPages(km2)) = Cardinality(AllocatedPages(km)) - 1
  BY <1>11, CardRemove, FiniteParts, ZenonT(40)
<1>14. Cardinality(FreePages(km2)) = Cardinality(FreePages(km)) + 1
  BY <1>12, CardAdd, FiniteParts, ZenonT(40)
<1>. QED
  BY <1>8, <1>9, <1>10, <1>13, <1>14, Zenon

\* The same for the assignments of kalloc.
LEMMA PageTaken ==
  ASSUME NEW km \in Kmem, Counts(km), NEW p \in Page, km.pagelist[p] = 1,
         km.hugepagelist[p[1]] # -1,
         NEW km2,
         \A q \in Page : km2.pagelist[q] = IF q = p THEN 0 ELSE km.pagelist[q],
         \A h \in Huge : km2.hugepagelist[h] =
            IF h = p[1] THEN km.hugepagelist[h] + 1 ELSE km.hugepagelist[h]
  PROVE  /\ \A h \in Huge : km2.hugepagelist[h] \in -1 .. PPH
         /\ Counts(km2)
         /\ HugeSections(km2) = HugeSections(km)
         /\ Cardinality(AllocatedPages(km2)) = Cardinality(AllocatedPages(km)) + 1
         /\ Cardinality(FreePages(km2)) = Cardinality(FreePages(km)) - 1
<1>. USE PageParts
<1>0. /\ km.pagelist \in [Page -> {0, 1}]
      /\ km.hugepagelist \in [Huge -> -1 .. PPH]
  BY Zenon DEF Kmem
<1>2. p[2] \notin AllocatedIn(km, p[1])
  BY DEF AllocatedIn
<1>3. km.hugepagelist[p[1]] = Cardinality(AllocatedIn(km, p[1]))
  BY Zenon DEF Counts
<1>4. /\ AllocatedIn(km2, p[1]) = AllocatedIn(km, p[1]) \cup {p[2]}
      /\ \A h \in Huge : h # p[1] => AllocatedIn(km2, h) = AllocatedIn(km, h)
  BY <1>0 DEF AllocatedIn, Page
<1>5. Cardinality(AllocatedIn(km2, p[1])) = Cardinality(AllocatedIn(km, p[1])) + 1
  BY <1>2, <1>4, CardAdd, FiniteParts, ZenonT(40)
<1>6. km2.hugepagelist[p[1]] = Cardinality(AllocatedIn(km2, p[1]))
  BY <1>0, <1>3, <1>5, Zenon
<1>7. Cardinality(AllocatedIn(km2, p[1])) \in 0 .. PPH
  BY FiniteParts, Zenon
<1>8. \A h \in Huge : km2.hugepagelist[h] \in -1 .. PPH
  BY <1>0, <1>6, <1>7
<1>9. Counts(km2)
  <2>. SUFFICES ASSUME NEW h \in Huge
       PROVE  IF km2.hugepagelist[h] = -1 THEN AllocatedIn(km2, h) = {}
              ELSE km2.hugepagelist[h] = Cardinality(AllocatedIn(km2, h))
    BY Zenon DEF Counts
  <2>1. CASE h = p[1]
    BY <1>6, <1>7, <2>1
  <2>2. CASE h # p[1]
    BY <1>0, <1>4, <2>2, Zenon DEF Counts
  <2>. QED BY <2>1, <2>2, Zenon
<1>10. HugeSections(km2) = HugeSections(km)
  BY <1>0, <1>6, <1>7 DEF HugeSections
<1>11. AllocatedPages(km2) = AllocatedPages(km) \cup {p} /\ p \notin AllocatedPages(km)
  BY <1>0 DEF AllocatedPages
<1>12. FreePages(km2) = FreePages(km) \ {p} /\ p \in FreePages(km)
  BY <1>0, <1>6, <1>7 DEF FreePages
<1>13. Cardinality(AllocatedPages(km2)) = Cardinality(AllocatedPages(km)) + 1
  BY <1>11, CardAdd, FiniteParts, ZenonT(40)
<1>14. Cardinality(FreePages(km2)) = Cardinality(FreePages(km)) - 1
  BY <1>12, CardRemove, FiniteParts, ZenonT(40)
<1>. QED
  BY <1>8, <1>9, <1>10, <1>13, <1>14, Zenon

\* The same for kalloc_huge: a section is taken whole, with PPH free pages.
LEMMA SectionTaken ==
  ASSUME NEW km \in Kmem, Counts(km), NEW h \in Huge, km.hugepagelist[h] = 0,
         NEW km2, \A q \in Page : km2.pagelist[q] = km.pagelist[q],
         \A g \in Huge : km2.hugepagelist[g] =
            IF g = h THEN -1 ELSE km.hugepagelist[g]
  PROVE  /\ Counts(km2)
         /\ AllocatedPages(km2) = AllocatedPages(km)
         /\ Cardinality(HugeSections(km2)) = Cardinality(HugeSections(km)) + 1
         /\ Cardinality(FreePages(km2)) = Cardinality(FreePages(km)) - PPH
<1>0. /\ km.pagelist \in [Page -> {0, 1}]
      /\ km.hugepagelist \in [Huge -> -1 .. PPH]
  BY Zenon DEF Kmem
<1>2. \A g \in Huge : AllocatedIn(km2, g) = AllocatedIn(km, g)
  BY Zenon DEF AllocatedIn, Page
<1>3. AllocatedIn(km, h) = {}
  <2>1. Cardinality(AllocatedIn(km, h)) = 0
    BY SMTT(40) DEF Counts
  <2>. QED BY <2>1, FiniteParts, FS_EmptySet, Zenon
<1>4. Counts(km2)
  BY <1>0, <1>2, <1>3, Zenon DEF Counts
<1>5. AllocatedPages(km2) = AllocatedPages(km)
  BY Zenon DEF AllocatedPages
<1>6. HugeSections(km2) = HugeSections(km) \cup {h} /\ h \notin HugeSections(km)
  BY <1>0, SMTT(40) DEF HugeSections
<1>7. Cardinality(HugeSections(km2)) = Cardinality(HugeSections(km)) + 1
  BY <1>6, CardAdd, FiniteParts, Zenon
<1>8. FreePages(km2) = FreePages(km) \ SectionPages(h)
  BY <1>0, PageParts, Zenon DEF FreePages, SectionPages
<1>9. FreePages(km) \cap SectionPages(h) = SectionPages(h)
  <2>. SUFFICES ASSUME NEW p \in SectionPages(h) PROVE p \in FreePages(km)
    BY Zenon
  <2>1. p \in Page /\ p[1] = h
    BY Zenon DEF SectionPages
  <2>2. km.pagelist[p] = 1
    BY <1>0, <1>3, <2>1, PageParts, SMTT(40) DEF AllocatedIn
  <2>. QED BY <2>1, <2>2, SMTT(40) DEF FreePages
<1>10. Cardinality(FreePages(km2)) = Cardinality(FreePages(km)) - PPH
  <2>1. IsFiniteSet(FreePages(km))
    BY FiniteParts, Zenon
  <2>2. Cardinality(FreePages(km) \ SectionPages(h)) =
          Cardinality(FreePages(km)) - Cardinality(FreePages(km) \cap SectionPages(h))
    BY <2>1, FS_Difference, ZenonT(40)
  <2>. QED BY <1>8, <1>9, <2>2, SectionSize, Zenon
<1>. QED BY <1>4, <1>5, <1>7, <1>10, Zenon

\* The same for kfree_huge.
LEMMA SectionFreed ==
  ASSUME NEW km \in Kmem, Counts(km), NEW h \in Huge, km.hugepagelist[h] = -1,
         NEW km2, \A q \in Page : km2.pagelist[q] = km.pagelist[q],
         \A g \in Huge : km2.hugepagelist[g] =
            IF g = h THEN 0 ELSE km.hugepagelist[g]
  PROVE  /\ Counts(km2)
         /\ AllocatedPages(km2) = AllocatedPages(km)
         /\ Cardinality(HugeSections(km2)) = Cardinality(HugeSections(km)) - 1
         /\ Cardinality(FreePages(km2)) = Cardinality(FreePages(km)) + PPH
<1>0. /\ km.pagelist \in [Page -> {0, 1}]
      /\ km.hugepagelist \in [Huge -> -1 .. PPH]
  BY Zenon DEF Kmem
<1>2. \A g \in Huge : AllocatedIn(km2, g) = AllocatedIn(km, g)
  BY Zenon DEF AllocatedIn, Page
<1>3. AllocatedIn(km, h) = {} /\ Cardinality(AllocatedIn(km, h)) = 0
  BY FS_EmptySet, Zenon DEF Counts
<1>4. Counts(km2)
  BY <1>0, <1>2, <1>3, ZenonT(40) DEF Counts
<1>5. AllocatedPages(km2) = AllocatedPages(km)
  BY Zenon DEF AllocatedPages
<1>6. HugeSections(km2) = HugeSections(km) \ {h} /\ h \in HugeSections(km)
  BY <1>0 DEF HugeSections
<1>7. Cardinality(HugeSections(km2)) = Cardinality(HugeSections(km)) - 1
  BY <1>6, CardRemove, FiniteParts, Zenon
<1>8. FreePages(km) = FreePages(km2) \ SectionPages(h)
  BY <1>0, PageParts, Zenon DEF FreePages, SectionPages
<1>9. FreePages(km2) \cap SectionPages(h) = SectionPages(h)
  <2>. SUFFICES ASSUME NEW p \in SectionPages(h) PROVE p \in FreePages(km2)
    BY Zenon
  <2>1. p \in Page /\ p[1] = h
    BY Zenon DEF SectionPages
  <2>2. km.pagelist[p] = 1
    BY <1>0, <1>3, <2>1, PageParts, SMTT(40) DEF AllocatedIn
  <2>. QED BY <1>0, <2>1, <2>2 DEF FreePages
<1>10. Cardinality(FreePages(km)) = Cardinality(FreePages(km2)) - PPH
  <2>1. IsFiniteSet(FreePages(km2))
    BY FiniteParts, Zenon
  <2>2. Cardinality(FreePages(km2) \ SectionPages(h)) =
          Cardinality(FreePages(km2)) - Cardinality(FreePages(km2) \cap SectionPages(h))
    BY <2>1, FS_Difference, ZenonT(40)
  <2>. QED BY <1>8, <1>9, <2>2, SectionSize, Zenon
<1>11. Cardinality(FreePages(km2)) = Cardinality(FreePages(km)) + PPH
  BY <1>10, FiniteParts, KmemAssumption, KallocAssumption, SMTT(40)
<1>. QED BY <1>4, <1>5, <1>7, <1>11, Zenon

\* The two searches of kalloc find a free page in a section that is not in
\* use as a huge page, or there is none.
LEMMA KallocFinds ==
  ASSUME NEW km \in Kmem, Counts(km)
  PROVE  \/ /\ kalloc_section(km) = NoHuge
            /\ kalloc_pa(km) = NoPage
            /\ FreePages(km) = {}
         \/ /\ kalloc_section(km) \in Huge
            /\ kalloc_section(km) # NoHuge
            /\ kalloc_pa(km) \in FreePages(km)
            /\ kalloc_pa(km)[1] = kalloc_section(km)
<1>0. /\ km.pagelist \in [Page -> {0, 1}]
      /\ km.hugepagelist \in [Huge -> -1 .. PPH]
  BY Zenon DEF Kmem
<1>a. PartlyUsed(km) \in SUBSET Nat /\ Empty(km) \in SUBSET Nat
  BY KmemAssumption, KallocAssumption, SMTT(40) DEF PartlyUsed, Empty, Huge
<1>1. CASE PartlyUsed(km) = {} /\ Empty(km) = {}
  <2>1. ASSUME NEW p \in FreePages(km) PROVE FALSE
    <3>1. p \in Page /\ km.pagelist[p] = 1 /\ km.hugepagelist[p[1]] # -1
      BY Zenon DEF FreePages
    <3>2. p[1] \in Huge /\ p[2] \in 0 .. PPH - 1 /\ p = <<p[1], p[2]>>
      BY <3>1, PageParts, Zenon
    <3>3. km.hugepagelist[p[1]] = PPH
      BY <1>0, <1>1, <3>1, <3>2, KmemAssumption, KallocAssumption, SMTT(40) DEF PartlyUsed, Empty
    <3>4. Cardinality(AllocatedIn(km, p[1])) = PPH
      BY <3>1, <3>2, <3>3, Zenon DEF Counts
    <3>5. AllocatedIn(km, p[1]) \in SUBSET (0 .. PPH - 1)
      BY Zenon DEF AllocatedIn
    <3>6. AllocatedIn(km, p[1]) = 0 .. PPH - 1
      BY <3>4, <3>5, FiniteUniverse, FS_Subset, ZenonT(40)
    <3>. QED BY <3>1, <3>2, <3>6, SMTT(40) DEF AllocatedIn
  <2>. QED BY <1>1, <2>1, Zenon DEF kalloc_section, kalloc_pa
<1>2. CASE ~(PartlyUsed(km) = {} /\ Empty(km) = {})
  <2>. DEFINE h == kalloc_section(km)
  <2>1. h \in PartlyUsed(km) \cup Empty(km)
    BY <1>2, <1>a, LowestOfIsIn, Zenon DEF kalloc_section
  <2>2. h \in Huge /\ h # NoHuge /\ km.hugepagelist[h] \in 0 .. PPH - 1
    BY <1>0, <2>1, KmemAssumption, KallocAssumption, SMTT(40) DEF PartlyUsed, Empty, Huge, NoHuge
  <2>3. Cardinality(AllocatedIn(km, h)) # PPH
    BY <2>2, KmemAssumption, KallocAssumption, SMTT(40) DEF Counts
  <2>4. AllocatedIn(km, h) # 0 .. PPH - 1
    BY <2>3, FiniteUniverse, Zenon
  <2>5. PICK k \in 0 .. PPH - 1 : k \notin AllocatedIn(km, h)
    BY <2>4, Zenon DEF AllocatedIn
  <2>6. k \in FreeOffsets(km, h)
    BY <1>0, <2>2, <2>5, Zenon DEF AllocatedIn, FreeOffsets, Page
  <2>7. FreeOffsets(km, h) \in SUBSET Nat /\ FreeOffsets(km, h) # {}
    BY <2>6, SMTT(40) DEF FreeOffsets
  <2>8. LowestOf(FreeOffsets(km, h)) \in FreeOffsets(km, h)
    BY <2>7, LowestOfIsIn, Zenon
  <2>. DEFINE l == LowestOf(FreeOffsets(km, h))
  <2>9. kalloc_pa(km) = <<h, l>>
    BY <2>2, <2>7, Zenon DEF kalloc_pa, kalloc_page
  <2>10. <<h, l>> \in FreePages(km)
    BY <2>2, <2>8 DEF FreeOffsets, FreePages, Page
  <2>. QED BY <2>2, <2>9, <2>10, SMTT(40)
<1>. QED BY <1>1, <1>2, Zenon

\* kfree with the last reference frees the page and keeps the counts exact.
LEMMA KfreeLast ==
  ASSUME NEW km \in Kmem, Counts(km), NEW p \in Page,
         km.pagelist[p] = 0, km.pa_referenced[p] \in {0, 1},
         NEW km2, km2 = kfree(km, p)
  PROVE  /\ km2 \in Kmem /\ Counts(km2)
         /\ \A q \in Page : km2.pagelist[q] = IF q = p THEN 1 ELSE km.pagelist[q]
         /\ \A q \in Page : km2.pa_referenced[q] = IF q = p THEN 0 ELSE km.pa_referenced[q]
         /\ km2.huge_pa_referenced = km.huge_pa_referenced
         /\ HugeSections(km2) = HugeSections(km)
         /\ Cardinality(AllocatedPages(km2)) = Cardinality(AllocatedPages(km)) - 1
         /\ Cardinality(FreePages(km2)) = Cardinality(FreePages(km)) + 1
         /\ km2.freemem = km.freemem + 1
         /\ km2.used4k = km.used4k - 1
         /\ km2.used2m = km.used2m
<1>1. km2 = [km EXCEPT !.pa_referenced[p] = 0, !.pagelist[p] = 1,
                       !.hugepagelist[p[1]] = @ - 1,
                       !.freemem = @ + 1, !.used4k = @ - 1]
  <2>1. (IF km.pa_referenced[p] > 0 THEN km.pa_referenced[p] - 1
         ELSE km.pa_referenced[p]) = 0
    OBVIOUS
  <2>. QED BY <2>1, Zenon DEF kfree
<1>2. /\ km2.pagelist = [km.pagelist EXCEPT ![p] = 1]
      /\ km2.hugepagelist = [km.hugepagelist EXCEPT ![p[1]] = @ - 1]
      /\ km2.pa_referenced = [km.pa_referenced EXCEPT ![p] = 0]
      /\ km2.huge_pa_referenced = km.huge_pa_referenced
      /\ km2.freemem = km.freemem + 1
      /\ km2.used4k = km.used4k - 1
      /\ km2.used2m = km.used2m
  BY <1>1, Zenon DEF Kmem
<1>3. /\ \A q \in Page : km2.pagelist[q] = IF q = p THEN 1 ELSE km.pagelist[q]
      /\ \A h \in Huge : km2.hugepagelist[h] =
            IF h = p[1] THEN km.hugepagelist[h] - 1 ELSE km.hugepagelist[h]
      /\ \A q \in Page : km2.pa_referenced[q] = IF q = p THEN 0 ELSE km.pa_referenced[q]
  BY <1>2, SMTT(40) DEF Kmem
<1>4. /\ \A h \in Huge : km2.hugepagelist[h] \in -1 .. PPH
      /\ Counts(km2)
      /\ HugeSections(km2) = HugeSections(km)
      /\ Cardinality(AllocatedPages(km2)) = Cardinality(AllocatedPages(km)) - 1
      /\ Cardinality(FreePages(km2)) = Cardinality(FreePages(km)) + 1
  BY <1>3, PageFreed, SMTT(40)
<1>5. km2 \in Kmem
  <2>1. km2 = [hugepagelist |-> km2.hugepagelist, pagelist |-> km2.pagelist,
               pa_referenced |-> km2.pa_referenced,
               huge_pa_referenced |-> km2.huge_pa_referenced,
               freemem |-> km2.freemem, used4k |-> km2.used4k, used2m |-> km2.used2m]
    BY <1>1, ZenonT(40) DEF Kmem
  <2>. QED BY <1>2, <1>4, <2>1, KmemAssumption, KallocAssumption, SMTT(40) DEF Kmem
<1>. QED BY <1>2, <1>3, <1>4, <1>5, Zenon

\* km2 differs from km in reference counters only.
SameParts(km2, km) ==
  /\ km2.pagelist = km.pagelist
  /\ km2.hugepagelist = km.hugepagelist
  /\ km2.freemem = km.freemem
  /\ km2.used4k = km.used4k
  /\ km2.used2m = km.used2m

\* A call that only changes a reference counter changes no count.
LEMMA SamePartsFacts ==
  ASSUME NEW km, NEW km2, SameParts(km2, km), Counts(km)
  PROVE  /\ Counts(km2)
         /\ HugeSections(km2) = HugeSections(km)
         /\ AllocatedPages(km2) = AllocatedPages(km)
         /\ FreePages(km2) = FreePages(km)
<1>1. \A h : AllocatedIn(km2, h) = AllocatedIn(km, h)
  BY Zenon DEF SameParts, AllocatedIn
<1>. QED
  BY <1>1, Zenon DEF SameParts, Counts, HugeSections, AllocatedPages, FreePages

\* kalloc takes a free page, gives it one reference and keeps the counts exact.
LEMMA KallocTakes ==
  ASSUME NEW km \in Kmem, Counts(km), NEW p \in Page, NEW km2,
         p = kalloc_pa(km), p # NoPage, km.pa_referenced[p] = 0,
         km2 = kalloc(km)
  PROVE  /\ km2 \in Kmem /\ Counts(km2)
         /\ \A q \in Page : km2.pagelist[q] = IF q = p THEN 0 ELSE km.pagelist[q]
         /\ \A q \in Page : km2.pa_referenced[q] = IF q = p THEN 1 ELSE km.pa_referenced[q]
         /\ km2.huge_pa_referenced = km.huge_pa_referenced
         /\ HugeSections(km2) = HugeSections(km)
         /\ Cardinality(AllocatedPages(km2)) = Cardinality(AllocatedPages(km)) + 1
         /\ Cardinality(FreePages(km2)) = Cardinality(FreePages(km)) - 1
         /\ km2.freemem = km.freemem - 1
         /\ km2.used4k = km.used4k + 1
         /\ km2.used2m = km.used2m
<1>0. kalloc_section(km) # NoHuge /\ p[1] = kalloc_section(km) /\ p \in FreePages(km)
  BY KallocFinds, Zenon
<1>a. km.pagelist[p] = 1 /\ km.hugepagelist[p[1]] # -1
  BY <1>0, Zenon DEF FreePages
<1>b. (km.pa_referenced[p] + 1) % REFMOD = 1
  BY KmemAssumption, KallocAssumption, SMTT(40)
<1>1. km2 = [km EXCEPT !.pa_referenced[p] = 1, !.pagelist[p] = 0,
                       !.hugepagelist[p[1]] = @ + 1,
                       !.freemem = @ - 1, !.used4k = @ + 1]
  BY <1>0, <1>b, ZenonT(40) DEF kalloc, kalloc_take
<1>2. /\ km2.pagelist = [km.pagelist EXCEPT ![p] = 0]
      /\ km2.hugepagelist = [km.hugepagelist EXCEPT ![p[1]] = @ + 1]
      /\ km2.pa_referenced = [km.pa_referenced EXCEPT ![p] = 1]
      /\ km2.huge_pa_referenced = km.huge_pa_referenced
      /\ km2.freemem = km.freemem - 1
      /\ km2.used4k = km.used4k + 1
      /\ km2.used2m = km.used2m
  BY <1>1, ZenonT(40) DEF Kmem
<1>3. /\ \A q \in Page : km2.pagelist[q] = IF q = p THEN 0 ELSE km.pagelist[q]
      /\ \A h \in Huge : km2.hugepagelist[h] =
            IF h = p[1] THEN km.hugepagelist[h] + 1 ELSE km.hugepagelist[h]
      /\ \A q \in Page : km2.pa_referenced[q] = IF q = p THEN 1 ELSE km.pa_referenced[q]
  BY <1>2, SMTT(40) DEF Kmem
<1>4. /\ \A h \in Huge : km2.hugepagelist[h] \in -1 .. PPH
      /\ Counts(km2)
      /\ HugeSections(km2) = HugeSections(km)
      /\ Cardinality(AllocatedPages(km2)) = Cardinality(AllocatedPages(km)) + 1
      /\ Cardinality(FreePages(km2)) = Cardinality(FreePages(km)) - 1
  BY <1>a, <1>3, PageTaken, SMTT(40)
<1>5. km2 \in Kmem
  <2>1. km2 = [hugepagelist |-> km2.hugepagelist, pagelist |-> km2.pagelist,
               pa_referenced |-> km2.pa_referenced,
               huge_pa_referenced |-> km2.huge_pa_referenced,
               freemem |-> km2.freemem, used4k |-> km2.used4k, used2m |-> km2.used2m]
    BY <1>1, ZenonT(40) DEF Kmem
  <2>. QED BY <1>2, <1>4, <2>1, KmemAssumption, KallocAssumption, SMTT(40) DEF Kmem
<1>. QED BY <1>2, <1>3, <1>4, <1>5, Zenon

\* kalloc_huge takes an empty section, gives it one reference and keeps the
\* counts exact.
LEMMA KallocHugeTakes ==
  ASSUME NEW km \in Kmem, Counts(km), NEW h, NEW km2,
         h = kalloc_huge_pa(km), h # NoHuge, km.huge_pa_referenced[h] = 0,
         km2 = kalloc_huge(km)
  PROVE  /\ h \in Huge /\ km.hugepagelist[h] = 0
         /\ km2 \in Kmem /\ Counts(km2)
         /\ km2.pagelist = km.pagelist
         /\ km2.pa_referenced = km.pa_referenced
         /\ \A g \in Huge :
              /\ km2.hugepagelist[g] = IF g = h THEN -1 ELSE km.hugepagelist[g]
              /\ km2.huge_pa_referenced[g] = IF g = h THEN 1 ELSE km.huge_pa_referenced[g]
         /\ AllocatedPages(km2) = AllocatedPages(km)
         /\ Cardinality(HugeSections(km2)) = Cardinality(HugeSections(km)) + 1
         /\ Cardinality(FreePages(km2)) = Cardinality(FreePages(km)) - PPH
         /\ km2.freemem = km.freemem - PPH
         /\ km2.used4k = km.used4k
         /\ km2.used2m = km.used2m + 1
<1>0. h \in Huge /\ km.hugepagelist[h] = 0
  <2>1. Empty(km) # {} /\ h = LowestOf(Empty(km))
    BY Zenon DEF kalloc_huge_pa
  <2>2. Empty(km) \in SUBSET Nat
    BY KmemAssumption, KallocAssumption DEF Empty, Huge
  <2>. QED BY <2>1, <2>2, LowestOfIsIn, Zenon DEF Empty
<1>b. (km.huge_pa_referenced[h] + 1) % REFMOD = 1
  BY KmemAssumption, KallocAssumption
<1>1. km2 = [km EXCEPT !.hugepagelist[h] = -1, !.huge_pa_referenced[h] = 1,
                       !.freemem = @ - PPH, !.used2m = @ + 1]
  BY <1>b, ZenonT(40) DEF kalloc_huge
<1>2. /\ km2.pagelist = km.pagelist
      /\ km2.hugepagelist = [km.hugepagelist EXCEPT ![h] = -1]
      /\ km2.pa_referenced = km.pa_referenced
      /\ km2.huge_pa_referenced = [km.huge_pa_referenced EXCEPT ![h] = 1]
      /\ km2.freemem = km.freemem - PPH
      /\ km2.used4k = km.used4k
      /\ km2.used2m = km.used2m + 1
  BY <1>1, Zenon DEF Kmem
<1>3. \A g \in Huge :
        /\ km2.hugepagelist[g] = IF g = h THEN -1 ELSE km.hugepagelist[g]
        /\ km2.huge_pa_referenced[g] = IF g = h THEN 1 ELSE km.huge_pa_referenced[g]
  BY <1>2, Zenon DEF Kmem
<1>4. /\ Counts(km2)
      /\ AllocatedPages(km2) = AllocatedPages(km)
      /\ Cardinality(HugeSections(km2)) = Cardinality(HugeSections(km)) + 1
      /\ Cardinality(FreePages(km2)) = Cardinality(FreePages(km)) - PPH
  <2>1. \A q \in Page : km2.pagelist[q] = km.pagelist[q]
    BY <1>2, Zenon
  <2>2. \A g \in Huge : km2.hugepagelist[g] = IF g = h THEN -1 ELSE km.hugepagelist[g]
    BY <1>3, Zenon
  <2>. QED BY <1>0, <2>1, <2>2, SectionTaken, SMTT(40)
<1>5. km2 \in Kmem
  <2>1. km2 = [hugepagelist |-> km2.hugepagelist, pagelist |-> km2.pagelist,
               pa_referenced |-> km2.pa_referenced,
               huge_pa_referenced |-> km2.huge_pa_referenced,
               freemem |-> km2.freemem, used4k |-> km2.used4k, used2m |-> km2.used2m]
    BY <1>1, ZenonT(40) DEF Kmem
  <2>. QED BY <1>0, <1>2, <2>1, KmemAssumption, KallocAssumption, SMTT(40) DEF Kmem
<1>. QED BY <1>0, <1>2, <1>3, <1>4, <1>5, Zenon

\* kfree_huge with the last reference frees the section and keeps the counts
\* exact.
LEMMA KfreeHugeLast ==
  ASSUME NEW km \in Kmem, Counts(km), NEW h \in Huge,
         km.hugepagelist[h] = -1, km.huge_pa_referenced[h] \in {0, 1},
         NEW km2, km2 = kfree_huge(km, h)
  PROVE  /\ km2 \in Kmem /\ Counts(km2)
         /\ km2.pagelist = km.pagelist
         /\ km2.pa_referenced = km.pa_referenced
         /\ \A g \in Huge :
              /\ km2.hugepagelist[g] = IF g = h THEN 0 ELSE km.hugepagelist[g]
              /\ km2.huge_pa_referenced[g] = IF g = h THEN 0 ELSE km.huge_pa_referenced[g]
         /\ AllocatedPages(km2) = AllocatedPages(km)
         /\ Cardinality(HugeSections(km2)) = Cardinality(HugeSections(km)) - 1
         /\ Cardinality(FreePages(km2)) = Cardinality(FreePages(km)) + PPH
         /\ km2.freemem = km.freemem + PPH
         /\ km2.used4k = km.used4k
         /\ km2.used2m = km.used2m - 1
<1>1. km2 = [km EXCEPT !.huge_pa_referenced[h] = 0, !.hugepagelist[h] = 0,
                       !.freemem = @ + PPH, !.used2m = @ - 1]
  <2>1. (IF km.huge_pa_referenced[h] > 0 THEN km.huge_pa_referenced[h] - 1
         ELSE km.huge_pa_referenced[h]) = 0
    OBVIOUS
  <2>. QED BY <2>1, Zenon DEF kfree_huge
<1>2. /\ km2.pagelist = km.pagelist
      /\ km2.hugepagelist = [km.hugepagelist EXCEPT ![h] = 0]
      /\ km2.pa_referenced = km.pa_referenced
      /\ km2.huge_pa_referenced = [km.huge_pa_referenced EXCEPT ![h] = 0]
      /\ km2.freemem = km.freemem + PPH
      /\ km2.used4k = km.used4k
      /\ km2.used2m = km.used2m - 1
  BY <1>1, Zenon DEF Kmem
<1>3. \A g \in Huge :
        /\ km2.hugepagelist[g] = IF g = h THEN 0 ELSE km.hugepagelist[g]
        /\ km2.huge_pa_referenced[g] = IF g = h THEN 0 ELSE km.huge_pa_referenced[g]
  BY <1>2, Zenon DEF Kmem
<1>4. /\ Counts(km2)
      /\ AllocatedPages(km2) = AllocatedPages(km)
      /\ Cardinality(HugeSections(km2)) = Cardinality(HugeSections(km)) - 1
      /\ Cardinality(FreePages(km2)) = Cardinality(FreePages(km)) + PPH
  <2>1. \A q \in Page : km2.pagelist[q] = km.pagelist[q]
    BY <1>2, Zenon
  <2>2. \A g \in Huge : km2.hugepagelist[g] = IF g = h THEN 0 ELSE km.hugepagelist[g]
    BY <1>3, Zenon
  <2>. QED BY <2>1, <2>2, SectionFreed, SMTT(40)
<1>5. km2 \in Kmem
  <2>1. km2 = [hugepagelist |-> km2.hugepagelist, pagelist |-> km2.pagelist,
               pa_referenced |-> km2.pa_referenced,
               huge_pa_referenced |-> km2.huge_pa_referenced,
               freemem |-> km2.freemem, used4k |-> km2.used4k, used2m |-> km2.used2m]
    BY <1>1, ZenonT(40) DEF Kmem
  <2>. QED BY <1>2, <2>1, KmemAssumption, KallocAssumption, SMTT(40) DEF Kmem
<1>. QED BY <1>2, <1>3, <1>4, <1>5, Zenon

\* Until kinit is done.
BootInv ==
  ~booted => /\ ~panicked /\ ~stray
             /\ kmem.pa_referenced = [p \in Page |-> 0]
             /\ kmem.huge_pa_referenced = [h \in Huge |-> 0]
             /\ held = [p \in Page |-> 0]
             /\ hugeheld = [h \in Huge |-> 0]
             /\ \A h \in Huge : kmem.hugepagelist[h] # -1
             /\ kmem.used2m = 0
             /\ kmem.freemem = Cardinality(FreePages(kmem))

\* The inductive invariant.
IInv ==
  /\ TypeOK
  /\ SectionCountExact
  /\ CountersExact
  /\ HeldIffAllocated
  /\ PanicIffStray
  /\ BootInv

\* The inductive invariant holds when freerange has marked every section full.
LEMMA InitIInv == Init => IInv
<1>. SUFFICES ASSUME Init PROVE IInv
  BY Zenon
<1>. USE DEF Init
<1>1. TypeOK
  <2>1. kmem \in Kmem
    BY KmemAssumption, KallocAssumption, SMTT(40) DEF KmemAtBoot, Kmem
  <2>2. held \in [Page -> 0 .. MAXREF] /\ hugeheld \in [Huge -> 0 .. MAXREF]
    BY KmemAssumption, KallocAssumption, SMTT(40)
  <2>. QED BY <2>1, <2>2, ZenonT(40) DEF TypeOK
<1>2. \A h \in Huge : kmem.hugepagelist[h] = PPH /\ AllocatedIn(kmem, h) = 0 .. PPH - 1
  BY Zenon DEF KmemAtBoot, AllocatedIn, Page
<1>3. SectionCountExact
  BY <1>2, FiniteUniverse, KmemAssumption, KallocAssumption, SMTT(40) DEF SectionCountExact
<1>4. FreePages(kmem) = {}
  BY SMTT(40) DEF FreePages, KmemAtBoot
<1>5. BootInv
  <2>1. Cardinality(FreePages(kmem)) = 0
    BY <1>4, FS_EmptySet, Zenon
  <2>2. \A h \in Huge : kmem.hugepagelist[h] # -1
    BY <1>2, KmemAssumption, KallocAssumption, SMTT(40)
  <2>. QED BY <2>1, <2>2, Zenon DEF BootInv, KmemAtBoot
<1>. QED
  BY <1>1, <1>3, <1>5, Zenon DEF IInv, CountersExact, HeldIffAllocated, PanicIffStray

\* It is preserved by each kfree of freerange ...
LEMMA FreerangeIInv ==
  ASSUME IInv, NEW p \in Page, Freerange(p)
  PROVE  IInv'
<1>0. /\ kmem \in Kmem /\ Counts(kmem) /\ BootInv /\ ~booted
      /\ kmem.pagelist[p] = 0 /\ kmem' = kfree(kmem, p)
      /\ UNCHANGED <<booted, panicked, held, hugeheld, stray>>
  BY Zenon DEF IInv, TypeOK, SectionCountExact, Counts, Freerange, ghosts
<1>1. kmem.pa_referenced[p] = 0
  BY <1>0, Zenon DEF BootInv
<1>2. /\ kmem' \in Kmem /\ Counts(kmem')
      /\ \A q \in Page : kmem'.pa_referenced[q] = IF q = p THEN 0 ELSE kmem.pa_referenced[q]
      /\ kmem'.huge_pa_referenced = kmem.huge_pa_referenced
      /\ HugeSections(kmem') = HugeSections(kmem)
      /\ Cardinality(FreePages(kmem')) = Cardinality(FreePages(kmem)) + 1
      /\ kmem'.freemem = kmem.freemem + 1
      /\ kmem'.used2m = kmem.used2m
  BY <1>0, <1>1, KfreeLast, SMTT(40)
<1>3. TypeOK'
  BY <1>0, <1>2, Zenon DEF IInv, TypeOK
<1>4. SectionCountExact'
  BY <1>2, Zenon DEF SectionCountExact, Counts
<1>5. kmem'.pa_referenced = [q \in Page |-> 0]
  BY <1>0, <1>2, SMTT(40) DEF BootInv, Kmem
<1>6. \A h \in Huge : kmem'.hugepagelist[h] # -1
  BY <1>0, <1>2, Zenon DEF BootInv, HugeSections
<1>7. BootInv'
  BY <1>0, <1>2, <1>5, <1>6, Zenon DEF BootInv
<1>. QED
  BY <1>0, <1>3, <1>4, <1>7, Zenon
     DEF IInv, CountersExact, HeldIffAllocated, PanicIffStray

\* ... by the corrections at the end of kinit ...
LEMMA KinitDoneIInv == ASSUME IInv, KinitDone PROVE IInv'
<1>. USE DEF KinitDone, ghosts
<1>0. kmem \in Kmem /\ BootInv /\ Counts(kmem)
  BY Zenon DEF IInv, TypeOK, SectionCountExact, Counts
<1>1. /\ kmem'.pagelist = kmem.pagelist
      /\ kmem'.hugepagelist = kmem.hugepagelist
      /\ kmem'.pa_referenced = kmem.pa_referenced
      /\ kmem'.huge_pa_referenced = kmem.huge_pa_referenced
      /\ kmem'.freemem = kmem.freemem + PPH
      /\ kmem'.used4k = 0
      /\ kmem'.used2m = kmem.used2m
  BY <1>0, Zenon DEF Kmem
<1>2. TypeOK'
  <2>1. kmem' = [hugepagelist |-> kmem'.hugepagelist, pagelist |-> kmem'.pagelist,
                 pa_referenced |-> kmem'.pa_referenced,
                 huge_pa_referenced |-> kmem'.huge_pa_referenced,
                 freemem |-> kmem'.freemem, used4k |-> kmem'.used4k,
                 used2m |-> kmem'.used2m]
    BY <1>0, ZenonT(40) DEF Kmem
  <2>2. kmem' \in Kmem
    BY <1>0, <1>1, <2>1, KmemAssumption, KallocAssumption, SMTT(40) DEF Kmem
  <2>. QED BY <2>2, Zenon DEF IInv, TypeOK
<1>3. SectionCountExact'
  BY <1>0, <1>1, ZenonT(40) DEF Counts, SectionCountExact, AllocatedIn
<1>4. AllocatedPages(kmem') = {} /\ HugeSections(kmem') = {}
  BY <1>0, <1>1, SMTT(40) DEF AllocatedPages, HugeSections, BootInv
<1>5. FreePages(kmem') = FreePages(kmem)
  BY <1>1, Zenon DEF FreePages
<1>6. CountersExact'
  BY <1>0, <1>1, <1>4, <1>5, FiniteParts, FS_EmptySet, KmemAssumption, KallocAssumption, SMTT(40)
     DEF CountersExact, BootInv
<1>7. HeldIffAllocated'
  BY <1>0, <1>1, SMTT(40) DEF HeldIffAllocated, BootInv
<1>8. PanicIffStray'
  BY Zenon DEF IInv, PanicIffStray
<1>. QED BY <1>2, <1>3, <1>6, <1>7, <1>8, Zenon DEF IInv, BootInv

\* ... by kalloc ...
LEMMA KallocIInv == ASSUME IInv, Kalloc PROVE IInv'
<1>. DEFINE p == kalloc_pa(kmem)
<1>0. /\ kmem \in Kmem /\ Counts(kmem) /\ booted /\ ~panicked
      /\ CountersExact /\ HeldIffAllocated /\ PanicIffStray
      /\ kmem' = kalloc(kmem)
      /\ UNCHANGED <<booted, panicked, hugeheld, stray>>
      /\ held \in [Page -> 0 .. MAXREF] /\ hugeheld \in [Huge -> 0 .. MAXREF]
  BY Zenon DEF IInv, TypeOK, SectionCountExact, Counts, Kalloc, Running
<1>1. CASE FreePages(kmem) = {}
  <2>1. kalloc_section(kmem) = NoHuge /\ p = NoPage
    BY <1>0, <1>1, KallocFinds, Zenon
  <2>2. UNCHANGED vars
    BY <1>0, <2>1, Zenon DEF kalloc, vars, Kalloc
  <2>. QED
    BY <2>2, Zenon DEF vars, IInv, TypeOK, SectionCountExact, CountersExact,
                HeldIffAllocated, PanicIffStray, BootInv
<1>2. CASE FreePages(kmem) # {}
  <2>1. p \in FreePages(kmem) /\ p # NoPage /\ kalloc_section(kmem) # NoHuge
    <3>1. p \in FreePages(kmem) /\ kalloc_section(kmem) # NoHuge
      BY <1>0, <1>2, KallocFinds, Zenon
    <3>2. p \in Huge \X (0 .. PPH - 1)
      BY <3>1, Zenon DEF FreePages, Page
    <3>3. p[1] # -1
      BY <3>2 DEF Huge
    <3>. QED BY <3>1, <3>3, SMTT(40) DEF NoPage
  <2>2. p \in Page /\ kmem.pagelist[p] = 1
    BY <2>1, Zenon DEF FreePages
  <2>3. kmem.pa_referenced[p] = 0 /\ held[p] = 0
    BY <1>0, <2>2, SMTT(40) DEF HeldIffAllocated
  <2>4. held' = [held EXCEPT ![p] = 1]
    BY <2>1, <2>3, SMTT(40) DEF Kalloc
  <2>. HIDE DEF p
  <2>5. /\ kmem' \in Kmem /\ Counts(kmem')
        /\ \A q \in Page : kmem'.pagelist[q] = IF q = p THEN 0 ELSE kmem.pagelist[q]
        /\ \A q \in Page : kmem'.pa_referenced[q] = IF q = p THEN 1 ELSE kmem.pa_referenced[q]
        /\ kmem'.huge_pa_referenced = kmem.huge_pa_referenced
        /\ HugeSections(kmem') = HugeSections(kmem)
        /\ Cardinality(AllocatedPages(kmem')) = Cardinality(AllocatedPages(kmem)) + 1
        /\ Cardinality(FreePages(kmem')) = Cardinality(FreePages(kmem)) - 1
        /\ kmem'.freemem = kmem.freemem - 1
        /\ kmem'.used4k = kmem.used4k + 1
        /\ kmem'.used2m = kmem.used2m
    BY <1>0, <2>1, <2>2, <2>3, KallocTakes, SMTT(40) DEF p
  <2>6. TypeOK'
    BY <1>0, <2>2, <2>4, <2>5, KmemAssumption, KallocAssumption, SMTT(40) DEF IInv, TypeOK
  <2>7. SectionCountExact'
    BY <2>5, Zenon DEF SectionCountExact, Counts
  <2>8. CountersExact'
    BY <1>0, <2>5, FiniteParts, KmemAssumption, KallocAssumption, SMTT(40) DEF CountersExact
  <2>9. HeldIffAllocated'
    <3>1. \A h \in Huge : kmem'.hugepagelist[h] = -1 <=> kmem.hugepagelist[h] = -1
      BY <2>5, Zenon DEF HugeSections
    <3>2. \A q \in Page : held'[q] = IF q = p THEN 1 ELSE held[q]
      BY <1>0, <2>4, Zenon
    <3>. QED BY <1>0, <2>2, <2>5, <3>1, <3>2, SMTT(40) DEF HeldIffAllocated
  <2>. QED BY <1>0, <2>6, <2>7, <2>8, <2>9, Zenon DEF IInv, PanicIffStray, BootInv
<1>. QED BY <1>1, <1>2, Zenon

\* ... by kfree, with a reference or without ...
LEMMA KfreeIInv == ASSUME IInv, NEW p \in Page, Kfree(p) PROVE IInv'
<1>0. /\ kmem \in Kmem /\ Counts(kmem) /\ booted /\ ~panicked /\ booted'
      /\ CountersExact /\ HeldIffAllocated /\ PanicIffStray
      /\ hugeheld' = hugeheld
      /\ held \in [Page -> 0 .. MAXREF] /\ hugeheld \in [Huge -> 0 .. MAXREF]
  BY Zenon DEF IInv, TypeOK, SectionCountExact, Counts, Kfree, Running
<1>1. kmem.pa_referenced[p] = held[p] /\ (held[p] > 0 <=> kmem.pagelist[p] = 0)
  BY <1>0, Zenon DEF HeldIffAllocated
<1>2. kmem.pagelist[p] \in {0, 1} /\ held[p] \in 0 .. MAXREF
  BY <1>0, Zenon DEF Kmem
<1>a. stray' = (held[p] = 0) /\ panicked' \in BOOLEAN
  BY ZenonT(40) DEF Kfree
<1>b. held' = [held EXCEPT ![p] = IF held[p] > 0 THEN held[p] - 1 ELSE held[p]]
  BY Zenon DEF Kfree
<1>3. CASE held[p] = 0
  <2>1. kmem' = kmem /\ held' = held /\ panicked' = TRUE /\ stray' = TRUE
    <3>1. kfree_panics(kmem, p)
      BY <1>1, <1>2, <1>3, SMTT(40) DEF kfree_panics
    <3>2. held' = held
      BY <1>0, <1>3, <1>b, SMTT(40)
    <3>. QED BY <3>1, <3>2, <1>3, <1>a, ZenonT(40) DEF Kfree
  <2>2. TypeOK'
    BY <1>0, <2>1, Zenon DEF IInv, TypeOK
  <2>. QED
    BY <1>0, <2>1, <2>2, Zenon DEF IInv, SectionCountExact, Counts, CountersExact,
       HeldIffAllocated, PanicIffStray, BootInv
<1>4. CASE held[p] > 0
  <2>1. /\ kmem.pagelist[p] = 0 /\ kmem' = kfree(kmem, p)
        /\ panicked' = FALSE /\ stray' = FALSE
        /\ held' = [held EXCEPT ![p] = held[p] - 1]
    <3>1. ~kfree_panics(kmem, p)
      BY <1>1, <1>4, SMTT(40) DEF kfree_panics
    <3>2. kmem' = kfree(kmem, p) /\ panicked' = FALSE
      BY <3>1, Zenon DEF Kfree
    <3>3. stray' = FALSE
      <4>1. held[p] # 0
        BY <1>2, <1>4, SMTT(40)
      <4>. QED BY <4>1, <1>a, Zenon
    <3>4. held' = [held EXCEPT ![p] = held[p] - 1]
      BY <1>4, <1>b, ZenonT(40)
    <3>5. kmem.pagelist[p] = 0
      BY <1>1, <1>4, Zenon
    <3>. QED BY <3>2, <3>3, <3>4, <3>5, Zenon
  <2>2. \A q \in Page : held'[q] = IF q = p THEN held[p] - 1 ELSE held[q]
    BY <1>0, <2>1, Zenon
  <2>3. held' \in [Page -> 0 .. MAXREF]
    <3>1. held[p] - 1 \in 0 .. MAXREF
      BY <1>2, <1>4, KmemAssumption, KallocAssumption, SMTT(40)
    <3>. QED BY <1>0, <2>1, <3>1, Zenon
  <2>4. CASE held[p] = 1
    <3>1. /\ kmem' \in Kmem /\ Counts(kmem')
          /\ \A q \in Page : kmem'.pagelist[q] = IF q = p THEN 1 ELSE kmem.pagelist[q]
          /\ \A q \in Page : kmem'.pa_referenced[q] =
                               IF q = p THEN 0 ELSE kmem.pa_referenced[q]
          /\ kmem'.huge_pa_referenced = kmem.huge_pa_referenced
          /\ HugeSections(kmem') = HugeSections(kmem)
          /\ Cardinality(AllocatedPages(kmem')) = Cardinality(AllocatedPages(kmem)) - 1
          /\ Cardinality(FreePages(kmem')) = Cardinality(FreePages(kmem)) + 1
          /\ kmem'.freemem = kmem.freemem + 1
          /\ kmem'.used4k = kmem.used4k - 1
          /\ kmem'.used2m = kmem.used2m
      BY <1>0, <1>1, <2>1, <2>4, KfreeLast, SMTT(40)
    <3>2. TypeOK'
      BY <1>0, <2>1, <2>3, <3>1, ZenonT(40) DEF TypeOK
    <3>3. SectionCountExact'
      BY <3>1, Zenon DEF SectionCountExact, Counts
    <3>4. CountersExact'
      BY <1>0, <3>1, FiniteParts, KmemAssumption, KallocAssumption, SMTT(40) DEF CountersExact
    <3>5. HeldIffAllocated'
      <4>1. \A h \in Huge : kmem'.hugepagelist[h] = -1 <=> kmem.hugepagelist[h] = -1
        BY <3>1, Zenon DEF HugeSections
      <4>. QED BY <1>0, <2>2, <2>4, <3>1, <4>1, SMTT(40) DEF HeldIffAllocated
    <3>. QED
      BY <1>0, <2>1, <3>2, <3>3, <3>4, <3>5, Zenon DEF IInv, PanicIffStray, BootInv
  <2>5. CASE held[p] > 1
    <3>1. kmem' = [kmem EXCEPT !.pa_referenced[p] = held[p] - 1]
      <4>1. (IF kmem.pa_referenced[p] > 0 THEN kmem.pa_referenced[p] - 1
             ELSE kmem.pa_referenced[p]) = held[p] - 1 /\ held[p] - 1 # 0
        BY <1>1, <1>2, <2>5, SMTT(40)
      <4>. QED BY <2>1, <4>1, Zenon DEF kfree
    <3>2. held[p] - 1 \in 0 .. REFMOD - 1
      BY <1>2, <2>5, KmemAssumption, KallocAssumption, SMTT(40)
    <3>3. /\ kmem' \in Kmem /\ SameParts(kmem', kmem)
          /\ \A q \in Page : kmem'.pa_referenced[q] =
                               IF q = p THEN held[p] - 1 ELSE kmem.pa_referenced[q]
          /\ kmem'.huge_pa_referenced = kmem.huge_pa_referenced
      BY <1>0, <3>1, <3>2, Zenon DEF Kmem, SameParts
    <3>4. TypeOK'
      BY <1>0, <2>1, <2>3, <3>3, ZenonT(40) DEF TypeOK
    <3>5. SectionCountExact' /\ CountersExact'
      BY <1>0, <3>3, SamePartsFacts, ZenonT(40)
         DEF SectionCountExact, Counts, CountersExact, SameParts
    <3>6. HeldIffAllocated'
      BY <1>0, <1>1, <1>2, <2>2, <2>5, <3>3, SMTT(40) DEF HeldIffAllocated, SameParts
    <3>. QED BY <1>0, <2>1, <3>4, <3>5, <3>6, Zenon DEF IInv, PanicIffStray, BootInv
  <2>. QED BY <1>2, <1>4, <2>4, <2>5, SMTT(40)
<1>. QED BY <1>2, <1>3, <1>4, SMTT(40)

\* ... by incr_pa_ref ...
LEMMA IncrPaRefIInv == ASSUME IInv, NEW p \in Page, IncrPaRef(p) PROVE IInv'
<1>0. /\ kmem \in Kmem /\ Counts(kmem) /\ booted /\ ~panicked
      /\ CountersExact /\ HeldIffAllocated /\ PanicIffStray
      /\ UNCHANGED <<booted, panicked, hugeheld, stray>>
      /\ held \in [Page -> 0 .. MAXREF] /\ hugeheld \in [Huge -> 0 .. MAXREF]
      /\ held[p] \in 1 .. MAXREF - 1
      /\ held' = [held EXCEPT ![p] = held[p] + 1]
  BY Zenon DEF IInv, TypeOK, SectionCountExact, Counts, IncrPaRef, Running
<1>1. kmem.pa_referenced[p] = held[p]
  BY <1>0, Zenon DEF HeldIffAllocated
<1>2. (held[p] + 1) % REFMOD = held[p] + 1 /\ held[p] + 1 \in 0 .. REFMOD - 1
  BY <1>0, KmemAssumption, KallocAssumption, SMTT(40)
<1>3. kmem' = [kmem EXCEPT !.pa_referenced[p] = held[p] + 1]
  BY <1>1, <1>2, Zenon DEF IncrPaRef, incr_pa_ref
<1>4. /\ kmem' \in Kmem /\ SameParts(kmem', kmem)
      /\ \A q \in Page : kmem'.pa_referenced[q] =
                           IF q = p THEN held[p] + 1 ELSE kmem.pa_referenced[q]
      /\ kmem'.huge_pa_referenced = kmem.huge_pa_referenced
  BY <1>0, <1>2, <1>3, Zenon DEF Kmem, SameParts
<1>5. TypeOK'
  BY <1>0, <1>4, KmemAssumption, KallocAssumption DEF IInv, TypeOK
<1>6. SectionCountExact' /\ CountersExact'
  BY <1>0, <1>4, SamePartsFacts, Zenon
     DEF SectionCountExact, Counts, CountersExact, SameParts
<1>7. HeldIffAllocated'
  <2>1. \A q \in Page : held'[q] = IF q = p THEN held[p] + 1 ELSE held[q]
    BY <1>0, Zenon
  <2>. QED BY <1>0, <1>4, <2>1 DEF HeldIffAllocated, SameParts
<1>. QED BY <1>0, <1>5, <1>6, <1>7, Zenon DEF IInv, PanicIffStray, BootInv

\* ... by kalloc_huge ...
LEMMA KallocHugeIInv == ASSUME IInv, KallocHuge PROVE IInv'
<1>. DEFINE h == kalloc_huge_pa(kmem)
<1>0. /\ kmem \in Kmem /\ Counts(kmem) /\ booted /\ ~panicked
      /\ CountersExact /\ HeldIffAllocated /\ PanicIffStray
      /\ kmem' = kalloc_huge(kmem)
      /\ UNCHANGED <<booted, panicked, held, stray>>
      /\ held \in [Page -> 0 .. MAXREF] /\ hugeheld \in [Huge -> 0 .. MAXREF]
  BY Zenon DEF IInv, TypeOK, SectionCountExact, Counts, KallocHuge, Running
<1>1. CASE h = NoHuge
  <2>1. UNCHANGED vars
    BY <1>0, <1>1, Zenon DEF kalloc_huge, vars, KallocHuge
  <2>. QED
    BY <2>1, Zenon DEF vars, IInv, TypeOK, SectionCountExact, CountersExact,
                HeldIffAllocated, PanicIffStray, BootInv
<1>2. CASE h # NoHuge
  <2>1. h \in Huge /\ kmem.hugepagelist[h] = 0
    <3>1. Empty(kmem) # {} /\ h = LowestOf(Empty(kmem))
      BY <1>2, Zenon DEF kalloc_huge_pa
    <3>2. Empty(kmem) \in SUBSET Nat
      BY KmemAssumption, KallocAssumption, SMTT(40) DEF Empty, Huge
    <3>3. h \in Empty(kmem)
      BY <3>1, <3>2, LowestOfIsIn, Zenon
    <3>. QED BY <3>3, Zenon DEF Empty
  <2>3. kmem.huge_pa_referenced[h] = 0 /\ hugeheld[h] = 0
    BY <1>0, <2>1, SMTT(40) DEF HeldIffAllocated
  <2>4. hugeheld' = [hugeheld EXCEPT ![h] = 1]
    BY <1>2, <2>3, SMTT(40) DEF KallocHuge
  <2>. HIDE DEF h
  <2>5. /\ kmem' \in Kmem /\ Counts(kmem')
        /\ kmem'.pagelist = kmem.pagelist
        /\ kmem'.pa_referenced = kmem.pa_referenced
        /\ \A g \in Huge :
             /\ kmem'.hugepagelist[g] = IF g = h THEN -1 ELSE kmem.hugepagelist[g]
             /\ kmem'.huge_pa_referenced[g] = IF g = h THEN 1 ELSE kmem.huge_pa_referenced[g]
        /\ AllocatedPages(kmem') = AllocatedPages(kmem)
        /\ Cardinality(HugeSections(kmem')) = Cardinality(HugeSections(kmem)) + 1
        /\ Cardinality(FreePages(kmem')) = Cardinality(FreePages(kmem)) - PPH
        /\ kmem'.freemem = kmem.freemem - PPH
        /\ kmem'.used4k = kmem.used4k
        /\ kmem'.used2m = kmem.used2m + 1
    BY <1>0, <1>2, <2>3, KallocHugeTakes, SMTT(40) DEF h
  <2>6. TypeOK'
    BY <1>0, <2>1, <2>4, <2>5, KmemAssumption, KallocAssumption, SMTT(40) DEF IInv, TypeOK
  <2>7. SectionCountExact'
    BY <2>5, Zenon DEF SectionCountExact, Counts
  <2>8. CountersExact'
    BY <1>0, <2>5, FiniteParts, KmemAssumption, KallocAssumption, SMTT(40) DEF CountersExact
  <2>9. HeldIffAllocated'
    <3>1. \A g \in Huge : hugeheld'[g] = IF g = h THEN 1 ELSE hugeheld[g]
      BY <1>0, <2>4, Zenon
    <3>. QED BY <1>0, <2>5, <3>1, SMTT(40) DEF HeldIffAllocated
  <2>. QED BY <1>0, <2>6, <2>7, <2>8, <2>9, Zenon DEF IInv, PanicIffStray, BootInv
<1>. QED BY <1>1, <1>2, Zenon

\* ... by kfree_huge, with a reference or without ...
LEMMA KfreeHugeIInv == ASSUME IInv, NEW h \in Huge, KfreeHuge(h) PROVE IInv'
<1>0. /\ kmem \in Kmem /\ Counts(kmem) /\ booted /\ ~panicked /\ booted'
      /\ CountersExact /\ HeldIffAllocated /\ PanicIffStray
      /\ held' = held
      /\ held \in [Page -> 0 .. MAXREF] /\ hugeheld \in [Huge -> 0 .. MAXREF]
  BY Zenon DEF IInv, TypeOK, SectionCountExact, Counts, KfreeHuge, Running
<1>1. /\ kmem.huge_pa_referenced[h] = hugeheld[h]
      /\ hugeheld[h] > 0 <=> kmem.hugepagelist[h] = -1
  BY <1>0, Zenon DEF HeldIffAllocated
<1>2. hugeheld[h] \in 0 .. MAXREF
  BY <1>0, Zenon
<1>a. stray' = (hugeheld[h] = 0) /\ panicked' \in BOOLEAN
  BY ZenonT(40) DEF KfreeHuge
<1>b. hugeheld' = [hugeheld EXCEPT ![h] =
                     IF hugeheld[h] > 0 THEN hugeheld[h] - 1 ELSE hugeheld[h]]
  BY Zenon DEF KfreeHuge
<1>3. CASE hugeheld[h] = 0
  <2>1. kmem' = kmem /\ hugeheld' = hugeheld /\ panicked' = TRUE /\ stray' = TRUE
    <3>1. kfree_huge_panics(kmem, h)
      BY <1>1, <1>2, <1>3, SMTT(40) DEF kfree_huge_panics
    <3>2. hugeheld' = hugeheld
      BY <1>0, <1>3, <1>b, SMTT(40)
    <3>. QED BY <3>1, <3>2, <1>3, <1>a, ZenonT(40) DEF KfreeHuge
  <2>2. TypeOK'
    BY <1>0, <2>1, Zenon DEF IInv, TypeOK
  <2>. QED
    BY <1>0, <2>1, <2>2, Zenon DEF IInv, SectionCountExact, Counts, CountersExact,
       HeldIffAllocated, PanicIffStray, BootInv
<1>4. CASE hugeheld[h] > 0
  <2>1. /\ kmem.hugepagelist[h] = -1 /\ kmem' = kfree_huge(kmem, h)
        /\ panicked' = FALSE /\ stray' = FALSE
        /\ hugeheld' = [hugeheld EXCEPT ![h] = hugeheld[h] - 1]
    <3>1. ~kfree_huge_panics(kmem, h)
      BY <1>1, <1>4, Zenon DEF kfree_huge_panics
    <3>2. kmem' = kfree_huge(kmem, h) /\ panicked' = FALSE
      BY <3>1, Zenon DEF KfreeHuge
    <3>3. stray' = FALSE
      <4>1. hugeheld[h] # 0
        BY <1>2, <1>4, SMTT(40)
      <4>. QED BY <4>1, <1>a, Zenon
    <3>4. hugeheld' = [hugeheld EXCEPT ![h] = hugeheld[h] - 1]
      BY <1>4, <1>b, ZenonT(40)
    <3>5. kmem.hugepagelist[h] = -1
      BY <1>1, <1>4, Zenon
    <3>. QED BY <3>2, <3>3, <3>4, <3>5, Zenon
  <2>2. \A g \in Huge : hugeheld'[g] = IF g = h THEN hugeheld[h] - 1 ELSE hugeheld[g]
    BY <1>0, <2>1, Zenon
  <2>3. hugeheld' \in [Huge -> 0 .. MAXREF]
    <3>1. hugeheld[h] - 1 \in 0 .. MAXREF
      BY <1>2, <1>4, KmemAssumption, KallocAssumption, SMTT(40)
    <3>. QED BY <1>0, <2>1, <3>1, Zenon
  <2>4. CASE hugeheld[h] = 1
    <3>1. /\ kmem' \in Kmem /\ Counts(kmem')
          /\ kmem'.pagelist = kmem.pagelist
          /\ kmem'.pa_referenced = kmem.pa_referenced
          /\ \A g \in Huge :
               /\ kmem'.hugepagelist[g] = IF g = h THEN 0 ELSE kmem.hugepagelist[g]
               /\ kmem'.huge_pa_referenced[g] =
                    IF g = h THEN 0 ELSE kmem.huge_pa_referenced[g]
          /\ AllocatedPages(kmem') = AllocatedPages(kmem)
          /\ Cardinality(HugeSections(kmem')) = Cardinality(HugeSections(kmem)) - 1
          /\ Cardinality(FreePages(kmem')) = Cardinality(FreePages(kmem)) + PPH
          /\ kmem'.freemem = kmem.freemem + PPH
          /\ kmem'.used4k = kmem.used4k
          /\ kmem'.used2m = kmem.used2m - 1
      BY <1>0, <1>1, <2>1, <2>4, KfreeHugeLast, SMTT(40)
    <3>2. TypeOK'
      BY <1>0, <2>1, <2>3, <3>1, ZenonT(40) DEF TypeOK
    <3>3. SectionCountExact'
      BY <3>1, Zenon DEF SectionCountExact, Counts
    <3>4. CountersExact'
      BY <1>0, <3>1, FiniteParts, KmemAssumption, KallocAssumption, SMTT(40) DEF CountersExact
    <3>5. HeldIffAllocated'
      BY <1>0, <2>2, <2>4, <3>1, SMTT(40) DEF HeldIffAllocated
    <3>. QED
      BY <1>0, <2>1, <3>2, <3>3, <3>4, <3>5, Zenon DEF IInv, PanicIffStray, BootInv
  <2>5. CASE hugeheld[h] > 1
    <3>1. kmem' = [kmem EXCEPT !.huge_pa_referenced[h] = hugeheld[h] - 1]
      <4>1. (IF kmem.huge_pa_referenced[h] > 0 THEN kmem.huge_pa_referenced[h] - 1
             ELSE kmem.huge_pa_referenced[h]) = hugeheld[h] - 1 /\ hugeheld[h] - 1 # 0
        BY <1>1, <1>2, <2>5, SMTT(40)
      <4>. QED BY <2>1, <4>1, Zenon DEF kfree_huge
    <3>2. hugeheld[h] - 1 \in 0 .. REFMOD - 1
      BY <1>2, <2>5, KmemAssumption, KallocAssumption, SMTT(40)
    <3>3. /\ kmem' \in Kmem /\ SameParts(kmem', kmem)
          /\ \A g \in Huge : kmem'.huge_pa_referenced[g] =
                               IF g = h THEN hugeheld[h] - 1 ELSE kmem.huge_pa_referenced[g]
          /\ kmem'.pa_referenced = kmem.pa_referenced
      BY <1>0, <3>1, <3>2, Zenon DEF Kmem, SameParts
    <3>4. TypeOK'
      BY <1>0, <2>1, <2>3, <3>3, ZenonT(40) DEF TypeOK
    <3>5. SectionCountExact' /\ CountersExact'
      BY <1>0, <3>3, SamePartsFacts, Zenon
         DEF SectionCountExact, Counts, CountersExact, SameParts
    <3>6. HeldIffAllocated'
      BY <1>0, <1>1, <1>2, <2>2, <2>5, <3>3, SMTT(40) DEF HeldIffAllocated, SameParts
    <3>. QED BY <1>0, <2>1, <3>4, <3>5, <3>6, Zenon DEF IInv, PanicIffStray, BootInv
  <2>. QED BY <1>2, <1>4, <2>4, <2>5, SMTT(40)
<1>. QED BY <1>2, <1>3, <1>4, SMTT(40)

\* ... and by incr_huge_pa_ref.
LEMMA IncrHugePaRefIInv ==
  ASSUME IInv, NEW h \in Huge, IncrHugePaRef(h)
  PROVE  IInv'
<1>0. /\ kmem \in Kmem /\ Counts(kmem) /\ booted /\ ~panicked
      /\ CountersExact /\ HeldIffAllocated /\ PanicIffStray
      /\ UNCHANGED <<booted, panicked, held, stray>>
      /\ held \in [Page -> 0 .. MAXREF] /\ hugeheld \in [Huge -> 0 .. MAXREF]
      /\ hugeheld[h] \in 1 .. MAXREF - 1
      /\ hugeheld' = [hugeheld EXCEPT ![h] = hugeheld[h] + 1]
  BY Zenon DEF IInv, TypeOK, SectionCountExact, Counts, IncrHugePaRef, Running
<1>1. kmem.huge_pa_referenced[h] = hugeheld[h]
  BY <1>0, Zenon DEF HeldIffAllocated
<1>2. (hugeheld[h] + 1) % REFMOD = hugeheld[h] + 1 /\ hugeheld[h] + 1 \in 0 .. REFMOD - 1
  BY <1>0, KmemAssumption, KallocAssumption, SMTT(40)
<1>3. kmem' = [kmem EXCEPT !.huge_pa_referenced[h] = hugeheld[h] + 1]
  BY <1>1, <1>2, Zenon DEF IncrHugePaRef, incr_huge_pa_ref
<1>4. /\ kmem' \in Kmem /\ SameParts(kmem', kmem)
      /\ \A g \in Huge : kmem'.huge_pa_referenced[g] =
                           IF g = h THEN hugeheld[h] + 1 ELSE kmem.huge_pa_referenced[g]
      /\ kmem'.pa_referenced = kmem.pa_referenced
  BY <1>0, <1>2, <1>3, Zenon DEF Kmem, SameParts
<1>5. TypeOK'
  BY <1>0, <1>4, KmemAssumption, KallocAssumption DEF IInv, TypeOK
<1>6. SectionCountExact' /\ CountersExact'
  BY <1>0, <1>4, SamePartsFacts, Zenon
     DEF SectionCountExact, Counts, CountersExact, SameParts
<1>7. HeldIffAllocated'
  <2>1. \A g \in Huge : hugeheld'[g] = IF g = h THEN hugeheld[h] + 1 ELSE hugeheld[g]
    BY <1>0, Zenon
  <2>. QED BY <1>0, <1>4, <2>1, SMTT(40) DEF HeldIffAllocated, SameParts
<1>. QED BY <1>0, <1>5, <1>6, <1>7, Zenon DEF IInv, PanicIffStray, BootInv

\* The inductive invariant holds for any number of sections and of pages in
\* one, under every sequence of calls of kalloc.c.
THEOREM InductiveInvariant == Spec => []IInv
<1>1. IInv /\ [Next]_vars => IInv'
  <2>. SUFFICES ASSUME IInv, [Next]_vars PROVE IInv'
    BY Zenon
  <2>1. CASE UNCHANGED vars
    BY <2>1, Zenon DEF vars, IInv, TypeOK, SectionCountExact, CountersExact,
                HeldIffAllocated, PanicIffStray, BootInv
  <2>2. CASE Halted
    BY <2>1, <2>2, Zenon DEF Halted
  <2>. QED
    BY <2>1, <2>2, FreerangeIInv, KfreeIInv, IncrPaRefIInv, KinitDoneIInv,
       KallocIInv, KallocHugeIInv, KfreeHugeIInv, IncrHugePaRefIInv, Zenon DEF Next
<1>. QED BY InitIInv, <1>1, PTL DEF Spec

\* No counter of kmem leaves its range, so debug_hugepagechecker never panics.
THEOREM TypeCorrect == Spec => []TypeOK
BY InductiveInvariant, PTL DEF IInv

\* hugepagelist, which kalloc and kalloc_huge search, always agrees with pagelist.
THEOREM SectionCountsExact == Spec => []SectionCountExact
BY InductiveInvariant, PTL DEF IInv

\* freemem, used4k and used2m, which sys_kcall reports, are exact after kinit.
THEOREM KcallCountersExact == Spec => []CountersExact
BY InductiveInvariant, PTL DEF IInv

\* kfree and kfree_huge free a frame with its last reference and not before.
THEOREM AllocatedWhileHeld == Spec => []HeldIffAllocated
BY InductiveInvariant, PTL DEF IInv

\* kfree and kfree_huge panic on every free of a frame that nobody holds, and
\* never otherwise.
THEOREM PanicsExactly == Spec => []PanicIffStray
BY InductiveInvariant, PTL DEF IInv

\* The inductive invariant keeps huge pages and base pages apart.
LEMMA NoOverlapHolds == IInv => NoOverlap
<1>. SUFFICES ASSUME IInv, NEW p \in Page, held[p] > 0, hugeheld[p[1]] > 0
     PROVE FALSE
  BY Zenon DEF NoOverlap
<1>1. booted
  BY PageParts, SMTT(40) DEF IInv, BootInv
<1>2. kmem.pagelist[p] = 0 /\ kmem.hugepagelist[p[1]] = -1 /\ p[1] \in Huge
  BY <1>1, PageParts, Zenon DEF IInv, HeldIffAllocated
<1>3. p[2] \in AllocatedIn(kmem, p[1])
  BY <1>2, PageParts, Zenon DEF AllocatedIn
<1>. QED BY <1>2, <1>3, Zenon DEF IInv, SectionCountExact

\* kalloc and kalloc_huge never hand out memory twice: no section is in use as
\* a huge page and page by page at once.
THEOREM FramesDisjoint == Spec => []NoOverlap
BY InductiveInvariant, NoOverlapHolds, PTL

\* kalloc returns 0 only when no page is free, and otherwise a free page.
THEOREM KallocFindsPage == Spec => []KallocComplete
<1>1. IInv => KallocComplete
  <2>. SUFFICES ASSUME IInv PROVE KallocComplete
    BY Zenon
  <2>1. kmem \in Kmem /\ Counts(kmem)
    BY Zenon DEF IInv, TypeOK, SectionCountExact, Counts
  <2>. QED BY <2>1, KallocFinds, Zenon DEF KallocComplete
<1>. QED BY <1>1, InductiveInvariant, PTL

\* Every call of kalloc.c is a step of the abstract allocator, or changes
\* nothing that its clients see.
LEMMA StepImplements ==
  ASSUME IInv, IInv', [Next]_vars
  PROVE  [Frames!Next]_(Frames!fvars)
<1>. USE DEF Frames!Huge, Frames!Page, Huge, Page
<1>0. held \in [Page -> 0 .. MAXREF] /\ hugeheld \in [Huge -> 0 .. MAXREF]
  BY Zenon DEF IInv, TypeOK
<1>1. ASSUME NEW p \in Page, Kfree(p) PROVE Frames!Next \/ UNCHANGED Frames!fvars
  <2>1. CASE held[p] > 0
    BY <1>0, <1>1, <2>1, ZenonT(40) DEF Kfree, Frames!Next, Frames!DropPage
  <2>2. CASE ~(held[p] > 0)
    <3>1. held' = [held EXCEPT ![p] = held[p]] /\ hugeheld' = hugeheld
      BY <1>1, <2>2, ZenonT(40) DEF Kfree
    <3>. QED BY <1>0, <3>1, Zenon DEF Frames!fvars
  <2>. QED BY <2>1, <2>2, Zenon
<1>2. ASSUME NEW p \in Page, IncrPaRef(p) PROVE Frames!Next
  <2>1. Frames!SharePage(p)
    BY <1>2, KmemAssumption, KallocAssumption, SMTT(40) DEF IncrPaRef, Frames!SharePage
  <2>. QED BY <2>1, Zenon DEF Frames!Next
<1>3. ASSUME NEW h \in Huge, KfreeHuge(h) PROVE Frames!Next \/ UNCHANGED Frames!fvars
  <2>1. CASE hugeheld[h] > 0
    BY <1>0, <1>3, <2>1, ZenonT(40) DEF KfreeHuge, Frames!Next, Frames!DropHuge
  <2>2. CASE ~(hugeheld[h] > 0)
    <3>1. hugeheld' = [hugeheld EXCEPT ![h] = hugeheld[h]] /\ held' = held
      BY <1>3, <2>2, ZenonT(40) DEF KfreeHuge
    <3>. QED BY <1>0, <3>1, Zenon DEF Frames!fvars
  <2>. QED BY <2>1, <2>2, Zenon
<1>4. ASSUME NEW h \in Huge, IncrHugePaRef(h) PROVE Frames!Next
  <2>1. Frames!ShareHuge(h)
    BY <1>4, KmemAssumption, KallocAssumption, SMTT(40) DEF IncrHugePaRef, Frames!ShareHuge
  <2>. QED BY <2>1, Zenon DEF Frames!Next
<1>5. ASSUME Kalloc PROVE Frames!Next \/ UNCHANGED Frames!fvars
  <2>. DEFINE p == kalloc_pa(kmem)
  <2>0. kmem \in Kmem /\ Counts(kmem) /\ booted /\ HeldIffAllocated
    BY <1>5, Zenon DEF IInv, TypeOK, SectionCountExact, Counts, Kalloc, Running
  <2>1. CASE p = NoPage
    BY <1>5, <2>1, Zenon DEF Kalloc, Frames!fvars
  <2>2. CASE p # NoPage
    <3>1. p \in FreePages(kmem)
      BY <2>0, <2>2, KallocFinds, Zenon
    <3>2. p \in Page /\ kmem.pagelist[p] = 1 /\ kmem.hugepagelist[p[1]] # -1
      BY <3>1, Zenon DEF FreePages
    <3>3. p[1] \in Huge
      BY <3>2, Zenon
    <3>4. held[p] = 0 /\ hugeheld[p[1]] = 0
      BY <1>0, <2>0, <3>2, <3>3, SMTT(40) DEF HeldIffAllocated
    <3>5. held' = [held EXCEPT ![p] = 1] /\ hugeheld' = hugeheld
      BY <1>5, <2>2, <3>4, SMTT(40) DEF Kalloc
    <3>6. Frames!AllocPage(p)
      BY <3>4, <3>5, Zenon DEF Frames!AllocPage
    <3>. QED BY <3>2, <3>6, Zenon DEF Frames!Next
  <2>. QED BY <2>1, <2>2, Zenon
<1>6. ASSUME KallocHuge PROVE Frames!Next \/ UNCHANGED Frames!fvars
  <2>. DEFINE h == kalloc_huge_pa(kmem)
  <2>1. CASE h = NoHuge
    BY <1>6, <2>1, Zenon DEF KallocHuge, Frames!fvars
  <2>2. CASE h # NoHuge
    <3>0. HeldIffAllocated /\ booted /\ SectionCountExact /\ kmem \in Kmem
      BY <1>6, Zenon DEF IInv, KallocHuge, Running, TypeOK
    <3>1. h \in Huge /\ kmem.hugepagelist[h] = 0
      <4>1. Empty(kmem) # {} /\ h = LowestOf(Empty(kmem))
        BY <2>2, Zenon DEF kalloc_huge_pa
      <4>2. Empty(kmem) \in SUBSET Nat
        BY KmemAssumption, KallocAssumption, SMTT(40) DEF Empty
      <4>3. h \in Empty(kmem)
        BY <4>1, <4>2, LowestOfIsIn, Zenon
      <4>. QED BY <4>3, Zenon DEF Empty
    <3>2. hugeheld[h] = 0
      BY <1>0, <3>0, <3>1, SMTT(40) DEF HeldIffAllocated
    <3>3. AllocatedIn(kmem, h) = {}
      <4>1. Cardinality(AllocatedIn(kmem, h)) = 0
        BY <3>0, <3>1, SMTT(40) DEF SectionCountExact
      <4>. QED BY <4>1, FiniteParts, FS_EmptySet, Zenon
    <3>4. ASSUME NEW p \in Page, p[1] = h PROVE held[p] = 0
      <4>1. p[2] \in 0 .. PPH - 1 /\ p = <<h, p[2]>>
        BY <3>4, PageParts, Zenon
      <4>2. kmem.pagelist[p] # 0
        BY <3>3, <4>1, Zenon DEF AllocatedIn
      <4>. QED BY <1>0, <3>0, <4>2, SMTT(40) DEF HeldIffAllocated
    <3>5. hugeheld' = [hugeheld EXCEPT ![h] = 1] /\ held' = held
      BY <1>6, <2>2, <3>2, SMTT(40) DEF KallocHuge
    <3>6. Frames!AllocHuge(h)
      BY <3>2, <3>4, <3>5, Zenon DEF Frames!AllocHuge
    <3>. QED BY <3>1, <3>6, Zenon DEF Frames!Next
  <2>. QED BY <2>1, <2>2, Zenon
<1>7. ASSUME NEW p \in Page, Freerange(p) PROVE UNCHANGED Frames!fvars
  BY <1>7, Zenon DEF Freerange, ghosts, Frames!fvars
<1>8. ASSUME KinitDone PROVE UNCHANGED Frames!fvars
  BY <1>8, Zenon DEF KinitDone, ghosts, Frames!fvars
<1>9. ASSUME Halted \/ UNCHANGED vars PROVE UNCHANGED Frames!fvars
  BY <1>9, Zenon DEF Halted, vars, Frames!fvars
<1>. HIDE DEF Huge, Page
<1>. QED
  BY <1>1, <1>2, <1>3, <1>4, <1>5, <1>6, <1>7, <1>8, <1>9, Zenon DEF Next

\* kalloc.c implements the allocator its clients rely on (module Frames).
THEOREM ImplementsFrames == Spec => FramesSpec
<1>1. Init => Frames!Init
  BY Zenon DEF Init, Frames!Init, Huge, Page, Frames!Huge, Frames!Page
<1>2. IInv /\ IInv' /\ [Next]_vars => [Frames!Next]_(Frames!fvars)
  BY StepImplements, Zenon
<1>. QED BY <1>1, <1>2, InductiveInvariant, PTL DEF Spec, FramesSpec, Frames!Spec
=============================================================================
