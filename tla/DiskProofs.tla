------------------------------ MODULE DiskProofs ------------------------------
(***************************************************************************)
(* The buffer cache and the disk driver are correct for any processes,     *)
(* blocks and contents, any number of buffers and descriptors that         *)
(* DiskAssumption allows, and rings of any length.                         *)
(*                                                                         *)
(* Counting is all that DiskSteps leaves open.  Chains are disjoint, so    *)
(* there are never more requests than entries in a ring, and no entry is   *)
(* overwritten before it is read; the buffers in use or pinned are fewer   *)
(* than all buffers when bget looks for one.                               *)
(***************************************************************************)
EXTENDS DiskSteps, FiniteSetTheorems

-----------------------------------------------------------------------------
(* Counting.                                                               *)

\* There are no more entries in a queue than it can have.
LEMMA QueueBound ==
  ASSUME NEW ring, NEW i \in 0 .. IDX - 1, NEW j \in 0 .. IDX - 1, NEW S,
         IsFiniteSet(S), Injective(Heads(ring, i, j)), Range(Heads(ring, i, j)) \subseteq S
  PROVE  (j - i) % IDX <= Cardinality(S)
<1> DEFINE n == (j - i) % IDX
           s == Heads(ring, i, j)
<1>1. HeadsFrom(ring, i, j, n) /\ Injective(s) /\ Range(s) \subseteq S
  BY HeadsAre, Zenon
<1> HIDE DEF n, s
<1>2. n \in Nat /\ DOMAIN s = 1 .. n
  BY <1>1, Consts, SMTT(40) DEF HeadsFrom, s
<1>a. s \in [1 .. n -> S]
  <2>1. s = [k \in 1 .. n |-> s[k]]
    BY <1>1, Zenon DEF HeadsFrom, s
  <2>2. \A k \in 1 .. n : s[k] \in S
    BY <1>1, <1>2, Zenon DEF Range
  <2>. QED BY <2>1, <2>2, ZenonT(40)
<1>3. s \in Injection(1 .. n, S)
  BY <1>1, <1>2, <1>a, ZenonT(40) DEF Injection, IsInjective, Injective
<1>4. Cardinality(1 .. n) = n
  BY <1>2, FS_Interval, SMTT(40)
<1>5. Cardinality(1 .. n) <= Cardinality(S)
  BY <1>3, FS_Injection, ZenonT(40)
<1>. QED BY <1>4, <1>5, Zenon DEF n

\* How often an entry is in a queue.
LEMMA CountInQueue ==
  ASSUME NEW s, Injective(s), NEW x
  PROVE  Cardinality({i \in DOMAIN s : s[i] = x}) = IF x \in Range(s) THEN 1 ELSE 0
<1>1. CASE x \in Range(s)
  <2>1. PICK i \in DOMAIN s : s[i] = x
    BY <1>1, Zenon DEF Range
  <2>2. {j \in DOMAIN s : s[j] = x} = {i}
    BY <2>1, Zenon DEF Injective
  <2>. QED BY <1>1, <2>2, FS_Singleton, ZenonT(40)
<1>2. CASE x \notin Range(s)
  <2>1. {j \in DOMAIN s : s[j] = x} = {}
    BY <1>2, Zenon DEF Range
  <2>. QED BY <1>2, <2>1, FS_EmptySet, ZenonT(40)
<1>. QED BY <1>1, <1>2, ZenonT(40)

\* Sizes of intervals.
LEMMA Intervals ==
  ASSUME NEW n \in Nat
  PROVE  /\ IsFiniteSet(1 .. n) /\ Cardinality(1 .. n) = n
         /\ IsFiniteSet(0 .. n - 1) /\ Cardinality(0 .. n - 1) = n
<1>1. IsFiniteSet(1 .. n) /\ Cardinality(1 .. n) = n
  BY FS_Interval, SMTT(40)
<1>2. IsFiniteSet(0 .. n - 1) /\ Cardinality(0 .. n - 1) = n
  BY FS_Interval
<1>. QED BY <1>1, <1>2, ZenonT(40)

\* The searches for a free descriptor and for a buffer end on one.
LEMMA MinIsIn ==
  ASSUME NEW S \in SUBSET Nat, S # {}
  PROVE  Min(S) \in S
<1>1. PICK x \in S : \A y \in S : <<y, x>> \notin OpToRel(<, Nat)
  BY NatLessThanWellFounded, WFMin, Zenon
<1>2. \A y \in S : x <= y
  <2>. SUFFICES ASSUME NEW y \in S PROVE x <= y
    BY Zenon
  <2>1. <<y, x>> \notin {ss \in Nat \X Nat : ss[1] < ss[2]}
    BY <1>1, Zenon DEF OpToRel
  <2>. QED BY <2>1
<1>. QED BY <1>2, Zenon DEF Min

\* The same for the search from the least recently used buffer.
LEMMA MaxIsIn ==
  ASSUME NEW n \in Nat, NEW S \in SUBSET (1 .. n), S # {}
  PROVE  Max(S) \in S
<1> DEFINE T == {n - i : i \in S}
<1>1. T \in SUBSET Nat /\ T # {}
  <2>1. \A i \in S : i \in Nat /\ n - i \in Nat
    OBVIOUS
  <2>. QED BY <2>1, Zenon
<1>2. PICK x \in T : \A y \in T : <<y, x>> \notin OpToRel(<, Nat)
  BY <1>1, NatLessThanWellFounded, WFMin, Zenon
<1>3. PICK i \in S : x = n - i
  BY <1>2, Zenon
<1>4. \A j \in S : i >= j
  <2>. SUFFICES ASSUME NEW j \in S PROVE i >= j
    BY Zenon
  <2>1. n - j \in T
    BY Zenon
  <2>2. <<n - j, x>> \notin {ss \in Nat \X Nat : ss[1] < ss[2]}
    BY <1>2, <2>1, Zenon DEF OpToRel
  <2>3. i \in 1 .. n /\ j \in 1 .. n
    BY Zenon
  <2>. QED BY <1>3, <2>2, <2>3, NotLess, ZenonT(40)
<1>. QED BY <1>4, Zenon DEF Max

\* alloc3_desc finds three descriptors if there are.
LEMMA Three ==
  ASSUME free \subseteq Nat, IsFiniteSet(free), Cardinality(free) >= 3
  PROVE  /\ Lowest3 = <<Lowest3[1], Lowest3[2], Lowest3[3]>>
         /\ Lowest3[1] \in free /\ Lowest3[2] \in free /\ Lowest3[3] \in free
         /\ Lowest3[1] # Lowest3[2] /\ Lowest3[1] # Lowest3[3] /\ Lowest3[2] # Lowest3[3]
<1> DEFINE i == Min(free)
           f1 == free \ {i}
           j == Min(f1)
           f2 == free \ {i, j}
           m == Min(f2)
<1>1. Cardinality(free) \in Nat
  BY FS_CardinalityType, Zenon
<1>2. free # {}
  BY <1>1, FS_EmptySet, SMTT(40)
<1>3. i \in free
  BY <1>2, MinIsIn, Zenon
<1> HIDE DEF i
<1>4. IsFiniteSet(f1) /\ Cardinality(f1) = Cardinality(free) - 1
  BY <1>3, FS_RemoveElement, Zenon
<1>5. f1 # {} /\ f1 \in SUBSET Nat
  <2>1. f1 \subseteq Nat
    BY Zenon
  <2> HIDE DEF f1
  <2>2. Cardinality(f1) # 0
    BY <1>1, <1>4
  <2>. QED BY <1>4, <2>1, <2>2, FS_EmptySet, ZenonT(40)
<1>6. j \in f1
  BY <1>5, MinIsIn, ZenonT(40)
<1> HIDE DEF j
<1>7. f2 = f1 \ {j}
  BY Zenon
<1>8. IsFiniteSet(f2) /\ Cardinality(f2) = Cardinality(free) - 2
  <2>1. IsFiniteSet(f1 \ {j}) /\ Cardinality(f1 \ {j}) = Cardinality(f1) - 1
    <3> HIDE DEF f1
    <3>. QED BY <1>4, <1>6, FS_RemoveElement, ZenonT(40)
  <2>2. (Cardinality(free) - 1) - 1 = Cardinality(free) - 2
    BY <1>1, SMTT(40)
  <2>. QED BY <1>4, <1>7, <2>1, <2>2, ZenonT(40)
<1>9. f2 # {} /\ f2 \in SUBSET Nat
  <2>1. f2 \subseteq Nat
    BY Zenon
  <2> HIDE DEF f2
  <2>2. Cardinality(f2) # 0
    BY <1>1, <1>8
  <2>. QED BY <1>8, <2>1, <2>2, FS_EmptySet, ZenonT(40)
<1>10. m \in f2
  BY <1>9, MinIsIn, ZenonT(40)
<1> HIDE DEF m
<1>11. Lowest3 = <<i, j, m>>
  BY Zenon DEF Lowest3, i, j, m
<1>. QED BY <1>3, <1>6, <1>10, <1>11, ZenonT(40)

\* At least three descriptors per request: there are no more requests than the

\* rings have entries, and one less when there are descriptors for another.
LEMMA FewRequests ==
  ASSUME scene \in Scene, Chains, free \subseteq Desc
  PROVE  /\ IsFiniteSet(free) /\ IsFiniteSet(Requesting) /\ Cardinality(Requesting) <= RING
         /\ Cardinality(free) >= 3 => Cardinality(Requesting) < RING
         /\ Cardinality(Requesting) \in Nat /\ Cardinality(free) \in Nat
<1> DEFINE S == Requesting \X (1 .. 3)
           T == Desc \ free
           f == [w \in S |-> idx[w[1]][w[2]]]
<1>1. IsFiniteSet(Desc) /\ Cardinality(Desc) = scene.num
  BY SceneFacts, Intervals, ZenonT(40) DEF Desc
<1>2. /\ IsFiniteSet(free) /\ IsFiniteSet(T) /\ Cardinality(free) \in Nat
      /\ Cardinality(T) = scene.num - Cardinality(free)
  <2>1. IsFiniteSet(free) /\ IsFiniteSet(T)
    BY <1>1, FS_Subset, ZenonT(40)
  <2>2. free \cap T = {} /\ free \cup T = Desc
    BY Zenon
  <2>3. Cardinality(free) \in Nat /\ Cardinality(T) \in Nat
    BY <2>1, FS_CardinalityType, ZenonT(40)
  <2>4. Cardinality(Desc) = Cardinality(free) + Cardinality(T)
    <3> HIDE DEF T
    <3>1. Cardinality(free \cup T) = Cardinality(free) + Cardinality(T) - Cardinality(free \cap T)
      BY <2>1, FS_Union, ZenonT(40)
    <3>2. Cardinality(free \cap T) = 0 /\ Cardinality(free \cup T) = Cardinality(Desc)
      BY <2>2, FS_EmptySet, Zenon
    <3>3. Cardinality(free) + Cardinality(T) - 0 = Cardinality(free) + Cardinality(T)
      BY <2>3, SumsOfSizes, Zenon
    <3>. QED BY <3>1, <3>2, <3>3, Zenon
  <2>5. scene.num \in Nat /\ scene.num = Cardinality(free) + Cardinality(T)
    BY <1>1, <2>4, SceneFacts, Zenon
  <2> HIDE DEF T
  <2>6. Cardinality(T) = (Cardinality(free) + Cardinality(T)) - Cardinality(free)
    BY <2>3, Remaining, Zenon
  <2>. QED BY <2>1, <2>3, <2>5, <2>6, Zenon
<1>3. ASSUME NEW p \in Requesting, NEW x \in 1 .. 3 PROVE idx[p][x] \in T /\ idx[p][x] \in Descs(p)
  <2>1. idx[p][1] \in Desc /\ idx[p][2] \in Desc /\ idx[p][3] \in Desc
    BY Zenon DEF Chains, ChainOf
  <2>2. x = 1 \/ x = 2 \/ x = 3
    BY SMTT(40)
  <2>3. idx[p][x] \in Desc /\ idx[p][x] \in Descs(p)
    BY <2>1, <2>2, ZenonT(40) DEF Descs
  <2>. QED BY <2>3, Zenon DEF Chains
<1>4. ASSUME NEW p \in Requesting, NEW x \in 1 .. 3, NEW y \in 1 .. 3, idx[p][x] = idx[p][y]
      PROVE x = y
  <2>1. idx[p][1] # idx[p][2] /\ idx[p][1] # idx[p][3] /\ idx[p][2] # idx[p][3]
    BY Zenon DEF Chains, ChainOf
  <2>. QED BY <1>4, <2>1, DistinctOfThree, ZenonT(40)
<1>5. \A p, q \in Requesting, x, y \in 1 .. 3 : idx[p][x] = idx[q][y] => p = q
  BY <1>3, ZenonT(40) DEF Chains
<1>6. f \in Injection(S, T)
  <2>1. \A w \in S : w[1] \in Requesting /\ w[2] \in 1 .. 3 /\ w = <<w[1], w[2]>>
    OBVIOUS
  <2>2. f \in [S -> T]
    BY <1>3, <2>1, ZenonT(40)
  <2>3. ASSUME NEW v \in S, NEW w \in S, f[v] = f[w] PROVE v = w
    <3>1. idx[v[1]][v[2]] = idx[w[1]][w[2]]
      BY <2>3, Zenon
    <3>2. v[1] = w[1]
      <4>1. v[1] \in Requesting /\ v[2] \in 1 .. 3 /\ w[1] \in Requesting /\ w[2] \in 1 .. 3
        BY <2>1, Zenon
      <4>. QED BY <1>5, <3>1, <4>1, ZenonT(40)
    <3>3. v[2] = w[2]
      <4>1. idx[v[1]][v[2]] = idx[v[1]][w[2]]
        BY <3>1, <3>2, Zenon
      <4>. QED BY <4>1, <1>4, <2>1, ZenonT(40)
    <3>4. v = <<v[1], v[2]>> /\ w = <<w[1], w[2]>>
      BY <2>1, Zenon
    <3>. QED BY <3>2, <3>3, <3>4, Zenon
  <2>. QED BY <2>2, <2>3, ZenonT(40) DEF Injection, IsInjective
<1>7. IsFiniteSet(S) /\ Cardinality(S) <= Cardinality(T)
  <2> HIDE DEF f, S, T
  <2>. QED BY <1>2, <1>6, FS_Injection, ZenonT(40)
<1>8. IsFiniteSet(Requesting)
  <2> DEFINE g == [p \in Requesting |-> <<p, 1>>]
  <2>1. g \in Injection(Requesting, S)
    <3>1. 1 \in 1 .. 3
      BY SMTT(40)
    <3>2. g \in [Requesting -> S]
      BY <3>1, Zenon
    <3>3. \A p, q \in Requesting : g[p] = g[q] => p = q
      BY Zenon
    <3>. QED BY <3>2, <3>3, ZenonT(40) DEF Injection, IsInjective
  <2>. QED BY <1>7, <2>1, FS_Injection, Zenon
<1>9. Cardinality(S) = Cardinality(Requesting) * 3 /\ Cardinality(Requesting) \in Nat
  <2>1. IsFiniteSet(1 .. 3) /\ Cardinality(1 .. 3) = 3
    BY Intervals, Zenon
  <2>. QED BY <1>8, <2>1, FS_Product, FS_CardinalityType, ZenonT(40)
<1>10. /\ scene.num \in Nat /\ RING \in Nat /\ scene.num < 3 * (RING + 1)
       /\ Cardinality(Requesting) * 3 <= scene.num - Cardinality(free)
  <2>1. RING \in Nat
    BY Consts, Zenon
  <2>2. Cardinality(S) <= Cardinality(T) /\ Cardinality(S) = Cardinality(Requesting) * 3
        /\ Cardinality(T) = scene.num - Cardinality(free)
    BY <1>2, <1>7, <1>9, Zenon
  <2> HIDE DEF S, T
  <2>. QED BY <2>1, <2>2, SceneFacts, ZenonT(40)
<1>11. Cardinality(Requesting) \in Nat /\ Cardinality(free) \in Nat
  BY <1>2, <1>9, Zenon
<1>12. Cardinality(Requesting) <= RING /\ (Cardinality(free) >= 3 => Cardinality(Requesting) < RING)
  BY <1>10, <1>11, ThreeEach, ZenonT(40)
<1>. QED BY <1>2, <1>8, <1>11, <1>12, Zenon

\* The processes that use a buffer are finitely many.
LEMMA FewUsers ==
  ASSUME IInv, NEW k \in Buf
  PROVE  /\ IsFiniteSet(Users(k)) /\ Cardinality(Users(k)) \in Nat
         /\ Users(k) \subseteq scene.procs /\ (Cardinality(Users(k)) = 0 <=> Users(k) = {})
<1>1. IsFiniteSet(scene.procs)
  BY SceneFacts, Zenon DEF IInv, TypeOK, TypeBuf
<1>2. Users(k) \subseteq scene.procs
  BY Ids, Zenon DEF IInv, Locals, Users
<1>. QED BY <1>1, <1>2, FS_Subset, FS_CardinalityType, FS_EmptySet, ZenonT(40)

\* bget never finds all buffers in use: they are enough for the processes and

\* the pinned blocks, or for all blocks.
LEMMA BufferLeft ==
  ASSUME IInv, NEW p \in scene.procs, NEW n \in scene.blocks, at[p] = "idle", Cached(n) = {}
  PROVE  Unused # {}
<1> SUFFICES ASSUME Unused = {} PROVE FALSE
  BY Zenon
<1>0. /\ scene \in Scene /\ p \in Proc /\ n \in Block
      /\ IsFiniteSet(scene.procs) /\ IsFiniteSet(scene.blocks) /\ scene.maxpin \in Nat
      /\ scene.blocks \subseteq Block
      /\ NBUF >= Cardinality(scene.procs) + scene.maxpin \/ NBUF >= Cardinality(scene.blocks)
  BY SceneFacts, Zenon DEF IInv, TypeOK, TypeBuf
<1>1. \A k \in Buf : Users(k) # {} \/ blockno[k] \in pinned
  <2>. SUFFICES ASSUME NEW k \in Buf, blockno[k] \notin pinned PROVE Users(k) # {}
    BY Zenon
  <2>1. refcnt[k] # 0
    BY Zenon DEF Unused
  <2>2. Cardinality(Users(k)) \in Nat /\ (Cardinality(Users(k)) = 0 <=> Users(k) = {})
    BY FewUsers, Zenon
  <2>3. Cache
    BY Zenon DEF IInv
  <2>4. refcnt[k] = Cardinality(Users(k)) + 0
    BY <2>3, Zenon DEF Cache
  <2>. QED BY <2>1, <2>2, <2>4, SumsOfSizes, ZenonT(40)
<1>2. IsFiniteSet(Buf) /\ Cardinality(Buf) = NBUF /\ NBUF \in Nat
  <2>1. NBUF \in Nat
    BY Consts, Zenon
  <2>. QED BY <2>1, Intervals, ZenonT(40) DEF Buf
<1>3. \A k \in Buf : blockno[k] \in scene.blocks \ {n}
  <2>. SUFFICES ASSUME NEW k \in Buf PROVE blockno[k] \in scene.blocks \ {n}
    BY Zenon
  <2>1. blockno[k] # n
    BY Zenon DEF Cached
  <2>2. CASE Users(k) # {}
    <3>1. PICK q \in Proc : b[q] = k
      BY <2>2, Zenon DEF Users
    <3>2. at[q] # "idle"
      BY <3>1, Ids, Parts, Zenon DEF Locals
    <3>3. blockno[b[q]] = wanted[q] /\ wanted[q] \in scene.blocks
      BY <3>2, Parts, Zenon DEF Locals
    <3>. QED BY <2>1, <3>1, <3>3, Zenon
  <2>3. CASE blockno[k] \in pinned
    BY <2>1, <2>3, Zenon DEF IInv, Cache
  <2>. QED BY <1>1, <2>2, <2>3, ZenonT(40)
<1>4. \A k, m \in Buf : blockno[k] = blockno[m] => k = m
  <2>1. \A k \in Buf : blockno[k] # None
    BY <1>0, <1>3, Ids, ZenonT(40)
  <2>. QED BY <2>1, ZenonT(40) DEF IInv, Cache
<1>5. CASE NBUF >= Cardinality(scene.blocks)
  <2> DEFINE f == [k \in Buf |-> blockno[k]]
             T == scene.blocks \ {n}
  <2>1. f \in Injection(Buf, T)
    <3>1. f \in [Buf -> T]
      BY <1>3, Zenon
    <3>. QED BY <3>1, <1>4, ZenonT(40) DEF Injection, IsInjective
  <2>2. IsFiniteSet(T) /\ Cardinality(T) = Cardinality(scene.blocks) - 1 /\ Cardinality(scene.blocks) \in Nat
    BY <1>0, FS_RemoveElement, FS_CardinalityType, ZenonT(40)
  <2> HIDE DEF f, T
  <2>3. Cardinality(Buf) <= Cardinality(T)
    BY <2>1, <2>2, FS_Injection, ZenonT(40)
  <2>4. NBUF <= Cardinality(scene.blocks) - 1
    BY <1>2, <2>2, <2>3, Zenon
  <2>. QED BY <1>2, <1>5, <2>2, <2>4, RoomLeft, ZenonT(40)
<1>6. CASE NBUF >= Cardinality(scene.procs) + scene.maxpin
  <2> DEFINE P == {k \in Buf : blockno[k] \in pinned}
             R == Buf \ P
             f == [k \in P |-> blockno[k]]
             g == [k \in R |-> CHOOSE q \in Proc : b[q] = k]
             T == scene.procs \ {p}
  <2>1. /\ IsFiniteSet(pinned) /\ Cardinality(pinned) <= scene.maxpin /\ Cardinality(pinned) \in Nat
    BY <1>0, FS_Subset, FS_CardinalityType, ZenonT(40) DEF IInv, Cache
  <2>2. f \in Injection(P, pinned)
    <3>1. f \in [P -> pinned]
      BY Zenon
    <3>. QED BY <3>1, <1>4, ZenonT(40) DEF Injection, IsInjective
  <2>3. \A k \in R : g[k] \in T /\ b[g[k]] = k
    <3>. SUFFICES ASSUME NEW k \in R PROVE g[k] \in T /\ b[g[k]] = k
      BY Zenon
    <3>1. \E q \in Proc : b[q] = k
      BY <1>1, Zenon DEF Users
    <3>2. g[k] \in Proc /\ b[g[k]] = k
      BY <3>1, ZenonT(40)
    <3>3. k \in Buf /\ k # None
      BY Ids, Zenon
    <3> HIDE DEF g
    <3>. QED BY <1>0, <3>2, <3>3, ZenonT(40) DEF IInv, Locals
  <2>4. g \in Injection(R, T)
    <3>1. g \in [R -> T]
      BY <2>3, Zenon
    <3>2. \A k, m \in R : g[k] = g[m] => k = m
      BY <2>3, ZenonT(40)
    <3> HIDE DEF g, R, T
    <3>. QED BY <3>1, <3>2, ZenonT(40) DEF Injection, IsInjective
  <2>5. IsFiniteSet(T) /\ Cardinality(T) = Cardinality(scene.procs) - 1 /\ Cardinality(scene.procs) \in Nat
    BY <1>0, FS_RemoveElement, FS_CardinalityType, Zenon
  <2>6. P \cup R = Buf /\ P \cap R = {}
    BY Zenon
  <2> HIDE DEF P, R, f, g, T
  <2>7. IsFiniteSet(P) /\ IsFiniteSet(R) /\ Cardinality(P) <= Cardinality(pinned) /\ Cardinality(R) <= Cardinality(T)
    BY <2>1, <2>2, <2>4, <2>5, FS_Injection, ZenonT(40)
  <2>8. Cardinality(Buf) = Cardinality(P) + Cardinality(R) - Cardinality({}) /\ Cardinality({}) = 0
    <3>1. Cardinality(P \cup R) = Cardinality(P) + Cardinality(R) - Cardinality(P \cap R)
      BY <2>7, FS_Union, ZenonT(40)
    <3>. QED BY <2>6, <3>1, FS_EmptySet, Zenon
  <2>9. Cardinality(P) \in Nat /\ Cardinality(R) \in Nat
    BY <2>7, FS_CardinalityType, Zenon
  <2>10. NBUF = Cardinality(P) + Cardinality(R)
    <3>1. Cardinality(P) + Cardinality(R) - 0 = Cardinality(P) + Cardinality(R)
      BY <2>9, SumsOfSizes, Zenon
    <3>. QED BY <1>2, <2>8, <3>1, Zenon
  <2>11. Cardinality(R) <= Cardinality(scene.procs) - 1
    BY <2>5, <2>7, Zenon
  <2>12. /\ Cardinality(P) <= Cardinality(pinned) /\ Cardinality(pinned) <= scene.maxpin
         /\ NBUF \in Nat /\ Cardinality(pinned) \in Nat /\ scene.maxpin \in Nat /\ Cardinality(scene.procs) \in Nat
    BY <1>0, <1>2, <2>1, <2>5, <2>7, Zenon
  <2>. QED BY <1>6, <2>9, <2>10, <2>11, <2>12, RoomLeft, ZenonT(40)
<1>. QED BY <1>0, <1>5, <1>6, ZenonT(40)

\* The rings never run over.
LEMMA QueueRoom ==
  ASSUME IInv
  PROVE  /\ (avail_idx - seen) % IDX <= RING /\ (used_dev - used_idx) % IDX <= RING
         /\ Cardinality(free) >= 3 => (avail_idx - seen) % IDX < RING
         /\ (\E p \in Proc : at[p] = "publish") => (avail_idx - seen) % IDX < RING
         /\ doing # {} => (used_dev - used_idx) % IDX < RING
<1> DEFINE f == [p \in Requesting |-> idx[p][1]]
           H == {idx[p][1] : p \in Requesting}
           nA == (avail_idx - seen) % IDX
           nU == (used_dev - used_idx) % IDX
<1>1. TypeBuf /\ TypeReq /\ TypeRing /\ Chains /\ Queues
  BY Parts, Zenon
<1>2. /\ IsFiniteSet(Requesting) /\ Cardinality(Requesting) \in Nat /\ Cardinality(Requesting) <= RING
      /\ Cardinality(free) >= 3 => Cardinality(Requesting) < RING
  BY <1>1, FewRequests, ZenonT(40) DEF TypeBuf, TypeReq
<1>3. IsFiniteSet(H) /\ Cardinality(H) <= Cardinality(Requesting) /\ Cardinality(H) \in Nat
  <2>1. f \in Surjection(Requesting, H)
    BY Zenon DEF Surjection
  <2>2. IsFiniteSet(H) /\ Cardinality(H) <= Cardinality(Requesting)
    BY <1>2, <2>1, FS_Surjection, ZenonT(40)
  <2>. QED BY <2>2, FS_CardinalityType, Zenon
<1>4. Range(QA) \subseteq H /\ Range(QU) \subseteq H /\ doing \subseteq H
  <2>1. /\ \A i \in Range(QA) \cup doing \cup Range(QU) : \E p \in Waiting : i = idx[p][1]
        /\ \A p \in Waiting : p \in Requesting
    BY HeadsDiffer, Zenon
  <2>. QED BY <2>1, Zenon
<1>5. avail_idx \in 0 .. IDX - 1 /\ seen \in 0 .. IDX - 1 /\ used_dev \in 0 .. IDX - 1 /\ used_idx \in 0 .. IDX - 1
  BY <1>1, Zenon DEF TypeRing
<1>6. Injective(QA) /\ Injective(QU)
  BY <1>1, Zenon DEF Queues
<1>a. nA \in Nat /\ nU \in Nat
  <2>1. HeadsFrom(avail, seen, avail_idx, nA) /\ HeadsFrom(used, used_idx, used_dev, nU)
    BY <1>5, HeadsAre, Zenon
  <2> HIDE DEF nA, nU
  <2>. QED BY <2>1, Consts, SMTT(40) DEF HeadsFrom
<1>7. ASSUME NEW S, IsFiniteSet(S) PROVE /\ Range(QA) \subseteq S => nA <= Cardinality(S)
                                         /\ Range(QU) \subseteq S => nU <= Cardinality(S)
  BY <1>5, <1>6, <1>7, QueueBound, ZenonT(40) DEF QA, QU
<1>8. nA <= Cardinality(H) /\ nU <= Cardinality(H)
  BY <1>3, <1>4, <1>7, ZenonT(40)
<1>9. ASSUME NEW p \in Proc, at[p] = "publish" PROVE nA < RING
  <2>1. p \in Requesting /\ p \notin Waiting
    BY <1>9, ZenonT(40) DEF Requesting, Waiting
  <2>2. idx[p][1] \in H /\ idx[p][1] \notin Range(QA)
    <3>1. /\ \A i \in Range(QA) \cup doing \cup Range(QU) : \E q \in Waiting : i = idx[q][1]
          /\ \A q \in Waiting : q \in Requesting
          /\ \A q \in Requesting : p # q => idx[p][1] # idx[q][1]
      BY <2>1, HeadsDiffer, ZenonT(40)
    <3>. QED BY <2>1, <3>1, ZenonT(40)
  <2> HIDE DEF H
  <2>3. IsFiniteSet(H \ {idx[p][1]}) /\ Cardinality(H \ {idx[p][1]}) = Cardinality(H) - 1
    BY <1>3, <2>2, FS_RemoveElement, ZenonT(40)
  <2>4. Range(QA) \subseteq H \ {idx[p][1]}
    BY <1>4, <2>2, ZenonT(40)
  <2>5. nA <= Cardinality(H \ {idx[p][1]})
    BY <1>7, <2>3, <2>4, ZenonT(40)
  <2> HIDE DEF nA
  <2>6. RING \in Nat /\ nA \in Nat /\ nA <= Cardinality(H) - 1
    BY <1>a, <2>3, <2>5, Consts, Zenon
  <2>. QED BY <1>2, <1>3, <2>6, RoomLeft, ZenonT(40)
<1>10. ASSUME NEW i \in doing PROVE nU < RING
  <2>2. i \in H /\ i \notin Range(QU)
    BY <1>1, <1>4, ZenonT(40) DEF Queues
  <2> HIDE DEF H
  <2>3. IsFiniteSet(H \ {i}) /\ Cardinality(H \ {i}) = Cardinality(H) - 1
    BY <1>3, <2>2, FS_RemoveElement, ZenonT(40)
  <2>4. Range(QU) \subseteq H \ {i}
    BY <1>4, <2>2, ZenonT(40)
  <2>5. nU <= Cardinality(H \ {i})
    BY <1>7, <2>3, <2>4, ZenonT(40)
  <2> HIDE DEF nU
  <2>6. RING \in Nat /\ nU \in Nat /\ nU <= Cardinality(H) - 1
    BY <1>a, <2>3, <2>5, Consts, Zenon
  <2>. QED BY <1>2, <1>3, <2>6, RoomLeft, ZenonT(40)
<1> HIDE DEF nA, nU, H
<1>11. nA <= RING /\ nU <= RING /\ (Cardinality(free) >= 3 => nA < RING)
  <2>1. RING \in Nat
    BY Consts, Zenon
  <2>. QED BY <1>2, <1>3, <1>8, <1>a, <2>1, RoomLeft, ZenonT(40)
<1>. QED BY <1>9, <1>10, <1>11, ZenonT(40) DEF nA, nU

\* What DiskSteps calls counted.
LEMMA FiniteCounted ==
  ASSUME NEW S, IsFiniteSet(S)
  PROVE  Counted(S)
<1>1. Cardinality(S) \in Nat /\ (Cardinality(S) = 0 <=> S = {})
  BY FS_CardinalityType, FS_EmptySet, ZenonT(40)
<1>2. ASSUME NEW x, x \notin S PROVE Cardinality(S \cup {x}) = Cardinality(S) + 1
  BY <1>2, FS_AddElement, ZenonT(40)
<1>3. ASSUME NEW x \in S PROVE Cardinality(S \ {x}) = Cardinality(S) - 1
  BY FS_RemoveElement, ZenonT(40)
<1>. QED BY <1>1, <1>2, <1>3, ZenonT(40) DEF Counted

\* The invariant implies what DiskSteps assumes of the sizes of sets.
LEMMA NumbersHold ==
  ASSUME IInv
  PROVE  Numbers
<1>1. \A k \in Buf : Counted(Users(k))
  BY FewUsers, FiniteCounted, Zenon
<1>2. TypeBuf /\ TypeReq /\ Chains /\ Cache
  BY Parts, Zenon
<1>3. Counted(pinned)
  <2>1. IsFiniteSet(scene.blocks) /\ pinned \subseteq scene.blocks
    BY <1>2, SceneFacts, ZenonT(40) DEF TypeBuf, Cache
  <2>. QED BY <2>1, FS_Subset, FiniteCounted, ZenonT(40)
<1>4. IsFiniteSet(free)
  BY <1>2, FewRequests, ZenonT(40) DEF TypeBuf, TypeReq
<1>5. free \subseteq Nat
  BY <1>2, SMTT(40) DEF TypeReq, Desc
<1>6. Cardinality(free) >= 3 =>
        /\ Lowest3 = <<Lowest3[1], Lowest3[2], Lowest3[3]>>
        /\ Lowest3[1] \in free /\ Lowest3[2] \in free /\ Lowest3[3] \in free
        /\ Lowest3[1] # Lowest3[2] /\ Lowest3[1] # Lowest3[3] /\ Lowest3[2] # Lowest3[3]
  BY <1>4, <1>5, Three, ZenonT(40)
<1>7. \A S \in SUBSET (1 .. NBUF) : S # {} => Max(S) \in S
  <2>1. NBUF \in Nat
    BY Consts, Zenon
  <2>. QED BY <2>1, MaxIsIn, ZenonT(40)
<1>8. \A p \in scene.procs, n \in scene.blocks : at[p] = "idle" /\ Cached(n) = {} => Unused # {}
  BY BufferLeft, Zenon
<1>9. Counted(free)
  BY <1>4, FiniteCounted, Zenon
<1>. QED BY <1>1, <1>3, <1>6, <1>7, <1>8, <1>9, QueueRoom, ZenonT(40) DEF Numbers

-----------------------------------------------------------------------------
(* The theorems.                                                           *)

\* After binit and virtio_disk_init nobody uses a buffer, every descriptor is
\* free, and the rings are empty.
LEMMA Init_IInv == Init => IInv
<1> SUFFICES ASSUME Init PROVE IInv
  BY Zenon
<1>1. scene \in Scene /\ RING \in Nat \ {0} /\ IDX \in Nat /\ IDX > 0 /\ NBUF \in Nat
  BY Consts, SMTT(40) DEF Init
<1>2. 3 <= scene.num /\ scene.num \in Nat /\ scene.maxpin \in Nat
  BY <1>1, SceneFacts, ZenonT(40)
<1>d. (CHOOSE d \in Data : TRUE) \in Data
  BY Zenon, DiskAssumption
<1>3. TypeBuf
  <2>1. lru \in [Buf -> Buf]
    BY <1>1, SMTT(40) DEF Init, Buf
  <2>2. data \in [Buf -> Data] /\ platter \in [Block -> Data] /\ content \in [Block -> Data]
    <3>1. PICK z \in Data : z = CHOOSE d \in Data : TRUE
      BY <1>d, Zenon
    <3>2. data = [k \in Buf |-> z] /\ platter = [n \in Block |-> z] /\ content = platter
      BY <3>1, ZenonT(40) DEF Init
    <3>. QED BY <3>2, Zenon
  <2>3. /\ blockno \in [Buf -> Block \cup {None}] /\ valid \in [Buf -> BOOLEAN]
        /\ refcnt \in [Buf -> Int] /\ owner \in [Buf -> Proc \cup {None}] /\ ondisk \in [Buf -> BOOLEAN]
    BY SMTT(40) DEF Init
  <2>. QED BY <1>1, <2>1, <2>2, <2>3, ZenonT(40) DEF TypeBuf
<1>4. TypeReq
  BY Zenon DEF Init, TypeReq
<1>5. TypeRing
  <2>1. 0 \in Desc /\ 0 \in 0 .. IDX - 1
    <3>1. scene.num > 0
      BY <1>2, SumsOfSizes, Zenon
    <3>. QED BY <1>1, <1>2, <3>1, SumsOfSizes, ZenonT(40) DEF Desc
  <2>. QED BY <2>1, Zenon DEF Init, TypeRing
<1>6. TypeProc
  BY Ids, Zenon DEF Init, TypeProc, At, HoldAt
<1>7. /\ \A p \in Proc : at[p] = "idle" /\ b[p] = None
      /\ at[Intr] = "idle"
      /\ \A k \in Buf : owner[k] = None /\ ondisk[k] = FALSE /\ valid[k] = FALSE /\ blockno[k] = None /\ refcnt[k] = 0
      /\ vlock = None /\ pinned = {} /\ content = platter /\ panic = FALSE /\ doing = {}
  BY Zenon DEF Init
<1>8. Locals
  BY <1>7, Zenon DEF Locals, HoldAt
<1>9. Owned
  BY <1>7, Ids, Zenon DEF Owned, HoldAt
<1>10. Cache
  <2>1. \A k \in Buf : Users(k) = {}
    BY <1>7, Ids, Zenon DEF Users
  <2>2. Cardinality({}) = 0
    BY FS_EmptySet, Zenon
  <2>3. \A k \in Buf : \E i \in Buf : lru[i] = k
    <3>. SUFFICES ASSUME NEW k \in Buf PROVE \E i \in Buf : lru[i] = k
      BY Zenon
    <3>1. NBUF + 1 - k \in Buf /\ NBUF + 1 - (NBUF + 1 - k) = k
      BY <1>1, SumsOfSizes, ZenonT(40) DEF Buf
    <3>2. lru[NBUF + 1 - k] = k
      BY <3>1, ZenonT(40) DEF Init
    <3>. QED BY <3>1, <3>2, Zenon
  <2>4. \A k \in Buf : refcnt[k] = Cardinality(Users(k)) + IF blockno[k] \in pinned THEN 1 ELSE 0
    <3>1. 0 + 0 = 0
      BY SumsOfSizes, ZenonT(40)
    <3>2. pinned = {} /\ \A k \in Buf : blockno[k] \notin pinned
      BY <1>7, Zenon
    <3>. QED BY <1>7, <2>1, <2>2, <3>1, <3>2, ZenonT(40)
  <2>5. Cardinality(pinned) <= scene.maxpin
    <3>1. 0 <= scene.maxpin /\ pinned = {}
      BY <1>2, <1>7, SumsOfSizes, Zenon
    <3>. QED BY <2>2, <3>1, Zenon
  <2>. QED BY <1>7, <2>3, <2>4, <2>5, ZenonT(40) DEF Cache
<1>a. Requesting = {} /\ Waiting = {}
  BY <1>7, Zenon DEF Requesting, Waiting
<1>11. Chains
  <2>1. free = Desc
    BY Zenon DEF Init
  <2>. QED BY <1>a, <2>1, ZenonT(40) DEF Chains
<1>12. Queues
  <2>1. /\ avail_idx \in 0 .. IDX - 1 /\ seen \in 0 .. IDX - 1 /\ seen = avail_idx
        /\ used_dev \in 0 .. IDX - 1 /\ used_idx \in 0 .. IDX - 1 /\ used_idx = used_dev
    BY <1>1, SMTT(40) DEF Init
  <2>2. Range(QA) = {} /\ Range(QU) = {}
    BY <2>1, QueueEmpty, ZenonT(40) DEF QA, QU
  <2>3. Injective(QA) /\ Injective(QU)
    BY <2>2, Zenon DEF Injective, Range
  <2>4. {idx[p][1] : p \in Waiting} = {}
    BY <1>a, ZenonT(40)
  <2>. QED BY <1>7, <2>2, <2>3, <2>4, ZenonT(40) DEF Queues
<1>13. Coherent
  BY <1>7, Zenon DEF Coherent, HoldAt
<1>14. NoLostWakeup
  BY <1>7, Zenon DEF NoLostWakeup
<1>. QED BY <1>3, <1>4, <1>5, <1>6, <1>7, <1>8, <1>9, <1>10, <1>11, <1>12, <1>13, <1>14, ZenonT(40) DEF IInv, TypeOK

\* Every step keeps the invariant.
LEMMA Step_IInv == IInv /\ [Next]_<<scene, vars>> => IInv'
<1> SUFFICES ASSUME IInv, [Next]_<<scene, vars>> PROVE IInv'
  BY Zenon
<1>0. Numbers
  BY NumbersHold, Zenon
<1>1. CASE UNCHANGED <<scene, vars>>
  BY <1>1, Stutter_IInv, Zenon
<1>2. CASE Next
  <2>0. UNCHANGED scene
    BY <1>2, Zenon DEF Next
  <2>1. ASSUME NEW p \in scene.procs, NEW n \in scene.blocks, bget(p, n) PROVE IInv'
    BY <1>0, <2>0, <2>1, bget_IInv, ZenonT(40)
  <2>2. ASSUME NEW p \in scene.procs, bwrite(p) PROVE IInv'
    BY <2>0, <2>2, bwrite_IInv, ZenonT(40)
  <2>3. ASSUME NEW p \in scene.procs, bpin(p) PROVE IInv'
    BY <1>0, <2>0, <2>3, bpin_IInv, ZenonT(40)
  <2>4. ASSUME NEW p \in scene.procs, bwrite_pinned(p) PROVE IInv'
    BY <2>0, <2>4, bwrite_pinned_IInv, ZenonT(40)
  <2>5. ASSUME NEW p \in scene.procs, bunpin(p) PROVE IInv'
    BY <1>0, <2>0, <2>5, bunpin_IInv, ZenonT(40)
  <2>6. ASSUME NEW p \in scene.procs, releasesleep(p) PROVE IInv'
    BY <2>0, <2>6, releasesleep_IInv, ZenonT(40)
  <2>7. ASSUME NEW p \in scene.procs, Kernel(p) PROVE IInv'
    BY <1>0, <2>0, <2>7, acquiresleep_IInv, brelse_IInv, alloc3_desc_fail_IInv, virtio_disk_rw_IInv, publish_IInv,
       finish_IInv, ZenonT(40) DEF Kernel
  <2>8. ASSUME Handler PROVE IInv'
    BY <1>0, <2>0, <2>8, virtio_disk_intr_IInv, complete_IInv, ZenonT(40) DEF Handler
  <2>9. ASSUME Device PROVE IInv'
    BY <1>0, <2>0, <2>9, Fetch_IInv, Serve_IInv, ZenonT(40) DEF Device
  <2>. QED BY <1>2, <2>1, <2>2, <2>3, <2>4, <2>5, <2>6, <2>7, <2>8, <2>9, ZenonT(40) DEF Next
<1>. QED BY <1>1, <1>2, Zenon

\* The buffer cache and the driver keep the inductive invariant, for any number
\* of processes, blocks, buffers and descriptors within DiskAssumption.
THEOREM DiskInvariant == Spec => []IInv
BY Init_IInv, Step_IInv, PTL DEF Spec

\* Nobody sleeps in virtio_disk_rw or acquiresleep for what is there.
THEOREM DiskNoLostWakeup == Spec => []NoLostWakeup
<1>1. IInv => NoLostWakeup
  BY Zenon DEF IInv
<1>. QED BY <1>1, DiskInvariant, PTL

\* bread gives a process the latest contents of its block and the buffer to
\* itself; bget finds a buffer, and nothing panics.
THEOREM DiskReadsLatest == Spec => []ReadsLatest
<1>1. IInv => ReadsLatest
  <2>. SUFFICES ASSUME IInv PROVE ReadsLatest
    BY Zenon
  <2>1. Locals /\ Owned /\ Coherent /\ panic = FALSE
    BY Parts, Zenon
  <2>2. ASSUME NEW p \in Proc, at[p] = "have"
        PROVE  data[b[p]] = content[wanted[p]] /\ owner[b[p]] = p /\ ~ondisk[b[p]]
    <3>1. b[p] \in Buf /\ blockno[b[p]] = wanted[p] /\ wanted[p] \in scene.blocks /\ owner[b[p]] = p
      BY <2>1, <2>2, ZenonT(40) DEF Locals, HoldAt
    <3>2. wanted[p] # None
      BY <3>1, Parts, Ids, ZenonT(40)
    <3>3. ~ondisk[b[p]]
      BY <2>1, <2>2, ZenonT(40) DEF Owned, HoldAt
    <3>. QED BY <2>1, <2>2, <3>1, <3>2, <3>3, ZenonT(40) DEF Coherent
  <2>. QED BY <2>1, <2>2, ZenonT(40) DEF ReadsLatest
<1>. QED BY <1>1, DiskInvariant, PTL

\* Every descriptor is free or in one chain, and the request of a process that
\* waits is in exactly one place: no completion is lost or handled twice.
THEOREM DiskRequestsExact == Spec => []RequestsExact
<1>1. IInv => RequestsExact
  <2>. SUFFICES ASSUME IInv PROVE RequestsExact
    BY Zenon
  <2>1. TypeReq /\ Owned /\ Chains /\ Queues
    BY Parts, Zenon
  <2>2. \A p \in Requesting : Range(idx[p]) = Descs(p)
    <3>. SUFFICES ASSUME NEW p \in Requesting PROVE Range(idx[p]) = Descs(p)
      BY Zenon
    <3>1. ChainOf(p)
      BY <2>1, Zenon DEF Chains
    <3>2. idx[p] = <<idx[p][1], idx[p][2], idx[p][3]>>
      BY <3>1, Zenon DEF ChainOf
    <3>. QED BY <3>2, RangeOf3, ZenonT(40) DEF Descs
  <2>3. \A p, q \in Requesting : p # q => Range(idx[p]) \cap Range(idx[q]) = {}
    BY <2>1, <2>2, Zenon DEF Chains
  <2>4. free = Desc \ UNION {Range(idx[p]) : p \in Requesting}
    <3>1. free \subseteq Desc /\ \A i \in Desc : i \in free <=> \A p \in Requesting : i \notin Descs(p)
      BY <2>1, Zenon DEF TypeReq, Chains
    <3>2. \A i : i \in UNION {Range(idx[p]) : p \in Requesting} <=> \E p \in Requesting : i \in Range(idx[p])
      BY Zenon
    <3>3. \A i : i \in UNION {Range(idx[p]) : p \in Requesting} <=> \E p \in Requesting : i \in Descs(p)
      BY <2>2, <3>2, ZenonT(40)
    <3> DEFINE U == UNION {Range(idx[p]) : p \in Requesting}
    <3> HIDE DEF U
    <3>4. \A i : i \in U <=> \E p \in Requesting : i \in Descs(p)
      BY <3>3, Zenon DEF U
    <3>5. free = Desc \ U
      BY <3>1, <3>4, ZenonT(40)
    <3>. QED BY <3>5, Zenon DEF U
  <2>5. ASSUME NEW p \in Proc, at[p] \in {"wdisk", "woken"}
        PROVE  Cardinality({i \in DOMAIN QA : QA[i] = idx[p][1]}) + (IF idx[p][1] \in doing THEN 1 ELSE 0)
                 + Cardinality({i \in DOMAIN QU : QU[i] = idx[p][1]})
               = IF ondisk[b[p]] THEN 1 ELSE 0
    <3> DEFINE x == idx[p][1]
    <3>1. /\ Injective(QA) /\ Injective(QU)
          /\ Range(QA) \cap doing = {} /\ Range(QA) \cap Range(QU) = {} /\ doing \cap Range(QU) = {}
      BY <2>1, Zenon DEF Queues
    <3>2. /\ Cardinality({i \in DOMAIN QA : QA[i] = x}) = IF x \in Range(QA) THEN 1 ELSE 0
          /\ Cardinality({i \in DOMAIN QU : QU[i] = x}) = IF x \in Range(QU) THEN 1 ELSE 0
      BY <3>1, CountInQueue, ZenonT(40)
    <3>3. p \in Requesting
      BY <2>5, Zenon DEF Requesting
    <3>4. x \in Range(QA) \cup doing \cup Range(QU) <=> at[p] = "wdisk"
      <4>1. at[p] = "wdisk" <=> p \in Waiting
        BY Zenon DEF Waiting
      <4>2. p \in Waiting => x \in Range(QA) \cup doing \cup Range(QU)
        BY HeadsDiffer, Zenon
      <4>3. ASSUME x \in Range(QA) \cup doing \cup Range(QU) PROVE p \in Waiting
        <5>1. PICK q \in Waiting : x = idx[q][1]
          BY <4>3, HeadsDiffer, ZenonT(40)
        <5>2. q \in Requesting
          BY HeadsDiffer, Zenon
        <5>3. q = p
          BY <3>3, <5>1, <5>2, HeadsDiffer, ZenonT(40)
        <5>. QED BY <5>3, Zenon
      <4>. QED BY <4>1, <4>2, <4>3, ZenonT(40)
    <3>5. ondisk[b[p]] <=> at[p] = "wdisk"
      BY <2>1, <2>5, ZenonT(40) DEF Owned, HoldAt
    <3> HIDE DEF x
    <3>6. /\ at[p] = "wdisk" => Count(x, Range(QA)) + Count(x, doing) + Count(x, Range(QU)) = 1
          /\ at[p] # "wdisk" => Count(x, Range(QA)) + Count(x, doing) + Count(x, Range(QU)) = 0
      BY <3>1, <3>4, CountedOnce, ZenonT(40)
    <3>7. (IF x \in Range(QA) THEN 1 ELSE 0) + (IF x \in doing THEN 1 ELSE 0) + (IF x \in Range(QU) THEN 1 ELSE 0)
          = IF ondisk[b[p]] THEN 1 ELSE 0
      BY <3>5, <3>6, ZenonT(40) DEF Count
    <3>. QED BY <3>2, <3>7, ZenonT(40) DEF x
  <2>. QED BY <2>3, <2>4, <2>5, ZenonT(40) DEF RequestsExact, QA, QU
<1>. QED BY <1>1, DiskInvariant, PTL
=============================================================================
