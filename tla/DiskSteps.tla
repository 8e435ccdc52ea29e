------------------------------- MODULE DiskSteps ------------------------------
(***************************************************************************)
(* Every step of the buffer cache, the disk driver and the device keeps    *)
(* the inductive invariant.                                                *)
(*                                                                         *)
(* The invariant says where every request is.  A process that waits for    *)
(* the disk has a chain of three descriptors, disjoint from all others,    *)
(* whose head is in one of three places: among the heads the device has    *)
(* not seen, those it works on, and those the driver has not seen.  On     *)
(* this rests what it says of the data: a valid buffer has the latest      *)
(* contents of its block, and so has the disk unless the block is pinned   *)
(* or a write of it is under way.                                          *)
(*                                                                         *)
(* What follows from the sizes of sets is a hypothesis here, Numbers;      *)
(* DiskProofs shows that the invariant implies it.                         *)
(***************************************************************************)
EXTENDS Disk, RingLemmas

-----------------------------------------------------------------------------
(* Constants.                                                              *)

\* What the assumptions say of the constants.
LEMMA Consts ==
  /\ None = 0 /\ Intr = -1 /\ Intr # None /\ None \notin Proc /\ Intr \notin Proc
  /\ None \notin Buf /\ None \notin Block
  /\ NBUF \in Nat /\ RING \in Nat \ {0} /\ IDX \in Nat \ {0} /\ RING < IDX /\ IDX % RING = 0
  /\ Buf \subseteq Nat /\ Proc \subseteq Nat /\ Data # {}
BY DiskAssumption DEF None, Intr, Buf

\* The identities of processes, buffers and blocks that matter most often.
LEMMA Ids ==
  /\ None = 0 /\ Intr = -1 /\ Intr # None /\ None \notin Proc /\ Intr \notin Proc
  /\ None \notin Buf /\ None \notin Block
BY Consts, Zenon

\* What they say of the scene that is played.
LEMMA SceneFacts ==
  ASSUME scene \in Scene
  PROVE  /\ scene.procs \subseteq Proc /\ scene.blocks \subseteq Block /\ scene.changed \subseteq scene.blocks
         /\ IsFiniteSet(scene.procs) /\ IsFiniteSet(scene.blocks)
         /\ scene.maxpin \in Nat /\ scene.num \in Nat /\ 3 <= scene.num /\ scene.num < 3 * (RING + 1)
         /\ NBUF >= Cardinality(scene.procs) + scene.maxpin \/ NBUF >= Cardinality(scene.blocks)
BY DiskAssumption, Zenon

-----------------------------------------------------------------------------
(* The rings as queues of heads.                                           *)

\* How many heads there are between two indices, and in which slots.
HeadsFrom(ring, i, j, n) ==
  /\ n \in 0 .. IDX - 1 /\ (n = 0 <=> i = j)
  /\ Heads(ring, i, j) = [k \in 1 .. n |-> ring[SlotIn(IDX, RING, i + (k - 1))]]

\* The distance of the indices is the length of the queue between them.
LEMMA HeadsAre ==
  ASSUME NEW ring, NEW i \in 0 .. IDX - 1, NEW j \in 0 .. IDX - 1
  PROVE  HeadsFrom(ring, i, j, (j - i) % IDX)
<1>1. IDX \in Nat \ {0} /\ j - i \in -IDX .. 2 * IDX - 1
  BY Consts
<1>2. (j - i) % IDX = Wrapped(j - i, IDX) /\ Wrapped(j - i, IDX) \in 0 .. IDX - 1
  BY <1>1, ModWrapped, Zenon
<1>3. Wrapped(j - i, IDX) = 0 <=> i = j
  BY <1>1 DEF Wrapped
<1>4. ASSUME NEW k \in 1 .. (j - i) % IDX
      PROVE ring[((i + k - 1) % IDX) % RING] = ring[SlotIn(IDX, RING, i + (k - 1))]
  <2>1. i + k - 1 = i + (k - 1)
    BY <1>2, Zenon
  <2>. QED BY <2>1, Zenon DEF SlotIn
<1>5. Heads(ring, i, j) = [k \in 1 .. (j - i) % IDX |-> ring[SlotIn(IDX, RING, i + (k - 1))]]
  BY <1>4, Zenon DEF Heads
<1>. QED BY <1>2, <1>3, <1>5, Zenon DEF HeadsFrom

\* A queue of n with one more at its end, and one without its head.
Extended(s, n, x) == [k \in 1 .. n + 1 |-> IF k <= n THEN s[k] ELSE x]
Rest(s, n) == [k \in 1 .. n - 1 |-> s[k + 1]]

\* The writer of a ring moves its index on.
LEMMA Push ==
  ASSUME NEW ring, NEW i \in 0 .. IDX - 1, NEW j \in 0 .. IDX - 1, (j - i) % IDX < RING
  PROVE  /\ (j + 1) % IDX \in 0 .. IDX - 1
         /\ Heads(ring, i, (j + 1) % IDX) = Extended(Heads(ring, i, j), (j - i) % IDX, ring[j % RING])
<1> DEFINE n == (j - i) % IDX
           j2 == (j + 1) % IDX
<1>1. HeadsFrom(ring, i, j, n) /\ n < RING
  BY HeadsAre, Zenon
<1>2. CountersAgree(IDX, RING, i, j)
  <2> HIDE DEF n
  <2>1. n <= RING
    BY <1>1, Consts DEF HeadsFrom
  <2>. QED BY <2>1, Counters, Consts, Zenon DEF n
<1>3. 1 \in 0 .. RING - n
  <2> HIDE DEF n
  <2>. QED BY <1>1, Consts DEF HeadsFrom
<1>4. j2 \in 0 .. IDX - 1 /\ (j2 - i) % IDX = n + 1 /\ (i + n) % IDX = j
  BY <1>2, <1>3, Zenon DEF CountersAgree
<1> HIDE DEF n, j2
<1>5. HeadsFrom(ring, i, j2, n + 1)
  BY <1>4, HeadsAre, Zenon
<1>6. SlotIn(IDX, RING, i + n) = j % RING
  BY <1>4, Zenon DEF SlotIn
<1>7. Heads(ring, i, j2) = Extended(Heads(ring, i, j), n, ring[j % RING])
  <2>1. ASSUME NEW k \in 1 .. n + 1
        PROVE ring[SlotIn(IDX, RING, i + (k - 1))] = IF k <= n THEN Heads(ring, i, j)[k] ELSE ring[j % RING]
    <3>1. CASE k <= n
      BY <3>1, <1>1 DEF HeadsFrom
    <3>2. CASE ~(k <= n)
      <4>1. k - 1 = n
        BY <3>2, <1>1 DEF HeadsFrom
      <4>. QED BY <3>2, <4>1, <1>6, Zenon
    <3>. QED BY <3>1, <3>2, Zenon
  <2>. QED BY <2>1, <1>5, Zenon DEF HeadsFrom, Extended
<1>. QED BY <1>4, <1>7, Zenon DEF n, j2

\* It writes to the slot that comes next, which holds no head.
LEMMA Overwrite ==
  ASSUME NEW S, NEW ring \in [0 .. RING - 1 -> S], NEW x,
         NEW i \in 0 .. IDX - 1, NEW j \in 0 .. IDX - 1, (j - i) % IDX < RING
  PROVE  /\ Heads([ring EXCEPT ![j % RING] = x], i, j) = Heads(ring, i, j)
         /\ [ring EXCEPT ![j % RING] = x][j % RING] = x
<1> DEFINE n == (j - i) % IDX
           new == [ring EXCEPT ![j % RING] = x]
<1>1. HeadsFrom(ring, i, j, n) /\ HeadsFrom(new, i, j, n) /\ n < RING
  BY HeadsAre, Zenon
<1>2. CountersAgree(IDX, RING, i, j)
  <2> HIDE DEF n
  <2>1. n <= RING
    BY <1>1, Consts DEF HeadsFrom
  <2>. QED BY <2>1, Counters, Consts, Zenon DEF n
<1>3. (i + n) % IDX = j
  BY <1>2, Zenon DEF CountersAgree
<1>4. SlotIn(IDX, RING, i + n) = j % RING
  BY <1>3, Zenon DEF SlotIn
<1>5. j % RING \in 0 .. RING - 1
  BY Division, Consts
<1> HIDE DEF n
<1>6. n \in 0 .. RING - 1 /\ RING \in Nat
  BY <1>1, Consts DEF HeadsFrom
<1>7. ASSUME NEW k \in 1 .. n
      PROVE new[SlotIn(IDX, RING, i + (k - 1))] = ring[SlotIn(IDX, RING, i + (k - 1))]
  <2>1. k - 1 \in 0 .. RING - 1 /\ k - 1 # n /\ i + (k - 1) \in 0 .. 2 * IDX - 1
    BY <1>6, Consts
  <2>2. SlotIn(IDX, RING, i + (k - 1)) # SlotIn(IDX, RING, i + n)
    BY <2>1, <1>6, OwnSlots, Consts, ZenonT(30)
  <2>3. SlotIn(IDX, RING, i + (k - 1)) \in 0 .. RING - 1
    BY <2>1, SlotOf, Consts, ZenonT(30)
  <2>. QED BY <2>2, <2>3, <1>4, <1>5, Zenon
<1>8. Heads(new, i, j) = Heads(ring, i, j)
  <2> HIDE DEF new
  <2>. QED BY <1>1, <1>7, Zenon DEF HeadsFrom
<1>. QED BY <1>5, <1>8, Zenon

\* The reader of a ring moves its index on.
LEMMA Pop ==
  ASSUME NEW ring, NEW i \in 0 .. IDX - 1, NEW j \in 0 .. IDX - 1, (j - i) % IDX <= RING, i # j
  PROVE  /\ (i + 1) % IDX \in 0 .. IDX - 1 /\ (j - i) % IDX \in Nat \ {0}
         /\ Heads(ring, i, j)[1] = ring[i % RING]
         /\ Heads(ring, (i + 1) % IDX, j) = Rest(Heads(ring, i, j), (j - i) % IDX)
<1> DEFINE n == (j - i) % IDX
           i2 == (i + 1) % IDX
<1>1. HeadsFrom(ring, i, j, n)
  BY HeadsAre, Zenon
<1>2. CountersAgree(IDX, RING, i, j)
  BY Counters, Consts, Zenon
<1>3. n \in 1 .. RING /\ RING \in Nat
  <2> HIDE DEF n
  <2>. QED BY <1>1, Consts DEF HeadsFrom, n
<1>4. 1 \in 0 .. n
  BY <1>3
<1>5. i2 \in 0 .. IDX - 1 /\ (j - i2) % IDX = n - 1
  BY <1>2, <1>4, Zenon DEF CountersAgree
<1>6. SlotsMove(IDX, RING, i, 1)
  <2>1. 1 \in 0 .. RING
    BY <1>3
  <2>. QED BY <2>1, SlotMoves, Consts, ZenonT(30)
<1>7. i % IDX = i
  <2>1. i \in Int /\ i \in 0 .. IDX - 1 /\ i = i
    BY Consts
  <2>. QED BY <2>1, ModIs, Consts, Zenon
<1>8. \A k \in 0 .. RING - 1 : SlotIn(IDX, RING, i2 + k) = SlotIn(IDX, RING, i + 1 + k)
  BY <1>6, Zenon DEF SlotsMove
<1> HIDE DEF n, i2
<1>9. HeadsFrom(ring, i2, j, n - 1)
  BY <1>5, HeadsAre, Zenon
<1>10. Heads(ring, i, j)[1] = ring[i % RING]
  <2>1. 1 \in 1 .. n /\ i + (1 - 1) = i
    BY <1>3
  <2>2. Heads(ring, i, j)[1] = ring[SlotIn(IDX, RING, i + (1 - 1))]
    BY <2>1, <1>1, Zenon DEF HeadsFrom
  <2>3. SlotIn(IDX, RING, i) = i % RING
    BY <1>7, Zenon DEF SlotIn
  <2>. QED BY <2>1, <2>2, <2>3, Zenon
<1>11. ASSUME NEW k \in 1 .. n - 1
       PROVE ring[SlotIn(IDX, RING, i2 + (k - 1))] = Heads(ring, i, j)[k + 1]
  <2>1. k + 1 \in 1 .. n /\ k - 1 \in 0 .. RING - 1 /\ i + 1 + (k - 1) = i + ((k + 1) - 1)
    BY <1>3
  <2>2. Heads(ring, i, j)[k + 1] = ring[SlotIn(IDX, RING, i + ((k + 1) - 1))]
    BY <2>1, <1>1, Zenon DEF HeadsFrom
  <2>3. SlotIn(IDX, RING, i2 + (k - 1)) = SlotIn(IDX, RING, i + 1 + (k - 1))
    BY <2>1, <1>8, Zenon
  <2>. QED BY <2>1, <2>2, <2>3, Zenon
<1>12. Heads(ring, i2, j) = Rest(Heads(ring, i, j), n)
  BY <1>9, <1>11, Zenon DEF HeadsFrom, Rest
<1>13. n \in Nat \ {0}
  BY <1>3
<1>. QED BY <1>5, <1>10, <1>12, <1>13, Zenon DEF n, i2

\* A ring without an entry twice.
Injective(s) == \A i, j \in DOMAIN s : s[i] = s[j] => i = j

\* One more entry, and one less.
LEMMA ExtendedIs ==
  ASSUME NEW s, NEW n \in Nat, DOMAIN s = 1 .. n, NEW x
  PROVE  /\ Range(Extended(s, n, x)) = Range(s) \cup {x}
         /\ Injective(s) /\ x \notin Range(s) => Injective(Extended(s, n, x))
<1> DEFINE t == Extended(s, n, x)
<1>1. DOMAIN t = 1 .. n + 1 /\ (\A k \in 1 .. n : t[k] = s[k]) /\ t[n + 1] = x
  BY DEF Extended
<1> HIDE DEF t
<1>2. n + 1 \in 1 .. n + 1 /\ \A k \in 1 .. n + 1 : k \in 1 .. n \/ k = n + 1
  OBVIOUS
<1>3. \A k \in 1 .. n : k \in 1 .. n + 1
  OBVIOUS
<1>4. \A y : y \in Range(t) <=> y \in Range(s) \/ y = x
  BY <1>1, <1>2, <1>3, Zenon DEF Range
<1>5. Injective(s) /\ x \notin Range(s) => Injective(t)
  BY <1>1, <1>2, <1>3, Zenon DEF Range, Injective
<1>. QED BY <1>4, <1>5, Zenon DEF t

\* What is left after the first head is taken: the queue one index further.
LEMMA RestIs ==
  ASSUME NEW s, NEW n \in Nat \ {0}, DOMAIN s = 1 .. n, Injective(s)
  PROVE  Range(Rest(s, n)) = Range(s) \ {s[1]} /\ s[1] \in Range(s) /\ Injective(Rest(s, n))
<1> DEFINE t == Rest(s, n)
<1>1. DOMAIN t = 1 .. n - 1 /\ \A k \in 1 .. n - 1 : t[k] = s[k + 1]
  BY Zenon DEF Rest
<1> HIDE DEF t
<1>2. 1 \in 1 .. n /\ \A k \in 1 .. n - 1 : k + 1 \in 1 .. n /\ k + 1 # 1
  OBVIOUS
<1>3. \A k \in 1 .. n : k = 1 \/ \E m \in 1 .. n - 1 : k = m + 1
  <2>. SUFFICES ASSUME NEW k \in 1 .. n, k # 1 PROVE \E m \in 1 .. n - 1 : k = m + 1
    BY Zenon
  <2>1. k - 1 \in 1 .. n - 1 /\ k = (k - 1) + 1
    OBVIOUS
  <2>. QED BY <2>1, Zenon
<1>4. ASSUME NEW y \in Range(t) PROVE y \in Range(s) /\ y # s[1]
  <2>1. PICK k \in 1 .. n - 1 : y = s[k + 1]
    BY <1>1, Zenon DEF Range
  <2>2. k + 1 \in 1 .. n /\ k + 1 # 1 /\ 1 \in 1 .. n
    BY <1>2, <2>1, Zenon
  <2>. QED BY <2>1, <2>2, Zenon DEF Range, Injective
<1>5. ASSUME NEW y \in Range(s), y # s[1] PROVE y \in Range(t)
  <2>1. PICK k \in 1 .. n : y = s[k]
    BY Zenon DEF Range
  <2>2. PICK m \in 1 .. n - 1 : k = m + 1
    BY <1>3, <1>5, <2>1, Zenon
  <2>. QED BY <1>1, <2>1, <2>2, Zenon DEF Range
<1>6. ASSUME NEW k \in 1 .. n - 1, NEW m \in 1 .. n - 1, k + 1 = m + 1 PROVE k = m
  BY <1>6
<1>7. Injective(t)
  BY <1>1, <1>2, <1>6, ZenonT(40) DEF Injective
<1>8. s[1] \in Range(s)
  BY <1>2, Zenon DEF Range
<1>. QED BY <1>4, <1>5, <1>7, <1>8, Zenon DEF t

\* What is put at the end of a queue is one more entry.
LEMMA PushIs ==
  ASSUME NEW ring, NEW i \in 0 .. IDX - 1, NEW j \in 0 .. IDX - 1, (j - i) % IDX < RING,
         ring[j % RING] \notin Range(Heads(ring, i, j)), Injective(Heads(ring, i, j))
  PROVE  /\ (j + 1) % IDX \in 0 .. IDX - 1
         /\ Injective(Heads(ring, i, (j + 1) % IDX))
         /\ Range(Heads(ring, i, (j + 1) % IDX)) = Range(Heads(ring, i, j)) \cup {ring[j % RING]}
<1> DEFINE n == (j - i) % IDX
<1>1. HeadsFrom(ring, i, j, n)
  BY HeadsAre, Zenon
<1>2. n \in Nat /\ DOMAIN Heads(ring, i, j) = 1 .. n
  <2> HIDE DEF n
  <2>. QED BY <1>1, Consts DEF HeadsFrom
<1>3. /\ (j + 1) % IDX \in 0 .. IDX - 1
      /\ Heads(ring, i, (j + 1) % IDX) = Extended(Heads(ring, i, j), n, ring[j % RING])
  BY Push, Zenon
<1> HIDE DEF n
<1>4. /\ Range(Extended(Heads(ring, i, j), n, ring[j % RING])) = Range(Heads(ring, i, j)) \cup {ring[j % RING]}
      /\ Injective(Extended(Heads(ring, i, j), n, ring[j % RING]))
  BY <1>2, ExtendedIs, Zenon
<1>. QED BY <1>3, <1>4, Zenon

\* What is taken from its head is one less.
LEMMA PopIs ==
  ASSUME NEW ring, NEW i \in 0 .. IDX - 1, NEW j \in 0 .. IDX - 1, (j - i) % IDX <= RING, i # j,
         Injective(Heads(ring, i, j))
  PROVE  /\ (i + 1) % IDX \in 0 .. IDX - 1
         /\ Injective(Heads(ring, (i + 1) % IDX, j))
         /\ ring[i % RING] \in Range(Heads(ring, i, j))
         /\ Range(Heads(ring, (i + 1) % IDX, j)) = Range(Heads(ring, i, j)) \ {ring[i % RING]}
<1> DEFINE n == (j - i) % IDX
<1>1. HeadsFrom(ring, i, j, n)
  BY HeadsAre, Zenon
<1>2. DOMAIN Heads(ring, i, j) = 1 .. n
  BY <1>1, Zenon DEF HeadsFrom
<1>3. /\ (i + 1) % IDX \in 0 .. IDX - 1 /\ n \in Nat \ {0} /\ Heads(ring, i, j)[1] = ring[i % RING]
      /\ Heads(ring, (i + 1) % IDX, j) = Rest(Heads(ring, i, j), n)
  BY Pop, Zenon
<1> HIDE DEF n
<1>4. /\ Range(Rest(Heads(ring, i, j), n)) = Range(Heads(ring, i, j)) \ {Heads(ring, i, j)[1]}
      /\ Heads(ring, i, j)[1] \in Range(Heads(ring, i, j)) /\ Injective(Rest(Heads(ring, i, j), n))
  BY <1>2, <1>3, RestIs, Zenon
<1>. QED BY <1>3, <1>4, Zenon

\* A queue with an entry is not empty.
LEMMA QueueEmpty ==
  ASSUME NEW ring, NEW i \in 0 .. IDX - 1, NEW j \in 0 .. IDX - 1
  PROVE  i = j <=> Range(Heads(ring, i, j)) = {}
<1> DEFINE n == (j - i) % IDX
<1>1. HeadsFrom(ring, i, j, n)
  BY HeadsAre, Zenon
<1> HIDE DEF n
<1>2. (i = j => 1 .. n = {}) /\ (i # j => 1 \in 1 .. n)
  BY <1>1, Consts DEF HeadsFrom
<1>3. DOMAIN Heads(ring, i, j) = 1 .. n
  BY <1>1, Zenon DEF HeadsFrom
<1>. QED BY <1>2, <1>3, Zenon DEF Range

-----------------------------------------------------------------------------
(* The invariant.                                                          *)

\* Where a process holds the sleeplock of its buffer.
HoldAt == {"have", "rw", "nodesc", "publish", "wdisk", "woken"}
At == HoldAt \cup {"idle", "lock", "locksleep", "relse"}

TypeBuf ==
  /\ scene \in Scene
  /\ lru \in [Buf -> Buf] /\ blockno \in [Buf -> Block \cup {None}] /\ valid \in [Buf -> BOOLEAN]
  /\ refcnt \in [Buf -> Int] /\ data \in [Buf -> Data] /\ owner \in [Buf -> Proc \cup {None}]
  /\ ondisk \in [Buf -> BOOLEAN]
  /\ platter \in [Block -> Data] /\ content \in [Block -> Data]

TypeReq ==
  /\ free \subseteq Desc /\ DOMAIN desc = Desc /\ DOMAIN idx = Proc
  /\ info \in [Desc -> [buf : Buf \cup {None}, ok : BOOLEAN]]

TypeRing ==
  /\ avail \in [0 .. RING - 1 -> Desc] /\ avail_idx \in 0 .. IDX - 1
  /\ used \in [0 .. RING - 1 -> Desc] /\ used_dev \in 0 .. IDX - 1 /\ used_idx \in 0 .. IDX - 1
  /\ seen \in 0 .. IDX - 1 /\ doing \subseteq Desc

TypeProc ==
  /\ at \in [Proc \cup {Intr} -> At \cup {"loop"}]
  /\ (\A p \in Proc : at[p] \in At) /\ at[Intr] \in {"idle", "loop"}
  /\ b \in [Proc -> Buf \cup {None}] /\ write \in [Proc -> BOOLEAN]
  /\ wanted \in [Proc -> Block \cup {None}]

TypeOK == TypeBuf /\ TypeReq /\ TypeRing /\ TypeProc

\* A process that is not idle has a buffer of the block it wants, which only
\* one process locks.
Locals ==
  /\ \A p \in Proc :
       /\ at[p] = "idle" => b[p] = None
       /\ at[p] # "idle" => /\ p \in scene.procs /\ b[p] \in Buf /\ wanted[p] \in scene.blocks
                            /\ blockno[b[p]] = wanted[p]
       /\ at[p] \in HoldAt => owner[b[p]] = p
  /\ \A k \in Buf : owner[k] # None => at[owner[k]] \in HoldAt /\ b[owner[k]] = k

\* The disk owns a buffer from the request on until the interrupt, and
\* vdisk_lock is held over the publication of a request and by the handler.
Owned ==
  /\ \A p \in Proc : /\ at[p] \in {"publish", "wdisk"} => ondisk[b[p]]
                     /\ at[p] \in HoldAt \ {"publish", "wdisk"} => ~ondisk[b[p]]
                     /\ at[p] = "publish" <=> vlock = p
  /\ \A k \in Buf : ondisk[k] => owner[k] # None
  /\ at[Intr] = "loop" <=> vlock = Intr

Users(k) == {p \in Proc : b[p] = k}

\* The list has every buffer, a block is in one of them at most, refcnt counts
\* the users and the pin of a buffer, and a pinned block is cached.
Cache ==
  /\ \A k \in Buf : \E i \in Buf : lru[i] = k
  /\ \A k, m \in Buf : blockno[k] = blockno[m] /\ blockno[k] # None => k = m
  /\ \A k \in Buf : /\ blockno[k] \in scene.blocks \cup {None}
                    /\ refcnt[k] = Cardinality(Users(k)) + IF blockno[k] \in pinned THEN 1 ELSE 0
  /\ pinned \subseteq scene.blocks /\ Cardinality(pinned) <= scene.maxpin
  /\ \A n \in pinned : \E k \in Buf : blockno[k] = n /\ valid[k]

\* p's request is a chain of three descriptors: of its command, its buffer and
\* its status.
ChainOf(p) ==
  LET i == idx[p]
  IN  /\ i = <<i[1], i[2], i[3]>> /\ i[1] \in Desc /\ i[2] \in Desc /\ i[3] \in Desc
      /\ i[1] # i[2] /\ i[1] # i[3] /\ i[2] # i[3]
      /\ desc[i[1]] = [addr |-> <<write[p], wanted[p]>>, next |-> i[2]]
      /\ desc[i[2]] = [addr |-> b[p], next |-> i[3]]
      /\ desc[i[3]] = [addr |-> i[1], next |-> None]
      /\ info[i[1]].buf = b[p]

Descs(p) == {idx[p][1], idx[p][2], idx[p][3]}

\* A descriptor is free or in one chain.
Chains ==
  /\ \A p \in Requesting : ChainOf(p)
  /\ \A p, q \in Requesting : p # q => Descs(p) \cap Descs(q) = {}
  /\ \A i \in Desc : i \in free <=> \A p \in Requesting : i \notin Descs(p)

\* The requests the device has not seen, and those the driver has not.
QA == Heads(avail, seen, avail_idx)
QU == Heads(used, used_idx, used_dev)

Waiting == {p \in Proc : at[p] = "wdisk"}

\* The request of a process that waits for the disk is in one place.
Queues ==
  /\ Injective(QA) /\ Injective(QU)
  /\ Range(QA) \cap doing = {} /\ Range(QA) \cap Range(QU) = {} /\ doing \cap Range(QU) = {}
  /\ Range(QA) \cup doing \cup Range(QU) = {idx[p][1] : p \in Waiting}
  /\ \A i \in Range(QU) : info[i].ok
  /\ \A p \in Proc : at[p] = "publish" => avail[avail_idx % RING] = idx[p][1]

\* The request of p has not been served yet.
Unserved(p) ==
  \/ at[p] \in {"rw", "nodesc", "publish"}
  \/ at[p] = "wdisk" /\ idx[p][1] \notin Range(QU)

\* A valid buffer has what was last made of its block.  So has the disk, unless
\* the block is pinned or a write of it is under way.
Coherent ==
  /\ \A k \in Buf : valid[k] /\ blockno[k] # None => data[k] = content[blockno[k]]
  /\ \A n \in Block : platter[n] # content[n] =>
        n \in pinned \/ \E p \in Proc : write[p] /\ wanted[p] = n /\ Unserved(p)
  /\ \A p \in Proc : at[p] \in HoldAt \ {"have"} => (write[p] <=> valid[b[p]])
  /\ \A p \in Proc : at[p] = "have" => valid[b[p]]
  /\ \A p \in Proc : at[p] \in {"wdisk", "woken"} /\ ~Unserved(p) => data[b[p]] = content[wanted[p]]

IInv ==
  TypeOK /\ Locals /\ Owned /\ Cache /\ Chains /\ Queues /\ Coherent /\ NoLostWakeup /\ panic = FALSE

-----------------------------------------------------------------------------
(* What the sizes of sets say of a state.                                  *)

\* S is finite: its size follows what is put in and what is taken out.
Counted(S) ==
  /\ Cardinality(S) \in Nat /\ (Cardinality(S) = 0 <=> S = {})
  /\ \A x : x \notin S => Cardinality(S \cup {x}) = Cardinality(S) + 1
  /\ \A x \in S : Cardinality(S \ {x}) = Cardinality(S) - 1

\* The searches of bget and alloc3_desc find what there is.  bget finds a buffer,
\* and the rings have an entry for every request.
Numbers ==
  /\ (\A k \in Buf : Counted(Users(k))) /\ Counted(pinned) /\ Counted(free)
  /\ \A S \in SUBSET (1 .. NBUF) : S # {} => Max(S) \in S
  /\ Cardinality(free) >= 3 =>
       /\ Lowest3 = <<Lowest3[1], Lowest3[2], Lowest3[3]>>
       /\ Lowest3[1] \in free /\ Lowest3[2] \in free /\ Lowest3[3] \in free
       /\ Lowest3[1] # Lowest3[2] /\ Lowest3[1] # Lowest3[3] /\ Lowest3[2] # Lowest3[3]
  /\ \A p \in scene.procs, n \in scene.blocks : at[p] = "idle" /\ Cached(n) = {} => Unused # {}
  /\ (avail_idx - seen) % IDX <= RING /\ (used_dev - used_idx) % IDX <= RING
  /\ Cardinality(free) >= 3 => (avail_idx - seen) % IDX < RING
  /\ (\E p \in Proc : at[p] = "publish") => (avail_idx - seen) % IDX < RING
  /\ doing # {} => (used_dev - used_idx) % IDX < RING

-----------------------------------------------------------------------------
(* The buffer cache.                                                       *)

\* Counting up and down.
LEMMA IntStep ==
  /\ \A x \in Int : x + 1 \in Int /\ x - 1 \in Int
  /\ \A x \in Nat : x + 0 = x /\ (x + 1) - 1 = x + 0 /\ (x + 0) + 1 = x + 1
  /\ \A x \in Nat : (x - 1) + 0 = (x + 0) - 1 /\ (x - 1) + 1 = (x + 1) - 1
  /\ \A x \in Nat : (x + 1) + 0 = (x + 0) + 1
  /\ \A x, y \in Nat : (x < y => x + 1 <= y) /\ (x <= y => x - 1 <= y)
  /\ \A x \in Nat : x >= 3 => ~(x < 3)
BY SMT

\* A block is in one buffer at most.
LEMMA OneBuffer ==
  ASSUME Cache, NEW k \in Buf, NEW m \in Buf, k # m, blockno[m] # None
  PROVE  blockno[k] # blockno[m]
BY Zenon DEF Cache

\* Two processes that hold sleeplocks hold those of different buffers.
LEMMA OtherBuffer ==
  ASSUME Locals, NEW p \in Proc, at[p] \in HoldAt, NEW q \in Proc, q # p, at[q] \in HoldAt
  PROVE  b[q] # b[p] /\ b[q] \in Buf
<1>1. owner[b[q]] = q /\ owner[b[p]] = p
  BY Zenon DEF Locals
<1>2. at[q] # "idle"
  BY Zenon DEF HoldAt
<1>. QED BY <1>1, <1>2, Zenon DEF Locals

\* A step that changes nothing of the requests and the rings.
LEMMA ChainsSame ==
  ASSUME Chains, UNCHANGED <<scene, free, desc, info, idx>>, Requesting' = Requesting,
         \A q \in Requesting : b'[q] = b[q] /\ write'[q] = write[q] /\ wanted'[q] = wanted[q]
  PROVE  Chains'
<1>1. \A q \in Requesting : ChainOf(q)'
  BY DEF Chains, ChainOf, Desc
<1>2. \A q : Descs(q)' = Descs(q)
  BY Zenon DEF Descs
<1>. QED BY <1>1, <1>2, Zenon DEF Chains, Desc

\* A step that leaves the rings alone, and keeps who publishes and who waits.
LEMMA QueuesSame ==
  ASSUME Queues, UNCHANGED <<avail, avail_idx, used, used_dev, used_idx, seen, doing, info, idx>>,
         \A q \in Proc : /\ at'[q] = "wdisk" <=> at[q] = "wdisk"
                         /\ at'[q] = "publish" <=> at[q] = "publish"
  PROVE  Queues' /\ Range(QU)' = Range(QU)
<1>1. QA' = QA /\ QU' = QU
  BY Zenon DEF QA, QU, Heads
<1>2. Waiting' = Waiting
  BY Zenon DEF Waiting
<1>3. {idx[p][1] : p \in Waiting}' = {idx[p][1] : p \in Waiting}
  BY <1>2, Zenon
<1>4. Range(QA)' = Range(QA) /\ Range(QU)' = Range(QU)
  BY <1>1, Zenon
<1>. QED BY <1>1, <1>3, <1>4, Zenon DEF Queues, Injective

\* A process that stays within HoldAt, and keeps its buffer.
LEMMA LocalsSame ==
  ASSUME TypeBuf, Locals, UNCHANGED <<scene, b, wanted, blockno, owner>>,
         \A q \in Proc : /\ at'[q] = "idle" <=> at[q] = "idle"
                         /\ at'[q] \in HoldAt <=> at[q] \in HoldAt
  PROVE  Locals'
<1>1. \A k \in Buf : owner[k] # None => owner[k] \in Proc
  BY Zenon DEF TypeBuf
<1>2. \A k \in Buf : owner[k] # None => at'[owner[k]] \in HoldAt /\ b[owner[k]] = k
  BY <1>1, Zenon DEF Locals
<1>3. \A q \in Proc :
        /\ at'[q] = "idle" => b[q] = None
        /\ at'[q] # "idle" => /\ q \in scene.procs /\ b[q] \in Buf /\ wanted[q] \in scene.blocks
                              /\ blockno[b[q]] = wanted[q]
        /\ at'[q] \in HoldAt => owner[b[q]] = q
  BY Zenon DEF Locals
<1>. QED BY <1>2, <1>3, Zenon DEF Locals, HoldAt

\* The users of the buffers, the list, the blocks and the pins stay.
LEMMA CacheSame ==
  ASSUME Cache, UNCHANGED <<scene, lru, blockno, valid, refcnt, pinned, b>>
  PROVE  Cache'
<1>1. \A k : Users(k)' = Users(k)
  BY Zenon DEF Users
<1>2. \A k \in Buf : /\ blockno[k] \in scene.blocks \cup {None}
                     /\ refcnt[k] = Cardinality(Users(k)') + IF blockno[k] \in pinned THEN 1 ELSE 0
  BY <1>1, Zenon DEF Cache
<1>. QED BY <1>2, Zenon DEF Cache

\* A step that leaves the locks of the buffers and the disk's claims on them.
LEMMA OwnedSame ==
  ASSUME Owned, UNCHANGED <<b, ondisk, vlock>>, at'[Intr] = at[Intr],
         \A k \in Buf : owner[k] # None /\ ondisk[k] => owner'[k] # None,
         \A q \in Proc : /\ at'[q] = "publish" <=> at[q] = "publish"
                         /\ at'[q] = "wdisk" <=> at[q] = "wdisk"
                         /\ at'[q] \in HoldAt => at[q] \in HoldAt \/ ~ondisk[b[q]]
  PROVE  Owned'
<1>1. ASSUME NEW q \in Proc
      PROVE  /\ at'[q] \in {"publish", "wdisk"} => ondisk[b[q]]
             /\ at'[q] \in HoldAt \ {"publish", "wdisk"} => ~ondisk[b[q]]
             /\ at'[q] = "publish" <=> vlock = q
  <2>1. /\ at[q] \in {"publish", "wdisk"} => ondisk[b[q]]
        /\ at[q] \in HoldAt \ {"publish", "wdisk"} => ~ondisk[b[q]]
        /\ at[q] = "publish" <=> vlock = q
    BY Zenon DEF Owned
  <2>2. at'[q] \in {"publish", "wdisk"} <=> at[q] \in {"publish", "wdisk"}
    BY Zenon
  <2>3. at'[q] \in HoldAt \ {"publish", "wdisk"} => ~ondisk[b[q]]
    BY <2>1, <2>2, Zenon
  <2>. QED BY <2>1, <2>2, <2>3, Zenon
<1>2. \A k \in Buf : ondisk[k] => owner'[k] # None
  BY Zenon DEF Owned
<1>. QED BY <1>1, <1>2, Zenon DEF Owned, HoldAt

\* What the invariant says of the buffer and the request of one process.
Held(q) ==
  /\ at[q] \in HoldAt \ {"have"} => (write[q] <=> valid[b[q]])
  /\ at[q] = "have" => valid[b[q]]
  /\ at[q] \in {"wdisk", "woken"} /\ ~Unserved(q) => data[b[q]] = content[wanted[q]]

\* A step that changes no block, in memory or on disk, and serves no request.
LEMMA CoherentSame ==
  ASSUME Coherent, UNCHANGED <<data, content, platter, pinned, blockno, valid>>,
         \A q \in Proc : Unserved(q) /\ write[q] => Unserved(q)' /\ write'[q] /\ wanted'[q] = wanted[q],
         \A q \in Proc : Held(q)'
  PROVE  Coherent'
<1>1. ASSUME NEW m \in Block, platter[m] # content[m], m \notin pinned
      PROVE  \E q \in Proc : write'[q] /\ wanted'[q] = m /\ Unserved(q)'
  <2>1. PICK q \in Proc : write[q] /\ wanted[q] = m /\ Unserved(q)
    BY <1>1, Zenon DEF Coherent
  <2>. QED BY <2>1, Zenon
<1>2. /\ \A q \in Proc : at'[q] \in HoldAt \ {"have"} => (write'[q] <=> valid[b'[q]])
      /\ \A q \in Proc : at'[q] = "have" => valid[b'[q]]
      /\ \A q \in Proc : at'[q] \in {"wdisk", "woken"} /\ ~Unserved(q)' => data[b'[q]] = content[wanted'[q]]
  BY Zenon DEF Held, HoldAt
<1>. QED BY <1>1, <1>2, Zenon DEF Coherent, HoldAt

\* A process whose place, buffer and request stay.
LEMMA HeldSame ==
  ASSUME Coherent, NEW q \in Proc, at'[q] = at[q], write'[q] = write[q], b'[q] = b[q], wanted'[q] = wanted[q],
         at[q] \in HoldAt => valid'[b[q]] = valid[b[q]] /\ data'[b[q]] = data[b[q]],
         content'[wanted[q]] = content[wanted[q]], Unserved(q)' <=> Unserved(q)
  PROVE  Held(q)'
<1>1. Held(q)
  BY Zenon DEF Coherent, Held
<1>2. "have" \in HoldAt /\ "wdisk" \in HoldAt /\ "woken" \in HoldAt
  BY Zenon DEF HoldAt
<1>3. at'[q] \in HoldAt \ {"have"} => (write'[q] <=> valid'[b'[q]])
  BY <1>1, Zenon DEF Held
<1>4. at'[q] = "have" => valid'[b'[q]]
  BY <1>1, <1>2, Zenon DEF Held
<1>5. at'[q] \in {"wdisk", "woken"} /\ ~Unserved(q)' => data'[b'[q]] = content'[wanted'[q]]
  BY <1>1, <1>2, Zenon DEF Held
<1>. QED BY <1>3, <1>4, <1>5, Zenon DEF Held, HoldAt

\* A process that is not at a request, and does not have its block yet.
LEMMA HeldOut ==
  ASSUME NEW q, at'[q] \notin HoldAt
  PROVE  Held(q)'
BY Zenon DEF Held, HoldAt

\* The parts of the invariant.
LEMMA Parts ==
  ASSUME IInv
  PROVE  /\ TypeBuf /\ TypeReq /\ TypeRing /\ TypeProc /\ Locals /\ Owned /\ Cache /\ Chains /\ Queues
         /\ Coherent /\ NoLostWakeup /\ panic = FALSE
         /\ scene.procs \subseteq Proc /\ scene.blocks \subseteq Block
BY SceneFacts, Zenon DEF IInv, TypeOK, TypeBuf

\* A sleeplock has one holder, and the users of a block use the same buffer.
LEMMA OneHolder ==
  ASSUME IInv, NEW p \in Proc, NEW q \in Proc, at[p] # "idle", at[q] # "idle"
  PROVE  /\ at[p] \in HoldAt /\ at[q] \in HoldAt /\ b[p] = b[q] => p = q
         /\ wanted[p] = wanted[q] <=> b[p] = b[q]
<1>1. Locals /\ Cache /\ scene.blocks \subseteq Block
  BY Parts, Zenon
<1>2. at[p] \in HoldAt /\ at[q] \in HoldAt /\ b[p] = b[q] => p = q
  BY <1>1 DEF Locals
<1>3. blockno[b[p]] = wanted[p] /\ blockno[b[q]] = wanted[q] /\ b[p] \in Buf /\ b[q] \in Buf /\ wanted[p] # None
  BY <1>1, Ids DEF Locals
<1>. QED BY <1>1, <1>2, <1>3 DEF Cache

\* bget leaves the process with a buffer for the block that nobody else used, or
\* that was for this block.
BufferTaken(p, n, k) ==
  /\ b' = [b EXCEPT ![p] = k] /\ wanted' = [wanted EXCEPT ![p] = n]
  /\ at' = [at EXCEPT ![p] = "lock"] /\ panic' = panic
  /\ blockno' = [blockno EXCEPT ![k] = n]
  /\ refcnt' = [refcnt EXCEPT ![k] = @ + 1]
  /\ \/ blockno[k] = n /\ valid' = valid
     \/ /\ Users(k) = {} /\ blockno[k] \notin pinned /\ Cached(n) = {}
        /\ valid' = [valid EXCEPT ![k] = FALSE]

\* bget takes a cached buffer of the block or recycles an unused one.
LEMMA bgetTakes ==
  ASSUME IInv, Numbers, NEW p \in scene.procs, NEW n \in scene.blocks, bget(p, n)
  PROVE  \E k \in Buf : BufferTaken(p, n, k)
<1>1. TypeBuf /\ Cache /\ at[p] = "idle"
  BY Parts, Zenon DEF bget
<1>2. CASE Cached(n) # {}
  <2> DEFINE k == CHOOSE k \in Cached(n) : TRUE
  <2>1. k \in Cached(n)
    BY <1>2, Zenon
  <2>2. /\ refcnt' = [refcnt EXCEPT ![k] = @ + 1] /\ b' = [b EXCEPT ![p] = k]
        /\ wanted' = [wanted EXCEPT ![p] = n]
        /\ at' = [at EXCEPT ![p] = "lock"] /\ UNCHANGED <<blockno, valid, panic>>
    BY <1>2, Zenon DEF bget, Goto
  <2> HIDE DEF k
  <2>3. k \in Buf /\ blockno[k] = n
    BY <2>1, Zenon DEF Cached
  <2>4. blockno' = [blockno EXCEPT ![k] = n]
    BY <1>1, <2>2, <2>3, Zenon DEF TypeBuf
  <2>. QED BY <2>2, <2>3, <2>4, Zenon DEF BufferTaken
<1>3. CASE Cached(n) = {}
  <2> DEFINE S == {i \in Buf : lru[i] \in Unused}
             k == lru[Max(S)]
  <2>1. Unused # {}
    BY <1>1, <1>3, Zenon DEF Numbers
  <2>2. S # {} /\ S \in SUBSET (1 .. NBUF)
    BY <1>1, <2>1 DEF Cache, Unused, Buf
  <2>3. Max(S) \in S
    <3> HIDE DEF S
    <3>. QED BY <2>2, Zenon DEF Numbers
  <2>4. k \in Unused
    BY <2>3, Zenon
  <2>5. /\ blockno' = [blockno EXCEPT ![k] = n] /\ valid' = [valid EXCEPT ![k] = FALSE]
        /\ refcnt' = [refcnt EXCEPT ![k] = 1] /\ b' = [b EXCEPT ![p] = k]
        /\ wanted' = [wanted EXCEPT ![p] = n]
        /\ at' = [at EXCEPT ![p] = "lock"] /\ UNCHANGED panic
    BY <1>3, <2>1, Zenon DEF bget, Goto, Recycled
  <2> HIDE DEF S, k
  <2>6. k \in Buf /\ refcnt[k] = 0
    BY <2>4, Zenon DEF Unused
  <2>7. Cardinality(Users(k)) \in Nat /\ (Cardinality(Users(k)) = 0 <=> Users(k) = {})
    BY <2>6, Zenon DEF Numbers, Counted
  <2>8. Users(k) = {} /\ blockno[k] \notin pinned
    BY <1>1, <2>6, <2>7, SMTT(40) DEF Cache
  <2>9. refcnt' = [refcnt EXCEPT ![k] = @ + 1]
    BY <2>5, <2>6
  <2>. QED BY <1>3, <2>5, <2>6, <2>8, <2>9, Zenon DEF BufferTaken
<1>. QED BY <1>2, <1>3, Zenon

\* bget counts the new user, and recycles only a buffer without users or a
\* pin, whose contents nobody reads: valid is cleared.
LEMMA bget_IInv ==
  ASSUME IInv, Numbers, NEW p \in scene.procs, NEW n \in scene.blocks, bget(p, n), UNCHANGED scene
  PROVE  IInv'
<1>1. PICK k \in Buf : BufferTaken(p, n, k)
  BY bgetTakes, Zenon
<1>2. /\ at[p] = "idle" /\ p \in Proc /\ n \in Block /\ b[p] = None
      /\ UNCHANGED <<lru, data, owner, ondisk, free, desc, info, avail, avail_idx, used, used_dev, used_idx,
                     vlock, seen, doing, platter, write, idx, pinned, content>>
  BY Parts, Zenon DEF bget, Locals, driver, rings, device
<1>3. TypeBuf /\ TypeReq /\ TypeRing /\ TypeProc /\ Locals /\ Owned /\ Cache /\ Chains /\ Queues
      /\ Coherent /\ NoLostWakeup
  BY Parts, Zenon
<1>4. TypeBuf'
  <2>1. valid' \in [Buf -> BOOLEAN]
    BY <1>1, <1>3, Zenon DEF TypeBuf, BufferTaken
  <2>2. blockno' \in [Buf -> Block \cup {None}] /\ refcnt' \in [Buf -> Int]
    BY <1>1, <1>2, <1>3 DEF TypeBuf, BufferTaken
  <2>. QED BY <1>2, <1>3, <2>1, <2>2, Zenon DEF TypeBuf
<1>5. TypeReq' /\ TypeRing'
  BY <1>2, <1>3, Zenon DEF TypeReq, TypeRing, Desc
<1>6. TypeProc'
  BY <1>1, <1>2, <1>3, Ids, Zenon DEF TypeProc, BufferTaken, At, HoldAt
<1>7. /\ at'[p] = "lock" /\ b'[p] = k /\ wanted'[p] = n
      /\ \A q \in Proc : q # p => at'[q] = at[q] /\ b'[q] = b[q] /\ wanted'[q] = wanted[q]
      /\ at'[Intr] = at[Intr]
  BY <1>1, <1>2, <1>3, Ids, Zenon DEF TypeProc, BufferTaken
<1>8. /\ \A q \in Proc : q # p /\ at[q] # "idle" =>
             blockno'[b[q]] = blockno[b[q]] /\ valid'[b[q]] = valid[b[q]]
  <2>. SUFFICES ASSUME NEW q \in Proc, q # p, at[q] # "idle"
                PROVE  blockno'[b[q]] = blockno[b[q]] /\ valid'[b[q]] = valid[b[q]]
    BY Zenon
  <2>1. b[q] \in Buf
    BY <1>3, Zenon DEF Locals
  <2>2. CASE b[q] # k
    BY <1>1, <1>3, <2>1, <2>2, ZenonT(40) DEF TypeBuf, BufferTaken
  <2>3. CASE b[q] = k
    <3>1. blockno[k] = n /\ valid' = valid
      BY <1>1, <2>3, Zenon DEF BufferTaken, Users
    <3>. QED BY <1>1, <1>3, <2>3, <3>1, Zenon DEF BufferTaken, TypeBuf
  <2>. QED BY <2>2, <2>3, Zenon
<1>9. Locals'
  <2>0. /\ blockno \in [Buf -> Block \cup {None}] /\ owner \in [Buf -> Proc \cup {None}]
        /\ blockno' = [blockno EXCEPT ![k] = n]
    BY <1>1, <1>3, Zenon DEF BufferTaken, TypeBuf
  <2>1. blockno'[k] = n
    BY <2>0, Zenon
  <2>2. ASSUME NEW q \in Proc
        PROVE  /\ at'[q] = "idle" => b'[q] = None
               /\ at'[q] # "idle" => /\ q \in scene.procs /\ b'[q] \in Buf /\ wanted'[q] \in scene.blocks
                                     /\ blockno'[b'[q]] = wanted'[q]
               /\ at'[q] \in HoldAt => owner[b'[q]] = q
    <3>1. CASE q = p
      BY <1>7, <2>1, <3>1, Zenon DEF HoldAt
    <3>2. CASE q # p
      <4>1. at'[q] = at[q] /\ b'[q] = b[q] /\ wanted'[q] = wanted[q]
        BY <1>7, <3>2, Zenon
      <4>2. /\ at[q] = "idle" => b[q] = None
            /\ at[q] # "idle" => /\ q \in scene.procs /\ b[q] \in Buf /\ wanted[q] \in scene.blocks
                                 /\ blockno[b[q]] = wanted[q]
            /\ at[q] \in HoldAt => owner[b[q]] = q
        BY <1>3, Zenon DEF Locals
      <4>3. at[q] # "idle" => blockno'[b[q]] = blockno[b[q]]
        BY <1>8, <3>2, Zenon
      <4>. QED BY <4>1, <4>2, <4>3, Zenon
    <3>. QED BY <3>1, <3>2, Zenon
  <2>3. ASSUME NEW j \in Buf, owner[j] # None
        PROVE  at'[owner[j]] \in HoldAt /\ b'[owner[j]] = j
    <3>0. owner[j] \in Proc
      BY <2>0, <2>3, Zenon
    <3>1. owner[j] \in Proc /\ at[owner[j]] \in HoldAt /\ b[owner[j]] = j
      BY <1>3, <2>3, <3>0, Zenon DEF Locals
    <3>2. owner[j] # p
      BY <1>2, <3>1, Zenon DEF HoldAt
    <3>. QED BY <1>7, <3>1, <3>2, Zenon
  <2>. QED BY <1>2, <2>2, <2>3, Zenon DEF Locals, HoldAt
<1>10. Owned'
  BY <1>2, <1>3, <1>7, ZenonT(40) DEF Owned, HoldAt
<1>11. Cache'
  <2>1. /\ Users(k)' = Users(k) \cup {p} /\ p \notin Users(k)
        /\ \A m \in Buf : m # k => Users(m)' = Users(m)
    BY <1>2, <1>7, Ids, Zenon DEF Users
  <2>2. Cardinality(Users(k)') = Cardinality(Users(k)) + 1
    BY <2>1, Zenon DEF Numbers, Counted
  <2>a. \A m \in Buf : Cardinality(Users(m)) \in Nat
    BY Zenon DEF Numbers, Counted
  <2>3. \A m \in Buf : refcnt'[m] = Cardinality(Users(m)') + IF blockno'[m] \in pinned THEN 1 ELSE 0
    <3>. SUFFICES ASSUME NEW m \in Buf
                  PROVE refcnt'[m] = Cardinality(Users(m)') + IF blockno'[m] \in pinned THEN 1 ELSE 0
      BY Zenon
    <3>1. refcnt[m] = Cardinality(Users(m)) + IF blockno[m] \in pinned THEN 1 ELSE 0
      BY <1>3, Zenon DEF Cache
    <3>2. CASE m # k
      <4>1. refcnt'[m] = refcnt[m] /\ blockno'[m] = blockno[m] /\ Users(m)' = Users(m)
        BY <1>1, <1>3, <2>1, <3>2, Zenon DEF BufferTaken, TypeBuf
      <4>. QED BY <3>1, <4>1, Zenon
    <3>3. CASE m = k
      <4>1. refcnt'[k] = refcnt[k] + 1 /\ blockno'[k] = n
        BY <1>1, <1>3, SMTT(40) DEF BufferTaken, TypeBuf
      <4>2. blockno[k] \in pinned <=> n \in pinned
        BY <1>1, <1>3, Zenon DEF BufferTaken, Cached, Cache
      <4>. QED BY <2>2, <2>a, <3>1, <3>3, <4>1, <4>2, SMTT(40)
    <3>. QED BY <3>2, <3>3, Zenon
  <2>4. \A m \in pinned : \E j \in Buf : blockno'[j] = m /\ valid'[j]
    BY <1>1, <1>3, SMTT(40) DEF BufferTaken, Cached, Cache, TypeBuf
  <2>5. \A j, m \in Buf : blockno'[j] = blockno'[m] /\ blockno'[j] # None => j = m
    BY <1>1, <1>3, SMTT(40) DEF BufferTaken, Cached, Cache, TypeBuf
  <2>6. \A j \in Buf : blockno'[j] \in scene.blocks \cup {None}
    BY <1>1, <1>3, SMTT(40) DEF BufferTaken, Cache, TypeBuf
  <2>. QED BY <1>2, <1>3, <2>3, <2>4, <2>5, <2>6, Zenon DEF Cache
<1>12. Chains'
  <2>1. Requesting' = Requesting /\ p \notin Requesting
    BY <1>2, <1>7, Zenon DEF Requesting
  <2>. QED BY <1>2, <1>3, <1>7, <2>1, ChainsSame, Zenon DEF Requesting
<1>13. Queues' /\ Range(QU)' = Range(QU)
  BY <1>2, <1>3, <1>7, QueuesSame, Zenon
<1>14. \A q \in Proc : Unserved(q)' <=> Unserved(q)
  BY <1>2, <1>7, <1>13, Zenon DEF Unserved
<1>15. Coherent'
  <2>1. ASSUME NEW m \in Buf, valid'[m] /\ blockno'[m] # None PROVE data[m] = content[blockno'[m]]
    <3>1. valid \in [Buf -> BOOLEAN] /\ blockno \in [Buf -> Block \cup {None}]
      BY <1>3, Zenon DEF TypeBuf
    <3>2. CASE m # k
      <4>1. valid'[m] = valid[m] /\ blockno'[m] = blockno[m]
        BY <1>1, <3>1, <3>2, Zenon DEF BufferTaken
      <4>. QED BY <1>3, <2>1, <4>1, Zenon DEF Coherent
    <3>3. CASE m = k
      <4>1. blockno'[k] = n
        BY <1>1, <3>1, Zenon DEF BufferTaken
      <4>2. valid' = valid /\ blockno[k] = n
        BY <1>1, <2>1, <3>1, <3>3, Zenon DEF BufferTaken
      <4>. QED BY <1>3, <2>1, <3>3, <4>1, <4>2, ZenonT(40) DEF Coherent
    <3>. QED BY <3>2, <3>3, Zenon
  <2>2. ASSUME NEW m \in Block, platter[m] # content[m], m \notin pinned
        PROVE  \E q \in Proc : write[q] /\ wanted'[q] = m /\ Unserved(q)'
    <3>1. PICK q \in Proc : write[q] /\ wanted[q] = m /\ Unserved(q)
      BY <1>3, <2>2, Zenon DEF Coherent
    <3>2. q # p
      BY <1>2, <3>1, Zenon DEF Unserved
    <3>. QED BY <1>7, <1>14, <3>1, <3>2, Zenon
  <2>3. ASSUME NEW q \in Proc PROVE Held(q)'
    <3>1. CASE q = p
      <4>1. at'[q] \notin HoldAt
        BY <1>7, <3>1, Zenon DEF HoldAt
      <4>. QED BY <4>1, HeldOut, Zenon
    <3>2. CASE q # p
      <4>1. at[q] \in HoldAt => valid'[b[q]] = valid[b[q]]
        BY <1>8, <3>2, Zenon DEF HoldAt
      <4>2. at'[q] = at[q] /\ b'[q] = b[q] /\ wanted'[q] = wanted[q] /\ write'[q] = write[q]
            /\ data' = data /\ content' = content
        BY <1>2, <1>7, <3>2, Zenon
      <4>. QED BY <1>3, <1>14, <4>1, <4>2, HeldSame, Zenon
    <3>. QED BY <3>1, <3>2, Zenon
  <2>4. /\ \A q \in Proc : at'[q] \in HoldAt \ {"have"} => (write'[q] <=> valid'[b'[q]])
        /\ \A q \in Proc : at'[q] = "have" => valid'[b'[q]]
        /\ \A q \in Proc : at'[q] \in {"wdisk", "woken"} /\ ~Unserved(q)' => data'[b'[q]] = content'[wanted'[q]]
    BY <2>3, Zenon DEF Held, HoldAt
  <2>. QED BY <1>2, <2>1, <2>2, <2>4, Zenon DEF Coherent, HoldAt
<1>16. NoLostWakeup'
  BY <1>2, <1>3, <1>7, ZenonT(40) DEF NoLostWakeup
<1>17. panic' = FALSE
  BY <1>1, Parts, Zenon DEF BufferTaken
<1>. QED BY <1>4, <1>5, <1>6, <1>9, <1>10, <1>11, <1>12, <1>13, <1>15, <1>16, <1>17, ZenonT(40) DEF IInv, TypeOK

\* acquiresleep gives the lock to one process at a time, and bread reads a
\* block exactly if its buffer is not valid.
LEMMA acquiresleep_IInv ==
  ASSUME IInv, NEW p \in scene.procs, acquiresleep(p), UNCHANGED scene
  PROVE  IInv'
<1>2. /\ at[p] = "lock" /\ p \in Proc /\ b[p] \in Buf
      /\ UNCHANGED <<lru, blockno, valid, refcnt, data, ondisk, free, desc, info, avail, avail_idx, used,
                     used_dev, used_idx, vlock, seen, doing, platter, b, idx, wanted, pinned, content, panic>>
  BY Parts, Zenon DEF acquiresleep, Locals, cache, driver, rings, device, ghosts
<1>3. TypeBuf /\ TypeReq /\ TypeRing /\ TypeProc /\ Locals /\ Owned /\ Cache /\ Chains /\ Queues
      /\ Coherent /\ NoLostWakeup /\ panic = FALSE
  BY Parts, Zenon
<1>4. \/ /\ owner[b[p]] # None /\ at' = [at EXCEPT ![p] = "locksleep"] /\ owner' = owner /\ write' = write
      \/ /\ owner[b[p]] = None /\ at' = [at EXCEPT ![p] = IF valid[b[p]] THEN "have" ELSE "rw"]
         /\ owner' = [owner EXCEPT ![b[p]] = p] /\ write' = [write EXCEPT ![p] = FALSE]
  BY Zenon DEF acquiresleep, Goto
<1>5. TypeBuf' /\ TypeReq' /\ TypeRing'
  <2>1. owner' \in [Buf -> Proc \cup {None}]
    BY <1>2, <1>3, <1>4, ZenonT(40) DEF TypeBuf
  <2>. QED BY <1>2, <1>3, <2>1, Zenon DEF TypeBuf, TypeReq, TypeRing, Desc
<1>6. /\ \A q \in Proc : q # p => at'[q] = at[q] /\ write'[q] = write[q]
      /\ at'[p] \in {"locksleep", "have", "rw"} /\ at'[Intr] = at[Intr]
      /\ (at'[p] = "locksleep" => owner' = owner /\ owner[b[p]] # None)
      /\ (at'[p] # "locksleep" => /\ owner[b[p]] = None /\ owner' = [owner EXCEPT ![b[p]] = p] /\ write'[p] = FALSE
                                  /\ (at'[p] = "have" <=> valid[b[p]]))
  BY <1>2, <1>3, <1>4, Ids, ZenonT(40) DEF TypeProc
<1>7. TypeProc'
  <2>1. write \in [Proc -> BOOLEAN] /\ at \in [Proc \cup {Intr} -> At \cup {"loop"}]
    BY <1>3, Zenon DEF TypeProc
  <2>2. write' \in [Proc -> BOOLEAN]
    BY <1>2, <1>4, <2>1, Zenon
  <2>3. \E v \in At : at' = [at EXCEPT ![p] = v]
    BY <1>4, Zenon DEF At, HoldAt
  <2>4. at' \in [Proc \cup {Intr} -> At \cup {"loop"}]
    BY <1>2, <2>1, <2>3, Zenon
  <2>. QED BY <1>2, <1>3, <1>6, <2>2, <2>4, Zenon DEF TypeProc, At, HoldAt
<1>8. Locals'
  <2>0. \A k \in Buf : /\ k # b[p] => owner'[k] = owner[k]
                       /\ at'[p] = "locksleep" => owner'[k] = owner[k]
                       /\ at'[p] # "locksleep" => owner'[b[p]] = p
    BY <1>2, <1>3, <1>6, Zenon DEF TypeBuf
  <2>1. ASSUME NEW q \in Proc
        PROVE  /\ at'[q] = "idle" => b[q] = None
               /\ at'[q] # "idle" => /\ q \in scene.procs /\ b[q] \in Buf /\ wanted[q] \in scene.blocks
                                     /\ blockno[b[q]] = wanted[q]
               /\ at'[q] \in HoldAt => owner'[b[q]] = q
    <3>1. CASE q = p
      <4>1. at[q] # "idle" /\ at'[q] # "idle" /\ (at'[q] \in HoldAt => at'[p] # "locksleep")
        BY <1>2, <1>6, <3>1, Zenon DEF HoldAt
      <4>. QED BY <1>2, <1>3, <2>0, <3>1, <4>1, Zenon DEF Locals
    <3>2. CASE q # p
      <4>1. at[q] \in HoldAt => owner'[b[q]] = q
        <5>. SUFFICES ASSUME at[q] \in HoldAt PROVE owner'[b[q]] = q
          BY Zenon
        <5>1. owner[b[q]] = q /\ b[q] \in Buf
          BY <1>3, Zenon DEF Locals, HoldAt
        <5>2. CASE at'[p] = "locksleep"
          BY <2>0, <5>1, <5>2, Zenon
        <5>3. CASE at'[p] # "locksleep"
          <6>1. b[q] # b[p]
            BY <1>6, <5>1, <5>3, Ids, ZenonT(40)
          <6>. QED BY <2>0, <5>1, <6>1, Zenon
        <5>. QED BY <5>2, <5>3, Zenon
      <4>. QED BY <1>3, <1>6, <3>2, <4>1, Zenon DEF Locals
    <3>. QED BY <3>1, <3>2, Zenon
  <2>2. ASSUME NEW k \in Buf, owner'[k] # None
        PROVE  at'[owner'[k]] \in HoldAt /\ b[owner'[k]] = k
    <3>1. CASE owner'[k] = owner[k]
      <4>0. owner \in [Buf -> Proc \cup {None}] /\ owner[k] # None
        BY <1>3, <2>2, <3>1, Zenon DEF TypeBuf
      <4>a. owner[k] \in Proc
        BY <4>0, Zenon
      <4>1. owner[k] \in Proc /\ at[owner[k]] \in HoldAt /\ b[owner[k]] = k
        BY <1>3, <4>0, <4>a, Zenon DEF Locals
      <4>2. owner[k] # p
        BY <1>2, <4>1, Zenon DEF HoldAt
      <4>. QED BY <1>6, <3>1, <4>1, <4>2, Zenon
    <3>2. CASE owner'[k] # owner[k]
      <4>1. k = b[p] /\ at'[p] # "locksleep"
        BY <2>0, <3>2, Zenon
      <4>. QED BY <1>6, <2>0, <4>1, Zenon DEF HoldAt
    <3>. QED BY <3>1, <3>2, Zenon
  <2>. QED BY <1>2, <2>1, <2>2, Zenon DEF Locals, HoldAt
<1>9. Owned'
  <2>1. \A k \in Buf : owner[k] # None => owner'[k] # None
    BY <1>2, <1>3, <1>6, Ids, Zenon DEF TypeBuf
  <2>2. at'[p] \in HoldAt => ~ondisk[b[p]]
    BY <1>2, <1>3, <1>6, Zenon DEF Owned, HoldAt
  <2>3. \A q \in Proc : /\ at'[q] = "publish" <=> at[q] = "publish"
                        /\ at'[q] = "wdisk" <=> at[q] = "wdisk"
                        /\ at'[q] \in HoldAt => at[q] \in HoldAt \/ ~ondisk[b[q]]
    BY <1>2, <1>6, <2>2, Zenon
  <2>. QED BY <1>2, <1>3, <1>6, <2>1, <2>3, OwnedSame, Zenon
<1>10. Cache'
  BY <1>2, <1>3, CacheSame, Zenon
<1>11. Chains'
  <2>1. Requesting' = Requesting /\ p \notin Requesting
    BY <1>2, <1>6, Zenon DEF Requesting
  <2>. QED BY <1>2, <1>3, <1>6, <2>1, ChainsSame, Zenon DEF Requesting
<1>12. Queues' /\ Range(QU)' = Range(QU)
  BY <1>2, <1>3, <1>6, QueuesSame, Zenon
<1>13. Coherent'
  <2>1. \A q \in Proc : q # p => (Unserved(q)' <=> Unserved(q))
    BY <1>2, <1>6, <1>12, Zenon DEF Unserved
  <2>2. ~Unserved(p)
    BY <1>2, Zenon DEF Unserved
  <2>3. ASSUME NEW q \in Proc PROVE Held(q)'
    <3>1. CASE q = p
      <4>1. CASE at'[p] = "locksleep"
        BY <3>1, <4>1, HeldOut, Zenon DEF HoldAt
      <4>2. CASE at'[p] # "locksleep"
        <5>1. valid[b[p]] \in BOOLEAN
          BY <1>2, <1>3, Zenon DEF TypeBuf
        <5>. QED BY <1>2, <1>6, <3>1, <4>2, <5>1, Zenon DEF Held, HoldAt
      <4>. QED BY <4>1, <4>2, Zenon
    <3>2. CASE q # p
      BY <1>2, <1>3, <1>6, <2>1, <3>2, HeldSame, Zenon
    <3>. QED BY <3>1, <3>2, Zenon
  <2>4. \A q \in Proc : Unserved(q) /\ write[q] => Unserved(q)' /\ write'[q] /\ wanted'[q] = wanted[q]
    BY <1>2, <1>6, <2>1, <2>2, Zenon
  <2>. QED BY <1>2, <1>3, <2>3, <2>4, CoherentSame, Zenon
<1>14. NoLostWakeup'
  <2>1. \A k \in Buf : owner[k] # None => owner'[k] # None
    BY <1>2, <1>3, <1>6, Ids, Zenon DEF TypeBuf
  <2>2. \A q \in Proc : at[q] # "idle" => b[q] \in Buf
    BY <1>3, Zenon DEF Locals
  <2>. QED BY <1>2, <1>3, <1>6, <2>1, <2>2, Zenon DEF NoLostWakeup
<1>. QED BY <1>2, <1>3, <1>5, <1>7, <1>8, <1>9, <1>10, <1>11, <1>12, <1>13, <1>14, Zenon DEF IInv, TypeOK

\* The holder of a buffer changes its block: the buffer has the new contents.
LEMMA Changed ==
  ASSUME IInv, NEW p \in scene.procs, Change(p)
  PROVE  /\ at[p] = "have" /\ p \in Proc /\ b[p] \in Buf /\ wanted[p] \in Block /\ wanted[p] \in scene.blocks
         /\ wanted[p] = blockno[b[p]] /\ valid[b[p]]
         /\ data' \in [Buf -> Data] /\ content' \in [Block -> Data]
         /\ data'[b[p]] = content'[wanted[p]]
         /\ \A k \in Buf : k # b[p] => data'[k] = data[k]
         /\ \A n \in Block : n # wanted[p] => content'[n] = content[n]
         /\ UNCHANGED <<lru, blockno, valid, owner, ondisk, free, desc, info, avail, avail_idx, used,
                     used_dev, used_idx, vlock, seen, doing, platter, b, idx, wanted, panic>>
<1>1. /\ at[p] = "have" /\ p \in Proc /\ b[p] \in Buf /\ wanted[p] \in Block /\ wanted[p] \in scene.blocks
      /\ wanted[p] = blockno[b[p]] /\ valid[b[p]]
  BY Parts, Zenon DEF Change, Locals, Coherent
<1>2. PICK d \in Data : data' = [data EXCEPT ![b[p]] = d] /\ content' = [content EXCEPT ![wanted[p]] = d]
  BY Zenon DEF Change
<1>3. /\ data' \in [Buf -> Data] /\ content' \in [Block -> Data]
      /\ data'[b[p]] = content'[wanted[p]]
      /\ \A k \in Buf : k # b[p] => data'[k] = data[k]
      /\ \A n \in Block : n # wanted[p] => content'[n] = content[n]
  BY <1>1, <1>2, Parts, Zenon DEF TypeBuf
<1>. QED BY <1>1, <1>3, Zenon DEF Change, driver, rings, device

\* No other block, buffer or request is affected.
LEMMA ChangedCoherent ==
  ASSUME IInv, NEW p \in scene.procs, Change(p), Range(QU)' = Range(QU),
         \A q \in Proc : q # p => at'[q] = at[q] /\ write'[q] = write[q],
         pinned \subseteq pinned',
         \/ at'[p] = "rw" /\ write'[p] = TRUE
         \/ at'[p] = "have" /\ wanted[p] \in pinned'
  PROVE  Coherent'
<1>1. Locals /\ Cache /\ Coherent /\ TypeBuf
  BY Parts, Zenon
<1>2. /\ at[p] = "have" /\ p \in Proc /\ b[p] \in Buf /\ wanted[p] \in Block
      /\ wanted[p] = blockno[b[p]] /\ valid[b[p]] /\ data'[b[p]] = content'[wanted[p]]
      /\ \A k \in Buf : k # b[p] => data'[k] = data[k]
      /\ \A n \in Block : n # wanted[p] => content'[n] = content[n]
      /\ UNCHANGED <<blockno, valid, platter, b, idx, wanted>>
  BY Changed, Zenon
<1>3. \A q \in Proc : q # p => (Unserved(q)' <=> Unserved(q))
  BY <1>2, Zenon DEF Unserved
<1>4. ~Unserved(p)
  BY <1>2, Zenon DEF Unserved
<1>5. \A k \in Buf : valid[k] /\ blockno[k] # None => data'[k] = content'[blockno[k]]
  <2>. SUFFICES ASSUME NEW k \in Buf, valid[k], blockno[k] # None PROVE data'[k] = content'[blockno[k]]
    BY Zenon
  <2>1. CASE k = b[p]
    BY <1>2, <2>1, Zenon
  <2>2. CASE k # b[p]
    <3>0. blockno \in [Buf -> Block \cup {None}]
      BY <1>1, Zenon DEF TypeBuf
    <3>1. blockno[k] \in Block /\ blockno[b[p]] # None
      BY <1>2, <3>0, Ids, ZenonT(40)
    <3>2. blockno[k] # wanted[p]
      BY <1>1, <1>2, <2>2, <3>1, OneBuffer, Zenon
    <3>. QED BY <1>1, <1>2, <2>2, <3>1, <3>2, Zenon DEF Coherent
  <2>. QED BY <2>1, <2>2, Zenon
<1>6. ASSUME NEW m \in Block, platter[m] # content'[m]
      PROVE  m \in pinned' \/ \E q \in Proc : write'[q] /\ wanted[q] = m /\ Unserved(q)'
  <2>1. CASE m = wanted[p]
    BY <1>2, <2>1, Zenon DEF Unserved
  <2>2. CASE m # wanted[p]
    <3>1. CASE m \in pinned
      BY <3>1, Zenon
    <3>2. CASE m \notin pinned
      <4>1. platter[m] # content[m]
        BY <1>2, <1>6, <2>2, Zenon
      <4>2. PICK q \in Proc : write[q] /\ wanted[q] = m /\ Unserved(q)
        BY <1>1, <3>2, <4>1, Zenon DEF Coherent
      <4>3. q # p
        BY <1>4, <4>2, Zenon
      <4>. QED BY <1>3, <4>2, <4>3, Zenon
    <3>. QED BY <3>1, <3>2, Zenon
  <2>. QED BY <2>1, <2>2, Zenon
<1>7. /\ \A q \in Proc : at'[q] \in HoldAt \ {"have"} => (write'[q] <=> valid[b[q]])
      /\ \A q \in Proc : at'[q] = "have" => valid[b[q]]
  <2>1. ASSUME NEW q \in Proc
        PROVE  /\ at'[q] \in HoldAt \ {"have"} => (write'[q] <=> valid[b[q]])
               /\ at'[q] = "have" => valid[b[q]]
    <3>1. CASE q = p
      BY <1>2, <3>1, Zenon
    <3>2. CASE q # p
      BY <1>1, <3>2, Zenon DEF Coherent
    <3>. QED BY <3>1, <3>2, Zenon
  <2>. QED BY <2>1, Zenon
<1>8. ASSUME NEW q \in Proc, at'[q] \in {"wdisk", "woken"} /\ ~Unserved(q)'
      PROVE  data'[b[q]] = content'[wanted[q]]
  <2>1. q # p /\ at[q] \in HoldAt /\ at[q] # "idle" /\ at[p] \in HoldAt /\ at[p] # "idle"
    BY <1>2, <1>8, Zenon DEF HoldAt
  <2>2. b[q] # b[p] /\ wanted[q] # wanted[p]
    BY <1>2, <2>1, OneHolder, Zenon
  <2>3. b[q] \in Buf /\ wanted[q] \in Block
    BY <1>1, <2>1, Parts, Zenon DEF Locals
  <2>. QED BY <1>1, <1>2, <1>3, <1>8, <2>1, <2>2, <2>3, ZenonT(40) DEF Coherent
<1>. QED BY <1>2, <1>5, <1>6, <1>7, <1>8, Zenon DEF Coherent

\* bwrite: the disk lacks the change until the request is served.
LEMMA bwrite_IInv ==
  ASSUME IInv, NEW p \in scene.procs, bwrite(p), UNCHANGED scene
  PROVE  IInv'
<1>2. /\ at[p] = "have" /\ p \in Proc /\ b[p] \in Buf
      /\ data' \in [Buf -> Data] /\ content' \in [Block -> Data]
      /\ UNCHANGED <<lru, blockno, valid, owner, ondisk, free, desc, info, avail, avail_idx, used,
                     used_dev, used_idx, vlock, seen, doing, platter, b, idx, wanted, panic>>
  BY Changed, Zenon DEF bwrite
<1>a. refcnt' = refcnt /\ pinned' = pinned /\ write' = [write EXCEPT ![p] = TRUE] /\ at' = [at EXCEPT ![p] = "rw"]
  BY Zenon DEF bwrite, Goto
<1>3. TypeBuf /\ TypeReq /\ TypeRing /\ TypeProc /\ Locals /\ Owned /\ Cache /\ Chains /\ Queues
      /\ Coherent /\ NoLostWakeup /\ panic = FALSE
  BY Parts, Zenon
<1>5. TypeBuf' /\ TypeReq' /\ TypeRing'
  BY <1>2, <1>a, <1>3, Zenon DEF TypeBuf, TypeReq, TypeRing, Desc
<1>6. /\ \A q \in Proc : q # p => at'[q] = at[q] /\ write'[q] = write[q]
      /\ at'[p] = "rw" /\ at'[Intr] = at[Intr] /\ write'[p] = TRUE
  BY <1>2, <1>3, <1>a, Ids, Zenon DEF TypeProc
<1>7. TypeProc'
  BY <1>2, <1>3, <1>a, Ids, Zenon DEF TypeProc, At, HoldAt
<1>4. NoLostWakeup'
  BY <1>2, <1>3, <1>6, ZenonT(40) DEF NoLostWakeup
<1>8. Locals'
  <2>1. \A q \in Proc : /\ at'[q] = "idle" <=> at[q] = "idle"
                        /\ at'[q] \in HoldAt <=> at[q] \in HoldAt
    BY <1>2, <1>6, Zenon DEF HoldAt
  <2>. QED BY <1>2, <1>3, <2>1, LocalsSame, Zenon
<1>9. Owned'
  BY <1>2, <1>3, <1>6, ZenonT(40) DEF Owned, HoldAt
<1>10. Cache'
  BY <1>2, <1>3, <1>a, CacheSame, Zenon
<1>11. Chains'
  <2>1. Requesting' = Requesting /\ p \notin Requesting
    BY <1>2, <1>6, Zenon DEF Requesting
  <2>. QED BY <1>2, <1>3, <1>6, <2>1, ChainsSame, Zenon DEF Requesting
<1>12. Queues' /\ Range(QU)' = Range(QU)
  BY <1>2, <1>3, <1>6, QueuesSame, Zenon
<1>13. Coherent'
  BY <1>6, <1>12, <1>a, ChangedCoherent, Zenon DEF bwrite
<1>. QED BY <1>2, <1>3, <1>4, <1>5, <1>7, <1>8, <1>9, <1>10, <1>11, <1>12, <1>13, ZenonT(40) DEF IInv, TypeOK

\* bpin: the disk lacks the change, and the pin keeps the buffer.
LEMMA bpin_IInv ==
  ASSUME IInv, Numbers, NEW p \in scene.procs, bpin(p), UNCHANGED scene
  PROVE  IInv'
<1>2. /\ at[p] = "have" /\ p \in Proc /\ b[p] \in Buf /\ wanted[p] \in scene.blocks
      /\ wanted[p] = blockno[b[p]] /\ valid[b[p]]
      /\ data' \in [Buf -> Data] /\ content' \in [Block -> Data]
      /\ UNCHANGED <<lru, blockno, valid, owner, ondisk, free, desc, info, avail, avail_idx, used,
                     used_dev, used_idx, vlock, seen, doing, platter, b, idx, wanted, panic>>
  BY Changed, Zenon DEF bpin
<1>a. /\ write' = write /\ at' = at /\ pinned' = pinned \cup {wanted[p]}
      /\ wanted[p] \in pinned \/ Cardinality(pinned) < scene.maxpin
      /\ refcnt' = IF wanted[p] \in pinned THEN refcnt ELSE [refcnt EXCEPT ![b[p]] = @ + 1]
  BY Zenon DEF bpin, Pin
<1>3. TypeBuf /\ TypeReq /\ TypeRing /\ TypeProc /\ Locals /\ Owned /\ Cache /\ Chains /\ Queues
      /\ Coherent /\ NoLostWakeup /\ panic = FALSE
  BY Parts, Zenon
<1>4. refcnt' \in [Buf -> Int]
  <2>1. refcnt \in [Buf -> Int]
    BY <1>3, Zenon DEF TypeBuf
  <2>2. refcnt[b[p]] + 1 \in Int
    BY <1>2, <2>1, IntStep, Zenon
  <2>. QED BY <1>2, <1>a, <2>1, <2>2, Zenon
<1>5. TypeBuf' /\ TypeReq' /\ TypeRing' /\ TypeProc'
  BY <1>2, <1>a, <1>3, <1>4, Zenon DEF TypeBuf, TypeReq, TypeRing, TypeProc, Desc
<1>6. Locals' /\ Owned' /\ NoLostWakeup'
  BY <1>2, <1>3, <1>a, Zenon DEF Locals, Owned, NoLostWakeup
<1>7. Cache'
  <2>1. \A k \in Buf : Users(k)' = Users(k)
    BY <1>2, Zenon DEF Users
  <2>2. \A k \in Buf : Cardinality(Users(k)) \in Nat
    BY Zenon DEF Numbers, Counted
  <2>3. \A k \in Buf : k # b[p] => blockno[k] # wanted[p]
    <3>1. wanted[p] # None
      BY <1>2, Parts, Ids, Zenon
    <3>. QED BY <1>2, <1>3, <3>1, OneBuffer, Zenon
  <2>4. ASSUME NEW k \in Buf
        PROVE  refcnt'[k] = Cardinality(Users(k)) + IF blockno[k] \in pinned' THEN 1 ELSE 0
    <3>1. refcnt[k] = Cardinality(Users(k)) + IF blockno[k] \in pinned THEN 1 ELSE 0
      BY <1>3, Zenon DEF Cache
    <3>2. CASE wanted[p] \in pinned \/ k # b[p]
      <4>1. refcnt'[k] = refcnt[k]
        BY <1>2, <1>3, <1>a, <3>2, Zenon DEF TypeBuf
      <4>2. blockno[k] \in pinned' <=> blockno[k] \in pinned
        BY <1>2, <1>a, <2>3, <3>2, Zenon
      <4>. QED BY <3>1, <4>1, <4>2, Zenon
    <3>3. CASE wanted[p] \notin pinned /\ k = b[p]
      <4>1. refcnt \in [Buf -> Int]
        BY <1>3, Zenon DEF TypeBuf
      <4>2. refcnt'[k] = refcnt[k] + 1
        BY <1>2, <1>a, <3>3, <4>1, Zenon
      <4>3. blockno[k] \notin pinned /\ blockno[k] \in pinned'
        BY <1>2, <1>a, <3>3, Zenon
      <4>4. refcnt'[k] = (Cardinality(Users(k)) + 0) + 1
        BY <3>1, <4>2, <4>3, Zenon
      <4>5. refcnt'[k] = Cardinality(Users(k)) + 1
        BY <2>2, <4>4, IntStep, Zenon
      <4>. QED BY <4>3, <4>5, Zenon
    <3>. QED BY <3>2, <3>3, Zenon
  <2>5. Cardinality(pinned') <= scene.maxpin
    <3>0. Counted(pinned)
      BY Zenon DEF Numbers
    <3>1. Cardinality(pinned) \in Nat /\ scene.maxpin \in Nat
      BY <1>3, <3>0, SceneFacts, Zenon DEF Counted, TypeBuf
    <3>2. Cardinality(pinned) <= scene.maxpin
      BY <1>3, Zenon DEF Cache
    <3>3. CASE wanted[p] \in pinned
      <4>1. pinned' = pinned
        BY <1>a, <3>3, Zenon
      <4>. QED BY <3>2, <4>1, Zenon
    <3>4. CASE wanted[p] \notin pinned
      <4>1. Cardinality(pinned') = Cardinality(pinned) + 1
        BY <1>a, <3>0, <3>4, Zenon DEF Counted
      <4>2. Cardinality(pinned) < scene.maxpin
        BY <1>a, <3>4, Zenon
      <4>. QED BY <3>1, <4>1, <4>2, IntStep, Zenon
    <3>. QED BY <3>3, <3>4, Zenon
  <2>6. \A n \in pinned' : \E k \in Buf : blockno[k] = n /\ valid[k]
    BY <1>2, <1>3, <1>a, ZenonT(40) DEF Cache
  <2>7. pinned' \subseteq scene.blocks
    BY <1>2, <1>3, <1>a, Zenon DEF Cache
  <2>8. /\ \A k \in Buf : \E i \in Buf : lru[i] = k
        /\ \A k, m \in Buf : blockno[k] = blockno[m] /\ blockno[k] # None => k = m
        /\ \A k \in Buf : blockno[k] \in scene.blocks \cup {None}
    BY <1>3, Zenon DEF Cache
  <2>. QED BY <1>2, <2>1, <2>4, <2>5, <2>6, <2>7, <2>8, ZenonT(40) DEF Cache
<1>8. Chains'
  BY <1>2, <1>3, <1>a, ChainsSame, Zenon DEF Requesting
<1>9. Queues' /\ Range(QU)' = Range(QU)
  BY <1>2, <1>3, <1>a, QueuesSame, ZenonT(40)
<1>10. Coherent'
  BY <1>2, <1>9, <1>a, ChangedCoherent, Zenon DEF bpin
<1>. QED BY <1>2, <1>3, <1>5, <1>6, <1>7, <1>8, <1>9, <1>10, Zenon DEF IInv, TypeOK

\* install_trans writes a pinned block.
LEMMA bwrite_pinned_IInv ==
  ASSUME IInv, NEW p \in scene.procs, bwrite_pinned(p), UNCHANGED scene
  PROVE  IInv'
<1>2. /\ at[p] = "have" /\ p \in Proc /\ b[p] \in Buf
      /\ write' = [write EXCEPT ![p] = TRUE] /\ at' = [at EXCEPT ![p] = "rw"]
      /\ UNCHANGED <<lru, blockno, valid, refcnt, data, owner, ondisk, free, desc, info, avail, avail_idx, used,
                     used_dev, used_idx, vlock, seen, doing, platter, b, idx, wanted, pinned, content, panic>>
  BY Parts, Zenon DEF bwrite_pinned, Goto, Locals, cache, driver, rings, device, ghosts
<1>3. TypeBuf /\ TypeReq /\ TypeRing /\ TypeProc /\ Locals /\ Owned /\ Cache /\ Chains /\ Queues
      /\ Coherent /\ NoLostWakeup /\ panic = FALSE
  BY Parts, Zenon
<1>5. TypeBuf' /\ TypeReq' /\ TypeRing'
  BY <1>2, <1>3, Zenon DEF TypeBuf, TypeReq, TypeRing, Desc
<1>6. /\ \A q \in Proc : q # p => at'[q] = at[q] /\ write'[q] = write[q]
      /\ at'[p] = "rw" /\ at'[Intr] = at[Intr] /\ write'[p] = TRUE
  BY <1>2, <1>3, Ids, Zenon DEF TypeProc
<1>7. TypeProc'
  BY <1>2, <1>3, Ids, Zenon DEF TypeProc, At, HoldAt
<1>8. Locals'
  <2>1. \A q \in Proc : /\ at'[q] = "idle" <=> at[q] = "idle"
                        /\ at'[q] \in HoldAt <=> at[q] \in HoldAt
    BY <1>2, <1>6, Zenon DEF HoldAt
  <2>. QED BY <1>2, <1>3, <2>1, LocalsSame, Zenon
<1>9. Owned' /\ NoLostWakeup'
  <2>1. \A q \in Proc : /\ at'[q] = "publish" <=> at[q] = "publish"
                        /\ at'[q] = "wdisk" <=> at[q] = "wdisk"
                        /\ at'[q] \in HoldAt => at[q] \in HoldAt \/ ~ondisk[b[q]]
    BY <1>2, <1>6, Zenon DEF HoldAt
  <2>2. Owned'
    BY <1>2, <1>3, <1>6, <2>1, OwnedSame, Zenon
  <2>3. NoLostWakeup'
    BY <1>2, <1>3, <1>6, ZenonT(40) DEF NoLostWakeup
  <2>. QED BY <2>2, <2>3, Zenon
<1>10. Cache'
  BY <1>2, <1>3, CacheSame, Zenon
<1>11. Chains'
  <2>1. Requesting' = Requesting /\ p \notin Requesting
    BY <1>2, <1>6, Zenon DEF Requesting
  <2>. QED BY <1>2, <1>3, <1>6, <2>1, ChainsSame, Zenon DEF Requesting
<1>12. Queues' /\ Range(QU)' = Range(QU)
  BY <1>2, <1>3, <1>6, QueuesSame, Zenon
<1>13. Coherent'
  <2>1. \A q \in Proc : q # p => (Unserved(q)' <=> Unserved(q))
    BY <1>2, <1>6, <1>12, Zenon DEF Unserved
  <2>2. ~Unserved(p) /\ Unserved(p)'
    BY <1>2, <1>6, Zenon DEF Unserved
  <2>3. ASSUME NEW q \in Proc PROVE Held(q)'
    <3>1. CASE q = p
      <4>1. valid[b[p]]
        BY <1>2, <1>3, Zenon DEF Coherent
      <4>. QED BY <1>2, <1>6, <3>1, <4>1, Zenon DEF Held, HoldAt
    <3>2. CASE q # p
      BY <1>2, <1>3, <1>6, <2>1, <3>2, HeldSame, Zenon
    <3>. QED BY <3>1, <3>2, Zenon
  <2>4. \A q \in Proc : Unserved(q) /\ write[q] => Unserved(q)' /\ write'[q] /\ wanted'[q] = wanted[q]
    BY <1>2, <1>6, <2>1, <2>2, Zenon
  <2>. QED BY <1>2, <1>3, <2>3, <2>4, CoherentSame, Zenon
<1>. QED BY <1>2, <1>3, <1>5, <1>7, <1>8, <1>9, <1>10, <1>11, <1>12, <1>13, ZenonT(40) DEF IInv, TypeOK

\* bunpin: the disk has the block when its pin goes.
LEMMA bunpin_IInv ==
  ASSUME IInv, Numbers, NEW p \in scene.procs, bunpin(p), UNCHANGED scene
  PROVE  IInv'
<1>2. /\ at[p] = "have" /\ p \in Proc /\ b[p] \in Buf /\ wanted[p] \in scene.blocks
      /\ wanted[p] = blockno[b[p]] /\ valid[b[p]] /\ wanted[p] \in pinned
      /\ data[b[p]] = platter[wanted[p]] /\ pinned' = pinned \ {wanted[p]}
      /\ refcnt' = [refcnt EXCEPT ![b[p]] = @ - 1]
      /\ UNCHANGED <<lru, blockno, valid, data, owner, ondisk, free, desc, info, avail, avail_idx, used, used_dev,
                     used_idx, vlock, seen, doing, platter, at, b, write, idx, wanted, content, panic>>
  BY Parts, Zenon DEF bunpin, Locals, Coherent, driver, rings, device, locals
<1>3. TypeBuf /\ TypeReq /\ TypeRing /\ TypeProc /\ Locals /\ Owned /\ Cache /\ Chains /\ Queues
      /\ Coherent /\ NoLostWakeup /\ panic = FALSE
  BY Parts, Zenon
<1>4. wanted[p] # None
  BY <1>2, Parts, Ids, Zenon
<1>5. TypeBuf' /\ TypeReq' /\ TypeRing' /\ TypeProc'
  <2>1. refcnt \in [Buf -> Int]
    BY <1>3, Zenon DEF TypeBuf
  <2>2. refcnt[b[p]] - 1 \in Int
    BY <1>2, <2>1, IntStep, Zenon
  <2>3. refcnt' \in [Buf -> Int]
    BY <1>2, <2>1, <2>2, Zenon
  <2>. QED BY <1>2, <1>3, <2>3, Zenon DEF TypeBuf, TypeReq, TypeRing, TypeProc, Desc
<1>6. Locals' /\ Owned' /\ NoLostWakeup'
  BY <1>2, <1>3, Zenon DEF Locals, Owned, NoLostWakeup
<1>7. Cache'
  <2>1. \A k \in Buf : Users(k)' = Users(k)
    BY <1>2, Zenon DEF Users
  <2>2. \A k \in Buf : Cardinality(Users(k)) \in Nat
    BY Zenon DEF Numbers, Counted
  <2>3. \A k \in Buf : k # b[p] => blockno[k] # wanted[p]
    BY <1>2, <1>3, <1>4, OneBuffer, Zenon
  <2>4. ASSUME NEW k \in Buf
        PROVE  refcnt'[k] = Cardinality(Users(k)) + IF blockno[k] \in pinned' THEN 1 ELSE 0
    <3>0. refcnt \in [Buf -> Int]
      BY <1>3, Zenon DEF TypeBuf
    <3>1. refcnt[k] = Cardinality(Users(k)) + IF blockno[k] \in pinned THEN 1 ELSE 0
      BY <1>3, Zenon DEF Cache
    <3>2. CASE k # b[p]
      <4>1. refcnt'[k] = refcnt[k]
        BY <1>2, <3>0, <3>2, Zenon
      <4>2. blockno[k] \in pinned' <=> blockno[k] \in pinned
        BY <1>2, <2>3, <3>2, Zenon
      <4>. QED BY <3>1, <4>1, <4>2, Zenon
    <3>3. CASE k = b[p]
      <4>1. refcnt'[k] = refcnt[k] - 1
        BY <1>2, <3>0, <3>3, Zenon
      <4>2. blockno[k] \in pinned /\ blockno[k] \notin pinned'
        BY <1>2, <3>3, Zenon
      <4>3. refcnt'[k] = (Cardinality(Users(k)) + 1) - 1
        BY <3>1, <4>1, <4>2, Zenon
      <4>4. refcnt'[k] = Cardinality(Users(k)) + 0
        BY <2>2, <4>3, IntStep, Zenon
      <4>. QED BY <4>2, <4>4, Zenon
    <3>. QED BY <3>2, <3>3, Zenon
  <2>5. Cardinality(pinned') <= scene.maxpin
    <3>0. Counted(pinned)
      BY Zenon DEF Numbers
    <3>1. Cardinality(pinned) \in Nat /\ scene.maxpin \in Nat
      BY <1>3, <3>0, SceneFacts, Zenon DEF Counted, TypeBuf
    <3>2. Cardinality(pinned) <= scene.maxpin
      BY <1>3, Zenon DEF Cache
    <3>3. Cardinality(pinned') = Cardinality(pinned) - 1
      BY <1>2, <3>0, Zenon DEF Counted
    <3>. QED BY <3>1, <3>2, <3>3, IntStep, Zenon
  <2>6. \A n \in pinned' : \E k \in Buf : blockno[k] = n /\ valid[k]
    BY <1>2, <1>3, Zenon DEF Cache
  <2>7. pinned' \subseteq scene.blocks
    BY <1>2, <1>3, Zenon DEF Cache
  <2>8. /\ \A k \in Buf : \E i \in Buf : lru[i] = k
        /\ \A k, m \in Buf : blockno[k] = blockno[m] /\ blockno[k] # None => k = m
        /\ \A k \in Buf : blockno[k] \in scene.blocks \cup {None}
    BY <1>3, Zenon DEF Cache
  <2>. QED BY <1>2, <2>1, <2>4, <2>5, <2>6, <2>7, <2>8, ZenonT(40) DEF Cache
<1>8. Chains'
  BY <1>2, <1>3, ChainsSame, Zenon DEF Requesting
<1>9. Queues' /\ Range(QU)' = Range(QU)
  BY <1>2, <1>3, QueuesSame, Zenon
<1>10. \A q \in Proc : Unserved(q)' <=> Unserved(q)
  BY <1>2, <1>9, Zenon DEF Unserved
<1>11. Coherent'
  <2>1. platter[wanted[p]] = content[wanted[p]]
    BY <1>2, <1>3, <1>4, ZenonT(40) DEF Coherent
  <2>2. \A m \in Block : platter[m] # content[m] =>
          m \in pinned' \/ \E q \in Proc : write[q] /\ wanted[q] = m /\ Unserved(q)'
    BY <1>2, <1>3, <1>10, <2>1, Zenon DEF Coherent
  <2>. QED BY <1>2, <1>3, <1>10, <2>2, Zenon DEF Coherent
<1>. QED BY <1>2, <1>3, <1>5, <1>6, <1>7, <1>8, <1>9, <1>11, Zenon DEF IInv, TypeOK

\* releasesleep wakes everyone who sleeps for the lock.
LEMMA releasesleep_IInv ==
  ASSUME IInv, NEW p \in scene.procs, releasesleep(p), UNCHANGED scene
  PROVE  IInv'
<1>2. /\ at[p] = "have" /\ p \in Proc /\ b[p] \in Buf
      /\ write' = [write EXCEPT ![p] = FALSE] /\ owner' = [owner EXCEPT ![b[p]] = None]
      /\ at' = [q \in DOMAIN at |-> IF q = p THEN "relse"
                                   ELSE IF q \in {r \in Proc : at[r] = "locksleep" /\ b[r] = b[p]} THEN "lock"
                                   ELSE at[q]]
      /\ UNCHANGED <<lru, blockno, valid, refcnt, data, ondisk, free, desc, info, avail, avail_idx, used,
                     used_dev, used_idx, vlock, seen, doing, platter, b, idx, wanted, pinned, content, panic>>
  BY Parts, Zenon DEF releasesleep, Wakeup, Locals, cache, driver, rings, device, ghosts
<1>3. TypeBuf /\ TypeReq /\ TypeRing /\ TypeProc /\ Locals /\ Owned /\ Cache /\ Chains /\ Queues
      /\ Coherent /\ NoLostWakeup /\ panic = FALSE
  BY Parts, Zenon
<1>4. /\ at'[p] = "relse" /\ at'[Intr] = at[Intr]
      /\ \A q \in Proc : q # p => /\ write'[q] = write[q]
                                  /\ at'[q] = IF at[q] = "locksleep" /\ b[q] = b[p] THEN "lock" ELSE at[q]
      /\ owner'[b[p]] = None /\ \A k \in Buf : k # b[p] => owner'[k] = owner[k]
  BY <1>2, <1>3, Ids, ZenonT(40) DEF TypeProc, TypeBuf
<1>5. TypeBuf' /\ TypeReq' /\ TypeRing'
  BY <1>2, <1>3, Zenon DEF TypeBuf, TypeReq, TypeRing, Desc
<1>6. TypeProc'
  <2>1. write' \in [Proc -> BOOLEAN]
    BY <1>2, <1>3, Zenon DEF TypeProc
  <2>2. at' \in [Proc \cup {Intr} -> At \cup {"loop"}]
    BY <1>2, <1>3, Ids, Zenon DEF TypeProc, At, HoldAt
  <2>. QED BY <1>2, <1>3, <1>4, <2>1, <2>2, Zenon DEF TypeProc, At, HoldAt
<1>7. \A q \in Proc : q # p /\ at[q] \in HoldAt => b[q] # b[p] /\ b[q] \in Buf
  BY <1>2, <1>3, OtherBuffer, Zenon DEF HoldAt
<1>a. \A q \in Proc : \/ q # p /\ at'[q] = at[q] /\ (at[q] = "locksleep" => b[q] # b[p])
                      \/ q = p
                      \/ q # p /\ at[q] = "locksleep" /\ b[q] = b[p] /\ at'[q] = "lock"
  BY <1>4, Zenon
<1>8. Locals'
  <2>1. ASSUME NEW q \in Proc
        PROVE  /\ at'[q] = "idle" => b[q] = None
               /\ at'[q] # "idle" => /\ q \in scene.procs /\ b[q] \in Buf /\ wanted[q] \in scene.blocks
                                     /\ blockno[b[q]] = wanted[q]
               /\ at'[q] \in HoldAt => owner'[b[q]] = q
    <3>1. /\ at[q] = "idle" => b[q] = None
          /\ at[q] # "idle" => /\ q \in scene.procs /\ b[q] \in Buf /\ wanted[q] \in scene.blocks
                               /\ blockno[b[q]] = wanted[q]
          /\ at[q] \in HoldAt => owner[b[q]] = q
      BY <1>3, Zenon DEF Locals
    <3>2. CASE q # p /\ at'[q] = at[q]
      <4>1. at[q] \in HoldAt => owner'[b[q]] = owner[b[q]]
        BY <1>4, <1>7, <3>2, Zenon
      <4>. QED BY <3>1, <3>2, <4>1, Zenon
    <3>3. CASE at[q] \in {"have", "locksleep"} /\ at'[q] \in {"relse", "lock"}
      BY <3>1, <3>3, Zenon DEF HoldAt
    <3>. QED BY <1>2, <1>4, <1>a, <3>2, <3>3, Zenon
  <2>2. ASSUME NEW k \in Buf, owner'[k] # None
        PROVE  at'[owner'[k]] \in HoldAt /\ b[owner'[k]] = k
    <3>1. k # b[p] /\ owner'[k] = owner[k] /\ owner[k] # None
      BY <1>4, <2>2, Zenon
    <3>2. owner \in [Buf -> Proc \cup {None}]
      BY <1>3, Zenon DEF TypeBuf
    <3>3. owner[k] \in Proc
      BY <3>1, <3>2, Zenon
    <3>4. at[owner[k]] \in HoldAt /\ b[owner[k]] = k
      BY <1>3, <3>1, Zenon DEF Locals
    <3>5. owner[k] # p /\ at[owner[k]] # "locksleep"
      BY <3>1, <3>4, Zenon DEF HoldAt
    <3>6. at'[owner[k]] = at[owner[k]]
      BY <1>a, <3>3, <3>5, Zenon
    <3>. QED BY <3>1, <3>4, <3>6, Zenon
  <2>3. UNCHANGED <<b, wanted, blockno>>
    BY <1>2, Zenon
  <2>. QED BY <2>1, <2>2, <2>3, Zenon DEF Locals, HoldAt
<1>9. Owned'
  <2>1. ~ondisk[b[p]]
    BY <1>2, <1>3, Zenon DEF Owned, HoldAt
  <2>2. \A k \in Buf : owner[k] # None /\ ondisk[k] => owner'[k] # None
    BY <1>4, <2>1, Zenon
  <2>3. \A q \in Proc : /\ at'[q] = "publish" <=> at[q] = "publish"
                        /\ at'[q] = "wdisk" <=> at[q] = "wdisk"
                        /\ at'[q] \in HoldAt => at[q] \in HoldAt \/ ~ondisk[b[q]]
    BY <1>2, <1>4, <1>a, Zenon DEF HoldAt
  <2>. QED BY <1>2, <1>3, <1>4, <2>2, <2>3, OwnedSame, Zenon
<1>10. Cache'
  BY <1>2, <1>3, CacheSame, Zenon
<1>11. Chains'
  <2>1. Requesting' = Requesting /\ p \notin Requesting
    BY <1>2, <1>4, <1>a, Zenon DEF Requesting
  <2>2. \A q \in Requesting : q \in Proc /\ q # p
    BY <2>1, Zenon DEF Requesting
  <2>. QED BY <1>2, <1>3, <1>4, <2>1, <2>2, ChainsSame, Zenon
<1>12. Queues' /\ Range(QU)' = Range(QU)
  <2>1. \A q \in Proc : /\ at'[q] = "wdisk" <=> at[q] = "wdisk"
                        /\ at'[q] = "publish" <=> at[q] = "publish"
    BY <1>2, <1>4, <1>a, Zenon
  <2>. QED BY <1>2, <1>3, <2>1, QueuesSame, Zenon
<1>13. Coherent'
  <2>1. \A q \in Proc : Unserved(q)' <=> Unserved(q)
    BY <1>2, <1>4, <1>a, <1>12, Zenon DEF Unserved
  <2>2. ~Unserved(p)
    BY <1>2, Zenon DEF Unserved
  <2>3. ASSUME NEW q \in Proc PROVE Held(q)'
    <3>1. CASE q # p /\ at'[q] = at[q]
      BY <1>2, <1>3, <1>4, <2>1, <3>1, HeldSame, Zenon
    <3>2. CASE at'[q] \in {"relse", "lock"}
      BY <3>2, HeldOut, Zenon DEF HoldAt
    <3>. QED BY <1>4, <1>a, <3>1, <3>2, Zenon
  <2>4. \A q \in Proc : Unserved(q) /\ write[q] => Unserved(q)' /\ write'[q] /\ wanted'[q] = wanted[q]
    BY <1>2, <1>4, <2>1, <2>2, Zenon
  <2>. QED BY <1>2, <1>3, <2>3, <2>4, CoherentSame, Zenon
<1>14. NoLostWakeup'
  <2>1. ASSUME NEW q \in Proc
        PROVE  /\ at'[q] = "nodesc" => Cardinality(free) < 3
               /\ at'[q] = "locksleep" => owner'[b[q]] # None
               /\ at'[q] = "wdisk" => ondisk[b[q]]
    <3>0. /\ at[q] = "nodesc" => Cardinality(free) < 3
          /\ at[q] = "locksleep" => owner[b[q]] # None
          /\ at[q] = "wdisk" => ondisk[b[q]]
      BY <1>3, Zenon DEF NoLostWakeup
    <3>1. CASE q # p /\ at'[q] = at[q] /\ (at[q] = "locksleep" => b[q] # b[p])
      <4>1. at[q] = "locksleep" => b[q] \in Buf
        BY <1>3, Zenon DEF Locals
      <4>. QED BY <1>4, <3>0, <3>1, <4>1, Zenon
    <3>2. CASE at'[q] \in {"relse", "lock"}
      BY <3>2, Zenon
    <3>. QED BY <1>4, <1>a, <3>1, <3>2, Zenon
  <2>. QED BY <1>2, <2>1, Zenon DEF NoLostWakeup
<1>. QED BY <1>2, <1>3, <1>5, <1>6, <1>8, <1>9, <1>10, <1>11, <1>12, <1>13, <1>14, ZenonT(40) DEF IInv, TypeOK

\* The list keeps every buffer when one is moved to its head.
LEMMA ToFrontKeeps ==
  ASSUME TypeBuf, Cache, NEW k \in Buf
  PROVE  /\ ToFront(k) \in [Buf -> Buf]
         /\ \A m \in Buf : \E i \in Buf : ToFront(k)[i] = m
<1> DEFINE was == CHOOSE i \in Buf : lru[i] = k
<1>1. was \in Buf /\ lru[was] = k
  BY Zenon DEF Cache
<1>2. ToFront(k) = [i \in Buf |-> IF i = 1 THEN k ELSE IF i <= was THEN lru[i - 1] ELSE lru[i]]
  BY Zenon DEF ToFront
<1> HIDE DEF was
<1>3. lru \in [Buf -> Buf] /\ Buf = 1 .. NBUF /\ NBUF \in Nat
  BY Consts, Zenon DEF TypeBuf, Buf
<1>4. ToFront(k) \in [Buf -> Buf]
  <2>1. \A i \in Buf : i # 1 => i - 1 \in Buf
    BY <1>3
  <2>2. \A i \in Buf : (IF i = 1 THEN k ELSE IF i <= was THEN lru[i - 1] ELSE lru[i]) \in Buf
    BY <1>3, <2>1, Zenon
  <2>. QED BY <1>2, <2>2, Zenon
<1>5. ASSUME NEW m \in Buf PROVE \E i \in Buf : ToFront(k)[i] = m
  <2>1. CASE m = k
    <3>1. 1 \in Buf
      BY <1>3
    <3>. QED BY <1>2, <2>1, <3>1, Zenon
  <2>2. CASE m # k
    <3>1. PICK j \in Buf : lru[j] = m
      BY Zenon DEF Cache
    <3>2. CASE j < was
      <4>1. j + 1 \in Buf /\ j + 1 # 1 /\ j + 1 <= was /\ (j + 1) - 1 = j
        BY <1>1, <1>3, <3>2, SMTT(40)
      <4>2. ToFront(k)[j + 1] = m
        BY <1>2, <3>1, <4>1, Zenon
      <4>. QED BY <4>1, <4>2, Zenon
    <3>3. CASE j > was
      <4>1. j # 1 /\ ~(j <= was)
        BY <1>1, <1>3, <3>3, SMTT(40)
      <4>. QED BY <1>2, <3>1, <4>1, Zenon
    <3>4. j # was
      BY <1>1, <2>2, <3>1, Zenon
    <3>. QED BY <1>1, <1>3, <3>2, <3>3, <3>4
  <2>. QED BY <2>1, <2>2, Zenon
<1>. QED BY <1>4, <1>5, Zenon

\* brelse counts the user out, and the list keeps every buffer.
LEMMA brelse_IInv ==
  ASSUME IInv, Numbers, NEW p \in scene.procs, brelse(p), UNCHANGED scene
  PROVE  IInv'
<1>2. /\ at[p] = "relse" /\ p \in Proc /\ b[p] \in Buf
      /\ refcnt' = [refcnt EXCEPT ![b[p]] = refcnt[b[p]] - 1]
      /\ lru' = lru \/ lru' = ToFront(b[p])
      /\ b' = [b EXCEPT ![p] = None] /\ wanted' = [wanted EXCEPT ![p] = None]
      /\ at' = [at EXCEPT ![p] = "idle"]
      /\ UNCHANGED <<blockno, valid, data, owner, ondisk, free, desc, info, avail, avail_idx, used, used_dev,
                     used_idx, vlock, seen, doing, platter, write, idx, pinned, content, panic>>
  BY Parts, Zenon DEF brelse, Released, Goto, Locals, driver, rings, device, ghosts
<1>3. TypeBuf /\ TypeReq /\ TypeRing /\ TypeProc /\ Locals /\ Owned /\ Cache /\ Chains /\ Queues
      /\ Coherent /\ NoLostWakeup /\ panic = FALSE
  BY Parts, Zenon
<1>4. /\ at'[p] = "idle" /\ at'[Intr] = at[Intr] /\ b'[p] = None /\ wanted'[p] = None
      /\ \A q \in Proc : q # p => at'[q] = at[q] /\ b'[q] = b[q] /\ wanted'[q] = wanted[q]
  BY <1>2, <1>3, Ids, Zenon DEF TypeProc
<1>5. lru' \in [Buf -> Buf] /\ \A m \in Buf : \E i \in Buf : lru'[i] = m
  <2>1. CASE lru' = lru
    BY <1>3, <2>1, Zenon DEF TypeBuf, Cache
  <2>2. CASE lru' = ToFront(b[p])
    BY <1>2, <1>3, <2>2, ToFrontKeeps, ZenonT(40)
  <2>. QED BY <1>2, <2>1, <2>2, Zenon
<1>6. TypeBuf' /\ TypeReq' /\ TypeRing'
  <2>1. refcnt \in [Buf -> Int]
    BY <1>3, Zenon DEF TypeBuf
  <2>2. refcnt[b[p]] - 1 \in Int
    BY <1>2, <2>1, IntStep, Zenon
  <2>3. refcnt' \in [Buf -> Int]
    BY <1>2, <2>1, <2>2, Zenon
  <2>. QED BY <1>2, <1>3, <1>5, <2>3, Zenon DEF TypeBuf, TypeReq, TypeRing, Desc
<1>7. TypeProc'
  BY <1>2, <1>3, Ids, Zenon DEF TypeProc, At, HoldAt
<1>8. Locals'
  <2>1. ASSUME NEW q \in Proc
        PROVE  /\ at'[q] = "idle" => b'[q] = None
               /\ at'[q] # "idle" => /\ q \in scene.procs /\ b'[q] \in Buf /\ wanted'[q] \in scene.blocks
                                     /\ blockno[b'[q]] = wanted'[q]
               /\ at'[q] \in HoldAt => owner[b'[q]] = q
    <3>1. CASE q = p
      BY <1>4, <3>1, Zenon DEF HoldAt
    <3>2. CASE q # p
      <4>1. at'[q] = at[q] /\ b'[q] = b[q] /\ wanted'[q] = wanted[q]
        BY <1>4, <3>2, Zenon
      <4>2. /\ at[q] = "idle" => b[q] = None
            /\ at[q] # "idle" => /\ q \in scene.procs /\ b[q] \in Buf /\ wanted[q] \in scene.blocks
                                 /\ blockno[b[q]] = wanted[q]
            /\ at[q] \in HoldAt => owner[b[q]] = q
        BY <1>3, Zenon DEF Locals
      <4>. QED BY <4>1, <4>2, Zenon
    <3>. QED BY <3>1, <3>2, Zenon
  <2>2. ASSUME NEW k \in Buf, owner[k] # None
        PROVE  at'[owner[k]] \in HoldAt /\ b'[owner[k]] = k
    <3>1. owner \in [Buf -> Proc \cup {None}]
      BY <1>3, Zenon DEF TypeBuf
    <3>2. owner[k] \in Proc
      BY <2>2, <3>1, Zenon
    <3>3. at[owner[k]] \in HoldAt /\ b[owner[k]] = k
      BY <1>3, <2>2, Zenon DEF Locals
    <3>4. owner[k] # p
      BY <1>2, <3>3, Zenon DEF HoldAt
    <3>. QED BY <1>4, <3>2, <3>3, <3>4, Zenon
  <2>3. UNCHANGED <<owner, blockno>>
    BY <1>2, Zenon
  <2>. QED BY <2>1, <2>2, <2>3, Zenon DEF Locals, HoldAt
<1>9. Owned'
  <2>1. ASSUME NEW q \in Proc
        PROVE  /\ at'[q] \in {"publish", "wdisk"} => ondisk[b'[q]]
               /\ at'[q] \in HoldAt \ {"publish", "wdisk"} => ~ondisk[b'[q]]
               /\ at'[q] = "publish" <=> vlock = q
    <3>0. /\ at[q] \in {"publish", "wdisk"} => ondisk[b[q]]
          /\ at[q] \in HoldAt \ {"publish", "wdisk"} => ~ondisk[b[q]]
          /\ at[q] = "publish" <=> vlock = q
      BY <1>3, Zenon DEF Owned
    <3>1. CASE q = p
      BY <1>2, <1>4, <3>0, <3>1, Zenon DEF HoldAt
    <3>2. CASE q # p
      BY <1>4, <3>0, <3>2, Zenon
    <3>. QED BY <3>1, <3>2, Zenon
  <2>2. (\A k \in Buf : ondisk[k] => owner[k] # None) /\ (at'[Intr] = "loop" <=> vlock = Intr)
    BY <1>3, <1>4, Zenon DEF Owned
  <2>3. UNCHANGED <<owner, ondisk, vlock>>
    BY <1>2, Zenon
  <2>. QED BY <2>1, <2>2, <2>3, Zenon DEF Owned, HoldAt
<1>10. Cache'
  <2>0. PICK k \in Buf : k = b[p]
    BY <1>2, Zenon
  <2>1. /\ Users(k)' = Users(k) \ {p} /\ p \in Users(k)
        /\ \A m \in Buf : m # k => Users(m)' = Users(m)
    <3>1. \A q \in Proc : q # p => b'[q] = b[q]
      BY <1>4, Zenon
    <3>2. b'[p] = None /\ None \notin Buf /\ b[p] = k
      BY <1>4, <2>0, Ids, Zenon
    <3>. QED BY <1>2, <3>1, <3>2, Zenon DEF Users
  <2>2. Cardinality(Users(k) \ {p}) = Cardinality(Users(k)) - 1
    BY <2>1, Zenon DEF Numbers, Counted
  <2>3. \A m \in Buf : Cardinality(Users(m)) \in Nat
    BY Zenon DEF Numbers, Counted
  <2>4. ASSUME NEW m \in Buf
        PROVE  refcnt'[m] = Cardinality(Users(m)') + IF blockno[m] \in pinned THEN 1 ELSE 0
    <3>1. refcnt[m] = Cardinality(Users(m)) + IF blockno[m] \in pinned THEN 1 ELSE 0
      BY <1>3, Zenon DEF Cache
    <3>2. CASE m # k
      <4>1. refcnt'[m] = refcnt[m] /\ Users(m)' = Users(m)
        BY <1>2, <1>3, <2>0, <2>1, <3>2, Zenon DEF TypeBuf
      <4>. QED BY <3>1, <4>1, Zenon
    <3>3. CASE m = k
      <4>1. refcnt'[m] = refcnt[m] - 1 /\ Users(m)' = Users(m) \ {p}
        BY <1>2, <1>3, <2>0, <2>1, <3>3, Zenon DEF TypeBuf
      <4>2. Cardinality(Users(m)') = Cardinality(Users(m)) - 1 /\ Cardinality(Users(m)) \in Nat
        BY <2>2, <2>3, <3>3, <4>1, Zenon
      <4>3. CASE blockno[m] \in pinned
        <5>1. refcnt'[m] = (Cardinality(Users(m)) + 1) - 1
          BY <3>1, <4>1, <4>3, Zenon
        <5>2. refcnt'[m] = (Cardinality(Users(m)) - 1) + 1
          BY <4>2, <5>1, IntStep, Zenon
        <5>. QED BY <4>2, <4>3, <5>2, Zenon
      <4>4. CASE blockno[m] \notin pinned
        <5>1. refcnt'[m] = (Cardinality(Users(m)) + 0) - 1
          BY <3>1, <4>1, <4>4, Zenon
        <5>2. refcnt'[m] = (Cardinality(Users(m)) - 1) + 0
          BY <4>2, <5>1, IntStep, Zenon
        <5>. QED BY <4>2, <4>4, <5>2, Zenon
      <4>. QED BY <4>3, <4>4, Zenon
    <3>. QED BY <3>2, <3>3, Zenon
  <2>. QED BY <1>2, <1>3, <1>5, <2>4, Zenon DEF Cache
<1>11. Chains'
  <2>1. Requesting' = Requesting /\ p \notin Requesting
    BY <1>2, <1>4, Zenon DEF Requesting
  <2>. QED BY <1>2, <1>3, <1>4, <2>1, ChainsSame, Zenon DEF Requesting
<1>12. Queues' /\ Range(QU)' = Range(QU)
  BY <1>2, <1>3, <1>4, QueuesSame, Zenon
<1>13. Coherent'
  <2>1. \A q \in Proc : Unserved(q)' <=> Unserved(q)
    BY <1>2, <1>4, <1>12, Zenon DEF Unserved
  <2>2. ~Unserved(p)
    BY <1>2, Zenon DEF Unserved
  <2>3. ASSUME NEW q \in Proc PROVE Held(q)'
    <3>1. CASE q # p
      BY <1>2, <1>3, <1>4, <2>1, <3>1, HeldSame, Zenon
    <3>2. CASE q = p
      BY <1>4, <3>2, HeldOut, Zenon DEF HoldAt
    <3>. QED BY <3>1, <3>2, Zenon
  <2>4. \A q \in Proc : Unserved(q) /\ write[q] => Unserved(q)' /\ write'[q] /\ wanted'[q] = wanted[q]
    BY <1>2, <1>4, <2>1, <2>2, Zenon
  <2>. QED BY <1>2, <1>3, <2>3, <2>4, CoherentSame, Zenon
<1>14. NoLostWakeup'
  <2>1. ASSUME NEW q \in Proc
        PROVE  /\ at'[q] = "nodesc" => Cardinality(free) < 3
               /\ at'[q] = "locksleep" => owner[b'[q]] # None
               /\ at'[q] = "wdisk" => ondisk[b'[q]]
    <3>0. /\ at[q] = "nodesc" => Cardinality(free) < 3
          /\ at[q] = "locksleep" => owner[b[q]] # None
          /\ at[q] = "wdisk" => ondisk[b[q]]
      BY <1>3, Zenon DEF NoLostWakeup
    <3>1. CASE q = p
      BY <1>4, <3>1, Zenon
    <3>2. CASE q # p
      BY <1>4, <3>0, <3>2, Zenon
    <3>. QED BY <3>1, <3>2, Zenon
  <2>2. UNCHANGED <<free, owner, ondisk>>
    BY <1>2, Zenon
  <2>. QED BY <2>1, <2>2, Zenon DEF NoLostWakeup
<1>. QED BY <1>2, <1>3, <1>6, <1>7, <1>8, <1>9, <1>10, <1>11, <1>12, <1>13, <1>14, ZenonT(40) DEF IInv, TypeOK

-----------------------------------------------------------------------------
(* The driver.                                                             *)

\* Who finds too few descriptors sleeps, and there are too few.
LEMMA alloc3_desc_fail_IInv ==
  ASSUME IInv, NEW p \in scene.procs, alloc3_desc_fail(p), UNCHANGED scene
  PROVE  IInv'
<1>2. /\ at[p] = "rw" /\ p \in Proc /\ Cardinality(free) < 3
      /\ at' = [q \in DOMAIN at |-> IF q = p THEN "nodesc"
                                   ELSE IF q \in {r \in Proc : at[r] = "nodesc" /\ free # {}} THEN "rw"
                                   ELSE at[q]]
      /\ UNCHANGED <<lru, blockno, valid, refcnt, data, owner, ondisk, free, desc, info, avail, avail_idx, used,
                     used_dev, used_idx, vlock, seen, doing, platter, b, write, idx, wanted, pinned, content, panic>>
  BY Parts, Zenon DEF alloc3_desc_fail, Wakeup, cache, driver, rings, device, locals, ghosts
<1>3. TypeBuf /\ TypeReq /\ TypeRing /\ TypeProc /\ Locals /\ Owned /\ Cache /\ Chains /\ Queues
      /\ Coherent /\ NoLostWakeup /\ panic = FALSE
  BY Parts, Zenon
<1>4. /\ at'[Intr] = at[Intr]
      /\ \A q \in Proc : at'[q] = at[q] \/ (at[q] \in {"rw", "nodesc"} /\ at'[q] \in {"rw", "nodesc"})
  BY <1>2, <1>3, Ids, Zenon DEF TypeProc
<1>5. TypeBuf' /\ TypeReq' /\ TypeRing'
  BY <1>2, <1>3, Zenon DEF TypeBuf, TypeReq, TypeRing, Desc
<1>6. TypeProc'
  <2>1. at' \in [Proc \cup {Intr} -> At \cup {"loop"}]
    BY <1>2, <1>3, Ids, Zenon DEF TypeProc, At, HoldAt
  <2>. QED BY <1>2, <1>3, <1>4, <2>1, Zenon DEF TypeProc, At, HoldAt
<1>8. Locals'
  <2>1. \A q \in Proc : /\ at'[q] = "idle" <=> at[q] = "idle"
                        /\ at'[q] \in HoldAt <=> at[q] \in HoldAt
    BY <1>4, Zenon DEF HoldAt
  <2>. QED BY <1>2, <1>3, <2>1, LocalsSame, Zenon
<1>9. Owned'
  BY <1>2, <1>3, <1>4, ZenonT(40) DEF Owned, HoldAt
<1>10. Cache'
  BY <1>2, <1>3, CacheSame, Zenon
<1>11. Chains'
  <2>1. Requesting' = Requesting
    BY <1>4, Zenon DEF Requesting
  <2>. QED BY <1>2, <1>3, <2>1, ChainsSame, Zenon
<1>12. Queues' /\ Range(QU)' = Range(QU)
  BY <1>2, <1>3, <1>4, QueuesSame, Zenon
<1>13. Coherent'
  <2>1. \A q \in Proc : Unserved(q)' <=> Unserved(q)
    BY <1>2, <1>4, <1>12, Zenon DEF Unserved
  <2>4. /\ \A q \in Proc : at'[q] \in HoldAt \ {"have"} => (write[q] <=> valid[b[q]])
        /\ \A q \in Proc : at'[q] = "have" => valid[b[q]]
        /\ \A q \in Proc : at'[q] \in {"wdisk", "woken"} /\ ~Unserved(q)' => data[b[q]] = content[wanted[q]]
    BY <1>3, <1>4, <2>1, Zenon DEF Coherent, HoldAt
  <2>. QED BY <1>2, <1>3, <2>1, <2>4, Zenon DEF Coherent
<1>14. NoLostWakeup'
  BY <1>2, <1>3, <1>4, Zenon DEF NoLostWakeup
<1>. QED BY <1>2, <1>3, <1>5, <1>6, <1>8, <1>9, <1>10, <1>11, <1>12, <1>13, <1>14, ZenonT(40) DEF IInv, TypeOK

\* Requests differ in their heads, and the queues hold heads of requests.
LEMMA HeadsDiffer ==
  ASSUME IInv
  PROVE  /\ \A p, q \in Requesting : p # q => idx[p][1] # idx[q][1]
         /\ \A p \in Requesting : idx[p][1] \in Desc /\ idx[p][1] \notin free
         /\ \A i \in Range(QA) \cup doing \cup Range(QU) : \E p \in Waiting : i = idx[p][1]
         /\ \A p \in Waiting : p \in Requesting /\ idx[p][1] \in Range(QA) \cup doing \cup Range(QU)
<1>1. Chains /\ Queues
  BY Parts, Zenon
<1>2. \A p \in Requesting : idx[p][1] \in Descs(p) /\ idx[p][1] \in Desc
  BY <1>1, Zenon DEF Chains, ChainOf, Descs
<1>3. \A p, q \in Requesting : p # q => idx[p][1] # idx[q][1]
  <2>. SUFFICES ASSUME NEW p \in Requesting, NEW q \in Requesting, p # q PROVE idx[p][1] # idx[q][1]
    BY Zenon
  <2>1. Descs(p) \cap Descs(q) = {}
    BY <1>1, Zenon DEF Chains
  <2>. QED BY <1>2, <2>1, Zenon
<1>4. \A p \in Requesting : idx[p][1] \notin free
  BY <1>1, <1>2, ZenonT(40) DEF Chains
<1>5. \A i \in Range(QA) \cup doing \cup Range(QU) : \E p \in Waiting : i = idx[p][1]
  BY <1>1, Zenon DEF Queues
<1>6. \A p \in Waiting : p \in Requesting /\ idx[p][1] \in Range(QA) \cup doing \cup Range(QU)
  BY <1>1, Zenon DEF Queues, Waiting, Requesting
<1>. QED BY <1>2, <1>3, <1>4, <1>5, <1>6, Zenon

\* The entries of the rings.
LEMMA SlotsExist ==
  ASSUME TypeRing
  PROVE  /\ avail_idx % RING \in 0 .. RING - 1 /\ used_dev % RING \in 0 .. RING - 1
         /\ seen % RING \in 0 .. RING - 1 /\ used_idx % RING \in 0 .. RING - 1
<1>1. avail_idx \in Int /\ seen \in Int /\ used_dev \in Int /\ used_idx \in Int /\ RING \in Nat \ {0}
  BY Consts DEF TypeRing
<1>. QED BY <1>1, Division, Zenon

\* The descriptors of a chain.
LEMMA RangeOf3 ==
  ASSUME NEW x, NEW y, NEW z
  PROVE  Range(<<x, y, z>>) = {x, y, z}
<1>1. DOMAIN <<x, y, z>> = {1, 2, 3}
  OBVIOUS
<1>2. <<x, y, z>>[1] = x /\ <<x, y, z>>[2] = y /\ <<x, y, z>>[3] = z
  BY Zenon
<1>. QED BY <1>1, <1>2, Zenon DEF Range

\* What virtio_disk_rw does, in terms of the three descriptors it takes.
Prepared(p, i1, i2, i3) ==
  /\ {i1, i2, i3} \subseteq free /\ i1 # i2 /\ i1 # i3 /\ i2 # i3
  /\ idx'[p] = <<i1, i2, i3>> /\ free' = free \ {i1, i2, i3}
  /\ desc'[i1] = [addr |-> <<write[p], wanted[p]>>, next |-> i2]
  /\ desc'[i2] = [addr |-> b[p], next |-> i3]
  /\ desc'[i3] = [addr |-> i1, next |-> None]
  /\ info'[i1] = [buf |-> b[p], ok |-> FALSE]
  /\ \A j \in Desc : j \notin {i1, i2, i3} => desc'[j] = desc[j]
  /\ \A j \in Desc : j # i1 => info'[j] = info[j]
  /\ avail' = [avail EXCEPT ![avail_idx % RING] = i1]
  /\ TypeReq'

\* virtio_disk_rw finds three descriptors.
LEMMA rwPrepares ==
  ASSUME IInv, Numbers, NEW p \in scene.procs, virtio_disk_rw(p), UNCHANGED scene
  PROVE  \E i1, i2, i3 \in Desc : Prepared(p, i1, i2, i3)
<1> DEFINE i == Lowest3
<1>1. TypeBuf /\ TypeReq /\ TypeProc /\ Locals /\ Chains /\ p \in Proc
  BY Parts, Zenon
<1>2. /\ at[p] = "rw" /\ Cardinality(free) >= 3
      /\ idx' = [idx EXCEPT ![p] = i]
      /\ free' = free \ Range(i)
      /\ desc' = [desc EXCEPT ![i[1]] = [addr |-> <<write[p], blockno[b[p]]>>, next |-> i[2]],
                              ![i[2]] = [addr |-> b[p], next |-> i[3]],
                              ![i[3]] = [addr |-> i[1], next |-> None]]
      /\ info' = [info EXCEPT ![i[1]] = [buf |-> b[p], ok |-> FALSE]]
      /\ avail' = [avail EXCEPT ![avail_idx % RING] = i[1]]
  BY Zenon DEF virtio_disk_rw
<1>5. /\ i = <<i[1], i[2], i[3]>>
      /\ i[1] \in free /\ i[2] \in free /\ i[3] \in free
      /\ i[1] # i[2] /\ i[1] # i[3] /\ i[2] # i[3]
  BY <1>2, Zenon DEF Numbers
<1> HIDE DEF i
<1>6. PICK i1, i2, i3 : i1 = i[1] /\ i2 = i[2] /\ i3 = i[3]
  BY Zenon
<1>7. i = <<i1, i2, i3>> /\ {i1, i2, i3} \subseteq free /\ i1 # i2 /\ i1 # i3 /\ i2 # i3
  BY <1>5, <1>6, Zenon
<1>8. i1 \in Desc /\ i2 \in Desc /\ i3 \in Desc
  BY <1>1, <1>7, Zenon DEF TypeReq
<1>9. free' = free \ {i1, i2, i3}
  BY <1>2, <1>7, RangeOf3, Zenon
<1>10. b[p] \in Buf /\ blockno[b[p]] = wanted[p]
  BY <1>1, <1>2, Zenon DEF Locals
<1>11. desc' = [desc EXCEPT ![i1] = [addr |-> <<write[p], wanted[p]>>, next |-> i2],
                            ![i2] = [addr |-> b[p], next |-> i3],
                            ![i3] = [addr |-> i1, next |-> None]]
  BY <1>2, <1>6, <1>10, Zenon
<1>12. DOMAIN desc = Desc /\ DOMAIN idx = Proc /\ info \in [Desc -> [buf : Buf \cup {None}, ok : BOOLEAN]]
  BY <1>1, Zenon DEF TypeReq
<1>13. /\ desc'[i1] = [addr |-> <<write[p], wanted[p]>>, next |-> i2]
       /\ desc'[i2] = [addr |-> b[p], next |-> i3]
       /\ desc'[i3] = [addr |-> i1, next |-> None]
       /\ \A j \in Desc : j \notin {i1, i2, i3} => desc'[j] = desc[j]
       /\ DOMAIN desc' = Desc
  BY <1>7, <1>8, <1>11, <1>12, Zenon
<1>14. /\ info'[i1] = [buf |-> b[p], ok |-> FALSE]
       /\ \A j \in Desc : j # i1 => info'[j] = info[j]
       /\ info' \in [Desc -> [buf : Buf \cup {None}, ok : BOOLEAN]]
  BY <1>2, <1>6, <1>8, <1>10, <1>12, Zenon
<1>15. idx'[p] = <<i1, i2, i3>> /\ DOMAIN idx' = Proc
  BY <1>1, <1>2, <1>7, <1>12, Zenon
<1>16. TypeReq'
  BY <1>1, <1>9, <1>13, <1>14, <1>15, ZenonT(40) DEF TypeReq, Desc
<1>17. avail' = [avail EXCEPT ![avail_idx % RING] = i1]
  BY <1>2, <1>6, Zenon
<1>18. Prepared(p, i1, i2, i3)
  BY <1>7, <1>9, <1>13, <1>14, <1>15, <1>16, <1>17, Zenon DEF Prepared
<1>. QED BY <1>8, <1>18, Zenon

\* virtio_disk_rw makes a chain of free descriptors, and the entry of the avail
\* ring it writes is none the device has still to read.
LEMMA virtio_disk_rw_IInv ==
  ASSUME IInv, Numbers, NEW p \in scene.procs, virtio_disk_rw(p), UNCHANGED scene
  PROVE  IInv'
<1>1. PICK i1, i2, i3 \in Desc : Prepared(p, i1, i2, i3)
  BY rwPrepares, Zenon
<1>2. /\ at[p] = "rw" /\ p \in Proc /\ b[p] \in Buf /\ vlock = None /\ Cardinality(free) >= 3
      /\ ondisk' = [ondisk EXCEPT ![b[p]] = TRUE] /\ vlock' = p /\ at' = [at EXCEPT ![p] = "publish"]
      /\ idx' = [idx EXCEPT ![p] = Lowest3]
      /\ UNCHANGED <<lru, blockno, valid, refcnt, data, owner, avail_idx, used,
                     used_dev, used_idx, seen, doing, platter, b, write, wanted, pinned, content, panic>>
  BY Parts, Zenon DEF virtio_disk_rw, Locals, Goto, cache, device, ghosts
<1>3. TypeBuf /\ TypeReq /\ TypeRing /\ TypeProc /\ Locals /\ Owned /\ Cache /\ Chains /\ Queues
      /\ Coherent /\ NoLostWakeup /\ panic = FALSE
  BY Parts, Zenon
<1>4. /\ at'[p] = "publish" /\ at'[Intr] = at[Intr]
      /\ \A q \in Proc : q # p => at'[q] = at[q] /\ idx'[q] = idx[q]
      /\ ondisk'[b[p]] = TRUE /\ \A k \in Buf : k # b[p] => ondisk'[k] = ondisk[k]
  BY <1>2, <1>3, Ids, ZenonT(40) DEF TypeProc, TypeBuf, TypeReq
<1>5. TypeBuf' /\ TypeReq'
  BY <1>1, <1>2, <1>3, ZenonT(40) DEF TypeBuf, Prepared
<1>6. TypeRing'
  <2>1. avail' \in [0 .. RING - 1 -> Desc]
    <3>1. avail \in [0 .. RING - 1 -> Desc] /\ avail' = [avail EXCEPT ![avail_idx % RING] = i1]
      BY <1>1, <1>3, Zenon DEF TypeRing, Prepared
    <3>. QED BY <3>1, Zenon
  <2>2. Desc' = Desc
    BY Zenon DEF Desc
  <2>. QED BY <1>2, <1>3, <2>1, <2>2, Zenon DEF TypeRing
<1>7. TypeProc'
  BY <1>2, <1>3, Ids, Zenon DEF TypeProc, At, HoldAt
<1>8. Locals'
  <2>1. \A q \in Proc : /\ at'[q] = "idle" <=> at[q] = "idle"
                        /\ at'[q] \in HoldAt <=> at[q] \in HoldAt
    BY <1>2, <1>4, Zenon DEF HoldAt
  <2>. QED BY <1>2, <1>3, <2>1, LocalsSame, Zenon
<1>9. Owned'
  <2>1. \A q \in Proc : q # p /\ at[q] \in HoldAt => b[q] # b[p] /\ b[q] \in Buf
    BY <1>2, <1>3, OtherBuffer, Zenon DEF HoldAt
  <2>2. ASSUME NEW q \in Proc
        PROVE  /\ at'[q] \in {"publish", "wdisk"} => ondisk'[b[q]]
               /\ at'[q] \in HoldAt \ {"publish", "wdisk"} => ~ondisk'[b[q]]
    <3>1. CASE q = p
      BY <1>4, <3>1, Zenon
    <3>2. CASE q # p
      <4>1. at'[q] = at[q] /\ (at[q] \in HoldAt => ondisk'[b[q]] = ondisk[b[q]])
        BY <1>4, <2>1, <3>2, Zenon
      <4>2. /\ at[q] \in {"publish", "wdisk"} => ondisk[b[q]]
            /\ at[q] \in HoldAt \ {"publish", "wdisk"} => ~ondisk[b[q]]
        BY <1>3, Zenon DEF Owned
      <4>3. at[q] \in {"publish", "wdisk"} => at[q] \in HoldAt
        BY Zenon DEF HoldAt
      <4>. QED BY <4>1, <4>2, <4>3, Zenon
    <3>. QED BY <3>1, <3>2, Zenon
  <2>3. \A q \in Proc : at'[q] = "publish" <=> vlock' = q
    BY <1>2, <1>3, <1>4, Ids, ZenonT(40) DEF Owned
  <2>4. ASSUME NEW k \in Buf, ondisk'[k] PROVE owner[k] # None
    <3>1. CASE k = b[p]
      <4>1. owner[b[p]] = p
        BY <1>2, <1>3, Zenon DEF Locals, HoldAt
      <4>. QED BY <1>2, <3>1, <4>1, Ids, Zenon
    <3>2. CASE k # b[p]
      BY <1>3, <1>4, <2>4, <3>2, Zenon DEF Owned
    <3>. QED BY <3>1, <3>2, Zenon
  <2>5. at'[Intr] = "loop" <=> vlock' = Intr
    <3>0. vlock # Intr
      BY <1>2, Ids, Zenon
    <3>1. at[Intr] # "loop"
      BY <1>3, <3>0, Zenon DEF Owned
    <3>. QED BY <1>2, <1>4, <3>1, Ids, Zenon
  <2>6. UNCHANGED <<b, owner>>
    BY <1>2, Zenon
  <2>. QED BY <2>2, <2>3, <2>4, <2>5, <2>6, Zenon DEF Owned, HoldAt
<1>10. Cache'
  BY <1>2, <1>3, CacheSame, Zenon
<1>a. Requesting' = Requesting \cup {p} /\ p \notin Requesting
  <2>1. \A q \in Proc : at'[q] \in {"publish", "wdisk", "woken"} <=> q = p \/ at[q] \in {"publish", "wdisk", "woken"}
    BY <1>4, Zenon
  <2>2. at[p] \notin {"publish", "wdisk", "woken"}
    BY <1>2, Zenon
  <2>. QED BY <1>2, <2>1, <2>2, Zenon DEF Requesting
<1>b. \A q \in Requesting : q \in Proc /\ q # p
  BY <1>a, Zenon DEF Requesting
<1>11. Chains'
  <2>1. Desc' = Desc /\ Descs(p)' = {i1, i2, i3}
    <3>0. idx'[p] = <<i1, i2, i3>>
      BY <1>1, Zenon DEF Prepared
    <3>1. idx'[p][1] = i1 /\ idx'[p][2] = i2 /\ idx'[p][3] = i3
      <4>1. <<i1, i2, i3>>[1] = i1 /\ <<i1, i2, i3>>[2] = i2 /\ <<i1, i2, i3>>[3] = i3
        BY Zenon
      <4>. QED BY <3>0, <4>1, Zenon
    <3>. QED BY <3>1, Zenon DEF Desc, Descs
  <2>2. \A q \in Requesting : Descs(q)' = Descs(q) /\ Descs(q) \cap free = {}
    <3>. SUFFICES ASSUME NEW q \in Requesting PROVE Descs(q)' = Descs(q) /\ Descs(q) \cap free = {}
      BY Zenon
    <3>1. idx'[q] = idx[q]
      BY <1>4, <1>b, Zenon
    <3>2. ChainOf(q) /\ \A j \in Desc : j \in free => j \notin Descs(q)
      BY <1>3, ZenonT(40) DEF Chains
    <3>. QED BY <3>1, <3>2, Zenon DEF Descs, ChainOf
  <2>3. ChainOf(p)'
    <3>1. /\ idx'[p] = <<i1, i2, i3>> /\ i1 # i2 /\ i1 # i3 /\ i2 # i3
          /\ desc'[i1] = [addr |-> <<write[p], wanted[p]>>, next |-> i2]
          /\ desc'[i2] = [addr |-> b[p], next |-> i3]
          /\ desc'[i3] = [addr |-> i1, next |-> None]
          /\ info'[i1].buf = b[p]
      <4>1. info'[i1] = [buf |-> b[p], ok |-> FALSE]
        BY <1>1, Zenon DEF Prepared
      <4>a. [buf |-> b[p], ok |-> FALSE].buf = b[p]
        BY Zenon
      <4>2. info'[i1].buf = b[p]
        BY <4>1, <4>a, Zenon
      <4>. QED BY <1>1, <4>2, Zenon DEF Prepared
    <3>2. idx'[p][1] = i1 /\ idx'[p][2] = i2 /\ idx'[p][3] = i3
      <4>1. <<i1, i2, i3>>[1] = i1 /\ <<i1, i2, i3>>[2] = i2 /\ <<i1, i2, i3>>[3] = i3
        BY Zenon
      <4>. QED BY <3>1, <4>1, Zenon
    <3>. QED BY <1>2, <2>1, <3>1, <3>2, Zenon DEF ChainOf
  <2>4. ASSUME NEW q \in Requesting PROVE ChainOf(q)'
    <3>1. idx'[q] = idx[q] /\ ChainOf(q)
      BY <1>3, <1>4, <1>b, ZenonT(40) DEF Chains
    <3>2. \A j \in Descs(q) : desc'[j] = desc[j] /\ info'[j] = info[j]
      <4>1. Descs(q) \subseteq Desc
        BY <3>1, Zenon DEF ChainOf, Descs
      <4>2. \A j \in Descs(q) : j \notin {i1, i2, i3}
        BY <1>1, <2>2, Zenon DEF Prepared
      <4>. QED BY <1>1, <4>1, <4>2, ZenonT(40) DEF Prepared
    <3>3. /\ desc'[idx[q][1]] = desc[idx[q][1]] /\ desc'[idx[q][2]] = desc[idx[q][2]]
          /\ desc'[idx[q][3]] = desc[idx[q][3]] /\ info'[idx[q][1]] = info[idx[q][1]]
      BY <3>2, Zenon DEF Descs
    <3>4. UNCHANGED <<write, wanted, b>>
      BY <1>2, Zenon
    <3>. QED BY <2>1, <3>1, <3>3, <3>4, Zenon DEF ChainOf
  <2>5. \A q, r \in Requesting' : q # r => Descs(q)' \cap Descs(r)' = {}
    <3>1. \A q \in Requesting : Descs(q)' \cap Descs(p)' = {}
      BY <1>1, <2>1, <2>2, Zenon DEF Prepared
    <3>2. \A q, r \in Requesting : q # r => Descs(q)' \cap Descs(r)' = {}
      BY <1>3, <2>2, Zenon DEF Chains
    <3>. QED BY <1>a, <3>1, <3>2, Zenon
  <2>6. \A j \in Desc : j \in free' <=> \A q \in Requesting' : j \notin Descs(q)'
    <3>1. free' = free \ {i1, i2, i3}
      BY <1>1, Zenon DEF Prepared
    <3>2. \A j \in Desc : j \in free <=> \A q \in Requesting : j \notin Descs(q)'
      <4>1. \A j \in Desc : j \in free <=> \A q \in Requesting : j \notin Descs(q)
        BY <1>3, Zenon DEF Chains
      <4>2. \A q \in Requesting : Descs(q)' = Descs(q)
        BY <2>2, Zenon
      <4>. QED BY <4>1, <4>2, Zenon
    <3>. QED BY <1>a, <2>1, <3>1, <3>2, Zenon
  <2>. QED BY <1>a, <2>1, <2>3, <2>4, <2>5, <2>6, Zenon DEF Chains
<1>c. Waiting' = Waiting /\ p \notin Waiting
  <2>1. \A q \in Proc : at'[q] = "wdisk" <=> at[q] = "wdisk"
    BY <1>2, <1>4, Zenon
  <2>. QED BY <1>2, <2>1, Zenon DEF Waiting
<1>d. QA' = QA /\ QU' = QU /\ avail'[avail_idx % RING] = i1
  <2>1. (avail_idx - seen) % IDX < RING
    BY <1>2, Zenon DEF Numbers
  <2>2. avail \in [0 .. RING - 1 -> Desc] /\ avail_idx \in 0 .. IDX - 1 /\ seen \in 0 .. IDX - 1
    BY <1>3, Zenon DEF TypeRing
  <2>3. avail' = [avail EXCEPT ![avail_idx % RING] = i1]
    BY <1>1, Zenon DEF Prepared
  <2>4. Heads(avail', seen, avail_idx) = QA /\ avail'[avail_idx % RING] = i1
    BY <2>1, <2>2, <2>3, Overwrite, ZenonT(40) DEF QA
  <2>. QED BY <1>2, <2>4, Zenon DEF QA, QU, Heads
<1>12. Queues'
  <2>1. {idx[q][1] : q \in Waiting}' = {idx[q][1] : q \in Waiting}
    <3>1. \A q \in Waiting : idx'[q] = idx[q]
      BY <1>4, <1>c, Zenon DEF Waiting
    <3>. QED BY <1>c, <3>1, Zenon
  <2>2. Range(QA)' = Range(QA) /\ Range(QU)' = Range(QU)
    BY <1>d, Zenon
  <2>3. \A i \in Range(QU) : info'[i].ok
    <3>1. \A i \in Range(QU) : i \in Desc /\ i \notin free /\ info[i].ok
      <4>1. \A i \in Range(QU) : info[i].ok
        BY <1>3, Zenon DEF Queues
      <4>2. \A i \in Range(QU) : \E q \in Waiting : i = idx[q][1]
        BY HeadsDiffer, Zenon
      <4>3. \A q \in Waiting : idx[q][1] \in Desc /\ idx[q][1] \notin free
        <5>1. \A q \in Waiting : q \in Requesting
          BY HeadsDiffer, Zenon
        <5>. QED BY <5>1, HeadsDiffer, Zenon
      <4>. QED BY <4>1, <4>2, <4>3, Zenon
    <3>. QED BY <1>1, <3>1, Zenon DEF Prepared
  <2>4. \A q \in Proc : at'[q] = "publish" => avail'[avail_idx % RING] = idx'[q][1]
    <3>1. \A q \in Proc : at'[q] = "publish" => q = p
      BY <1>2, <1>3, <1>4, Ids, ZenonT(40) DEF Owned
    <3>2. idx'[p][1] = i1
      <4>1. idx'[p] = <<i1, i2, i3>>
        BY <1>1, Zenon DEF Prepared
      <4>2. <<i1, i2, i3>>[1] = i1
        BY Zenon
      <4>. QED BY <4>1, <4>2, Zenon
    <3>. QED BY <1>d, <3>1, <3>2, ZenonT(40)
  <2>. QED BY <1>2, <1>3, <1>d, <2>1, <2>2, <2>3, <2>4, Zenon DEF Queues
<1>13. Coherent'
  <2>1. \A q \in Proc : Unserved(q)' <=> Unserved(q)
    BY <1>2, <1>4, <1>d, Zenon DEF Unserved
  <2>2. ASSUME NEW q \in Proc PROVE Held(q)'
    <3>1. CASE q # p
      BY <1>2, <1>3, <1>4, <2>1, <3>1, HeldSame, Zenon
    <3>2. CASE q = p
      <4>1. write[p] <=> valid[b[p]]
        BY <1>2, <1>3, Zenon DEF Coherent, HoldAt
      <4>. QED BY <1>2, <1>4, <3>2, <4>1, Zenon DEF Held, HoldAt
    <3>. QED BY <3>1, <3>2, Zenon
  <2>3. \A q \in Proc : Unserved(q) /\ write[q] => Unserved(q)' /\ write'[q] /\ wanted'[q] = wanted[q]
    BY <1>2, <2>1, Zenon
  <2>. QED BY <1>2, <1>3, <2>2, <2>3, CoherentSame, Zenon
<1>14. NoLostWakeup'
  <2>1. Cardinality(free) \in Nat
    BY ZenonT(40) DEF Numbers, Counted
  <2>2. ~(Cardinality(free) < 3)
    BY <1>2, <2>1, IntStep, Zenon
  <2>3. ASSUME NEW q \in Proc
        PROVE  /\ at'[q] # "nodesc"
               /\ at'[q] = "locksleep" => owner[b[q]] # None
               /\ at'[q] = "wdisk" => ondisk'[b[q]]
    <3>0. /\ at[q] = "nodesc" => Cardinality(free) < 3
          /\ at[q] = "locksleep" => owner[b[q]] # None
          /\ at[q] = "wdisk" => ondisk[b[q]]
      BY <1>3, Zenon DEF NoLostWakeup
    <3>1. CASE q = p
      BY <1>4, <3>1, Zenon
    <3>2. CASE q # p
      <4>1. at[q] = "wdisk" => b[q] # b[p] /\ b[q] \in Buf
        BY <1>2, <1>3, <3>2, OtherBuffer, Zenon DEF HoldAt
      <4>. QED BY <1>4, <2>2, <3>0, <3>2, <4>1, Zenon
    <3>. QED BY <3>1, <3>2, Zenon
  <2>4. UNCHANGED <<b, owner>>
    BY <1>2, Zenon
  <2>. QED BY <2>3, <2>4, Zenon DEF NoLostWakeup
<1>. QED BY <1>2, <1>3, <1>5, <1>6, <1>7, <1>8, <1>9, <1>10, <1>11, <1>12, <1>13, <1>14, ZenonT(40) DEF IInv, TypeOK

\* The index moved on adds the new head to the queue of the device.
LEMMA publish_IInv ==
  ASSUME IInv, Numbers, NEW p \in scene.procs, publish(p), UNCHANGED scene
  PROVE  IInv'
<1>2. /\ at[p] = "publish" /\ p \in Proc
      /\ avail_idx' = (avail_idx + 1) % IDX /\ vlock' = None /\ at' = [at EXCEPT ![p] = "wdisk"]
      /\ UNCHANGED <<lru, blockno, valid, refcnt, data, owner, ondisk, free, desc, info, avail, used, used_dev,
                     used_idx, seen, doing, platter, b, write, idx, wanted, pinned, content, panic>>
  BY Parts, Zenon DEF publish, Published, Goto, cache, driver, device, locals, ghosts
<1>3. TypeBuf /\ TypeReq /\ TypeRing /\ TypeProc /\ Locals /\ Owned /\ Cache /\ Chains /\ Queues
      /\ Coherent /\ NoLostWakeup /\ panic = FALSE
  BY Parts, Zenon
<1>4. /\ at'[p] = "wdisk" /\ at'[Intr] = at[Intr]
      /\ \A q \in Proc : q # p => at'[q] = at[q]
  BY <1>2, <1>3, Ids, Zenon DEF TypeProc
<1>a. p \in Requesting /\ p \notin Waiting /\ Waiting' = Waiting \cup {p} /\ Requesting' = Requesting
  BY <1>2, <1>4, Zenon DEF Requesting, Waiting
<1>b. idx[p][1] \notin Range(QA) \cup doing \cup Range(QU)
  <2>1. /\ \A i \in Range(QA) \cup doing \cup Range(QU) : \E q \in Waiting : i = idx[q][1]
        /\ \A q \in Waiting : q \in Requesting
        /\ \A q \in Requesting : p # q => idx[p][1] # idx[q][1]
    BY <1>a, HeadsDiffer, Zenon
  <2>. QED BY <1>a, <2>1, Zenon
<1>c. avail[avail_idx % RING] = idx[p][1]
  BY <1>2, <1>3, Zenon DEF Queues
<1>d. /\ avail_idx' \in 0 .. IDX - 1 /\ QU' = QU
      /\ Injective(QA)' /\ Range(QA)' = Range(QA) \cup {idx[p][1]}
  <2>1. (avail_idx - seen) % IDX < RING
    BY <1>2, Zenon DEF Numbers
  <2>2. avail_idx \in 0 .. IDX - 1 /\ seen \in 0 .. IDX - 1
    BY <1>3, Zenon DEF TypeRing
  <2>3. Injective(QA) /\ avail[avail_idx % RING] \notin Range(QA)
    BY <1>3, <1>b, <1>c, Zenon DEF Queues
  <2>4. /\ (avail_idx + 1) % IDX \in 0 .. IDX - 1
        /\ Injective(Heads(avail, seen, (avail_idx + 1) % IDX))
        /\ Range(Heads(avail, seen, (avail_idx + 1) % IDX)) = Range(QA) \cup {avail[avail_idx % RING]}
    BY <2>1, <2>2, <2>3, PushIs, Zenon DEF QA
  <2>5. QA' = Heads(avail, seen, (avail_idx + 1) % IDX) /\ QU' = QU
    BY <1>2, Zenon DEF QA, QU, Heads
  <2>6. Injective(QA)' <=> Injective(QA')
    BY Zenon DEF Injective
  <2>. QED BY <1>2, <1>c, <2>4, <2>5, <2>6, Zenon
<1>5. TypeBuf' /\ TypeReq'
  BY <1>2, <1>3, Zenon DEF TypeBuf, TypeReq, Desc
<1>6. TypeRing'
  BY <1>2, <1>3, <1>d, Zenon DEF TypeRing, Desc
<1>7. TypeProc'
  BY <1>2, <1>3, Ids, Zenon DEF TypeProc, At, HoldAt
<1>8. Locals'
  <2>1. \A q \in Proc : /\ at'[q] = "idle" <=> at[q] = "idle"
                        /\ at'[q] \in HoldAt <=> at[q] \in HoldAt
    BY <1>2, <1>4, Zenon DEF HoldAt
  <2>. QED BY <1>2, <1>3, <2>1, LocalsSame, Zenon
<1>9. Owned'
  <2>1. vlock = p
    BY <1>2, <1>3, Zenon DEF Owned
  <2>2. \A q \in Proc : /\ at'[q] \in {"publish", "wdisk"} => ondisk[b[q]]
                        /\ at'[q] \in HoldAt \ {"publish", "wdisk"} => ~ondisk[b[q]]
    BY <1>2, <1>3, <1>4, Zenon DEF Owned, HoldAt
  <2>3. \A q \in Proc : at'[q] = "publish" <=> vlock' = q
    BY <1>2, <1>3, <1>4, <2>1, Ids, Zenon DEF Owned
  <2>4. at'[Intr] = "loop" <=> vlock' = Intr
    <3>1. vlock # Intr /\ vlock' # Intr
      BY <1>2, <2>1, Ids, Zenon
    <3>. QED BY <1>3, <1>4, <3>1, Zenon DEF Owned
  <2>. QED BY <1>2, <1>3, <2>2, <2>3, <2>4, Zenon DEF Owned
<1>10. Cache'
  BY <1>2, <1>3, CacheSame, Zenon
<1>11. Chains'
  BY <1>2, <1>3, <1>a, ChainsSame, Zenon
<1>12. Queues'
  <2>1. {idx[q][1] : q \in Waiting}' = {idx[q][1] : q \in Waiting} \cup {idx[p][1]}
    BY <1>2, <1>a, Zenon
  <2>2. Range(QU)' = Range(QU) /\ (Injective(QU)' <=> Injective(QU))
    BY <1>d, Zenon DEF Injective
  <2>3. \A q \in Proc : at'[q] # "publish"
    BY <1>2, <1>3, <1>4, Zenon DEF Owned
  <2>4. /\ Range(QA)' \cap doing = {} /\ Range(QA)' \cap Range(QU) = {} /\ doing \cap Range(QU) = {}
        /\ Range(QA)' \cup doing \cup Range(QU) = {idx[q][1] : q \in Waiting} \cup {idx[p][1]}
    <3>1. /\ Range(QA) \cap doing = {} /\ Range(QA) \cap Range(QU) = {} /\ doing \cap Range(QU) = {}
          /\ Range(QA) \cup doing \cup Range(QU) = {idx[q][1] : q \in Waiting}
      BY <1>3, Zenon DEF Queues
    <3> DEFINE W == {idx[q][1] : q \in Waiting}
    <3>2. Range(QA) \cup doing \cup Range(QU) = W
      BY <3>1, Zenon
    <3> HIDE DEF W
    <3>3. Range(QA)' \cup doing \cup Range(QU) = W \cup {idx[p][1]}
      BY <1>d, <3>2, Zenon
    <3>4. Range(QA)' \cap doing = {} /\ Range(QA)' \cap Range(QU) = {}
      BY <1>b, <1>d, <3>1, Zenon
    <3>. QED BY <3>1, <3>3, <3>4, Zenon DEF W
  <2>5. \A i \in Range(QU) : info[i].ok
    BY <1>3, Zenon DEF Queues
  <2>6. Injective(QU)
    BY <1>3, ZenonT(40) DEF Queues
  <2>. QED BY <1>2, <1>d, <2>1, <2>2, <2>3, <2>4, <2>5, <2>6, ZenonT(40) DEF Queues
<1>13. Coherent'
  <2>1. \A q \in Proc : Unserved(q)' <=> Unserved(q)
    BY <1>2, <1>4, <1>b, <1>d, ZenonT(40) DEF Unserved
  <2>2. Unserved(p)
    BY <1>2, Zenon DEF Unserved
  <2>4. /\ \A q \in Proc : at'[q] \in HoldAt \ {"have"} => (write[q] <=> valid[b[q]])
        /\ \A q \in Proc : at'[q] = "have" => valid[b[q]]
        /\ \A q \in Proc : at'[q] \in {"wdisk", "woken"} /\ ~Unserved(q)' => data[b[q]] = content[wanted[q]]
    BY <1>2, <1>3, <1>4, <2>1, <2>2, ZenonT(40) DEF Coherent, HoldAt
  <2>. QED BY <1>2, <1>3, <2>1, <2>4, Zenon DEF Coherent
<1>14. NoLostWakeup'
  <2>1. ASSUME NEW q \in Proc
        PROVE  /\ at'[q] = "nodesc" => Cardinality(free) < 3
               /\ at'[q] = "locksleep" => owner[b[q]] # None
               /\ at'[q] = "wdisk" => ondisk[b[q]]
    <3>1. CASE q # p
      BY <1>3, <1>4, <3>1, Zenon DEF NoLostWakeup
    <3>2. CASE q = p
      BY <1>2, <1>3, <1>4, <3>2, Zenon DEF Owned
    <3>. QED BY <3>1, <3>2, Zenon
  <2>2. UNCHANGED <<b, owner, ondisk, free>>
    BY <1>2, Zenon
  <2>. QED BY <2>1, <2>2, Zenon DEF NoLostWakeup
<1>. QED BY <1>2, <1>3, <1>5, <1>6, <1>7, <1>8, <1>9, <1>10, <1>11, <1>12, <1>13, <1>14, ZenonT(40) DEF IInv, TypeOK

\* The handler takes and releases vdisk_lock.
LEMMA virtio_disk_intr_IInv ==
  ASSUME IInv, virtio_disk_intr \/ intr_return, UNCHANGED scene
  PROVE  IInv'
<1>2. /\ \/ vlock = None /\ vlock' = Intr /\ at' = [at EXCEPT ![Intr] = "loop"]
         \/ at[Intr] = "loop" /\ vlock' = None /\ at' = [at EXCEPT ![Intr] = "idle"]
      /\ UNCHANGED <<lru, blockno, valid, refcnt, data, owner, ondisk, free, desc, info, avail, avail_idx, used,
                     used_dev, used_idx, seen, doing, platter, b, write, idx, wanted, pinned, content, panic>>
  BY Zenon DEF virtio_disk_intr, intr_return, Goto, cache, driver, rings, device, locals, ghosts
<1>3. TypeBuf /\ TypeReq /\ TypeRing /\ TypeProc /\ Locals /\ Owned /\ Cache /\ Chains /\ Queues
      /\ Coherent /\ NoLostWakeup /\ panic = FALSE
  BY Parts, Zenon
<1>4. /\ \A q \in Proc : at'[q] = at[q]
      /\ \/ vlock' = Intr /\ at'[Intr] = "loop"
         \/ vlock' = None /\ at'[Intr] = "idle"
  BY <1>2, <1>3, Ids, Zenon DEF TypeProc
<1>5. TypeBuf' /\ TypeReq' /\ TypeRing'
  BY <1>2, <1>3, Zenon DEF TypeBuf, TypeReq, TypeRing, Desc
<1>6. TypeProc'
  BY <1>2, <1>3, <1>4, Ids, ZenonT(40) DEF TypeProc, At, HoldAt
<1>8. Locals'
  <2>1. \A q \in Proc : /\ at'[q] = "idle" <=> at[q] = "idle"
                        /\ at'[q] \in HoldAt <=> at[q] \in HoldAt
    BY <1>4, Zenon
  <2>. QED BY <1>2, <1>3, <2>1, LocalsSame, Zenon
<1>9. Owned'
  <2>1. \A q \in Proc : at[q] # "publish"
    BY <1>2, <1>3, Ids, Zenon DEF Owned
  <2>2. ASSUME NEW q \in Proc
        PROVE  /\ at'[q] \in {"publish", "wdisk"} => ondisk[b[q]]
               /\ at'[q] \in HoldAt \ {"publish", "wdisk"} => ~ondisk[b[q]]
    BY <1>3, <1>4, Zenon DEF Owned
  <2>3. \A q \in Proc : at'[q] = "publish" <=> vlock' = q
    BY <1>4, <2>1, Ids, Zenon
  <2>4. at'[Intr] = "loop" <=> vlock' = Intr
    BY <1>4, Ids, Zenon
  <2>5. \A k \in Buf : ondisk[k] => owner[k] # None
    BY <1>3, Zenon DEF Owned
  <2>6. UNCHANGED <<b, owner, ondisk>>
    BY <1>2, Zenon
  <2>. QED BY <2>2, <2>3, <2>4, <2>5, <2>6, Zenon DEF Owned, HoldAt
<1>10. Cache'
  BY <1>2, <1>3, CacheSame, Zenon
<1>11. Chains'
  <2>1. Requesting' = Requesting
    BY <1>4, Zenon DEF Requesting
  <2>. QED BY <1>2, <1>3, <2>1, ChainsSame, Zenon
<1>12. Queues' /\ Range(QU)' = Range(QU)
  BY <1>2, <1>3, <1>4, QueuesSame, Zenon
<1>13. Coherent'
  <2>1. \A q \in Proc : Unserved(q)' <=> Unserved(q)
    BY <1>2, <1>4, <1>12, Zenon DEF Unserved
  <2>. QED BY <1>2, <1>3, <1>4, <2>1, Zenon DEF Coherent
<1>14. NoLostWakeup'
  BY <1>2, <1>3, <1>4, Zenon DEF NoLostWakeup
<1>. QED BY <1>2, <1>3, <1>5, <1>6, <1>8, <1>9, <1>10, <1>11, <1>12, <1>13, <1>14, ZenonT(40) DEF IInv, TypeOK

\* What finish does, in terms of p's chain.
LEMMA finishFrees ==
  ASSUME IInv, NEW p \in scene.procs, finish(p), UNCHANGED scene
  PROVE  /\ at[p] = "woken" /\ p \in Proc /\ vlock = None /\ b[p] \in Buf
         /\ info' = [info EXCEPT ![idx[p][1]].buf = None]
         /\ free' = free \cup Descs(p) /\ Descs(p) \subseteq Desc
         /\ desc' = [i \in Desc |-> IF i \in Descs(p) THEN [addr |-> None, next |-> None] ELSE desc[i]]
         /\ panic' = FALSE
         /\ at' = [q \in DOMAIN at |-> IF q = p THEN "have"
                                      ELSE IF q \in {r \in Proc : at[r] = "nodesc"} THEN "rw"
                                      ELSE at[q]]
         /\ valid' = [valid EXCEPT ![b[p]] = TRUE] /\ idx' = [idx EXCEPT ![p] = <<>>]
<1>1. Locals /\ Owned /\ Chains /\ panic = FALSE /\ p \in Proc
  BY Parts, Zenon
<1>2. at[p] = "woken" /\ vlock = None
  BY Zenon DEF finish
<1>3. ~ondisk[b[p]] /\ b[p] \in Buf /\ p \in Requesting
  BY <1>1, <1>2, Zenon DEF Owned, Locals, HoldAt, Requesting
<1>4. ChainOf(p) /\ \A i \in Desc : i \in free => i \notin Descs(p)
  BY <1>1, <1>3, Zenon DEF Chains
<1>5. Descs(p) \subseteq Desc /\ Chain(idx[p][1]) = Descs(p)
  <2>0. /\ idx[p][1] \in Desc /\ idx[p][2] \in Desc /\ idx[p][3] \in Desc
        /\ desc[idx[p][1]] = [addr |-> <<write[p], wanted[p]>>, next |-> idx[p][2]]
        /\ desc[idx[p][2]] = [addr |-> b[p], next |-> idx[p][3]]
    BY <1>4, Zenon DEF ChainOf
  <2>1. /\ idx[p][1] \in Desc /\ idx[p][2] \in Desc /\ idx[p][3] \in Desc
        /\ desc[idx[p][1]].next = idx[p][2] /\ desc[idx[p][2]].next = idx[p][3]
    <3>1. /\ [addr |-> <<write[p], wanted[p]>>, next |-> idx[p][2]].next = idx[p][2]
          /\ [addr |-> b[p], next |-> idx[p][3]].next = idx[p][3]
      BY Zenon
    <3>. QED BY <2>0, <3>1, Zenon
  <2>. QED BY <2>1, Zenon DEF Descs, Chain
<1>6. Chain(idx[p][1]) \cap free = {}
  BY <1>4, <1>5, Zenon
<1>7. /\ info' = [info EXCEPT ![idx[p][1]].buf = None]
      /\ free' = free \cup Chain(idx[p][1])
      /\ desc' = [i \in Desc |-> IF i \in Chain(idx[p][1]) THEN [addr |-> None, next |-> None] ELSE desc[i]]
      /\ panic' = (panic \/ Chain(idx[p][1]) \cap free # {})
      /\ at' = [q \in DOMAIN at |-> IF q = p THEN "have"
                                   ELSE IF q \in {r \in Proc : at[r] = "nodesc"} THEN "rw"
                                   ELSE at[q]]
      /\ valid' = [valid EXCEPT ![b[p]] = TRUE] /\ idx' = [idx EXCEPT ![p] = <<>>]
  BY <1>3, Zenon DEF finish, Wakeup, WokenByFree
<1>8. panic' = FALSE
  BY <1>1, <1>6, <1>7, Zenon
<1>. QED BY <1>1, <1>2, <1>3, <1>5, <1>7, <1>8, Zenon

\* free_chain gives back exactly the chain, the buffer has its block, and
\* everyone who sleeps for descriptors wakes up.
LEMMA finish_IInv ==
  ASSUME IInv, NEW p \in scene.procs, finish(p), UNCHANGED scene
  PROVE  IInv'
<1>1. /\ at[p] = "woken" /\ p \in Proc /\ vlock = None /\ b[p] \in Buf
      /\ info' = [info EXCEPT ![idx[p][1]].buf = None]
      /\ free' = free \cup Descs(p) /\ Descs(p) \subseteq Desc
      /\ desc' = [i \in Desc |-> IF i \in Descs(p) THEN [addr |-> None, next |-> None] ELSE desc[i]]
      /\ panic' = FALSE
      /\ at' = [q \in DOMAIN at |-> IF q = p THEN "have"
                                   ELSE IF q \in {r \in Proc : at[r] = "nodesc"} THEN "rw"
                                   ELSE at[q]]
      /\ valid' = [valid EXCEPT ![b[p]] = TRUE] /\ idx' = [idx EXCEPT ![p] = <<>>]
  BY finishFrees, Zenon
<1>2. UNCHANGED <<lru, blockno, refcnt, data, owner, ondisk, avail, avail_idx, used, used_dev, used_idx,
                  vlock, seen, doing, platter, b, write, wanted, pinned, content>>
  BY Zenon DEF finish, rings, device
<1>3. TypeBuf /\ TypeReq /\ TypeRing /\ TypeProc /\ Locals /\ Owned /\ Cache /\ Chains /\ Queues
      /\ Coherent /\ NoLostWakeup /\ panic = FALSE
  BY Parts, Zenon
<1>4. /\ at'[p] = "have" /\ at'[Intr] = at[Intr]
      /\ \A q \in Proc : q # p => at'[q] = IF at[q] = "nodesc" THEN "rw" ELSE at[q]
      /\ \A q \in Proc : q # p => idx'[q] = idx[q]
      /\ valid'[b[p]] = TRUE /\ \A k \in Buf : k # b[p] => valid'[k] = valid[k]
  BY <1>1, <1>3, Ids, Zenon DEF TypeProc, TypeBuf, TypeReq
<1>e. \A q \in Proc : q # p /\ at[q] \in HoldAt => b[q] # b[p] /\ b[q] \in Buf
  BY <1>1, <1>3, OtherBuffer, Zenon DEF HoldAt
<1>m. \A q \in Proc : \/ q = p /\ at[q] = "woken" /\ at'[q] = "have"
                      \/ q # p /\ at[q] = "nodesc" /\ at'[q] = "rw"
                      \/ q # p /\ at[q] # "nodesc" /\ at'[q] = at[q]
  BY <1>1, <1>4, ZenonT(40)
<1>a. Requesting' = Requesting \ {p} /\ p \in Requesting /\ Waiting' = Waiting /\ p \notin Waiting
  <2>1. \A q \in Proc : /\ at'[q] \in {"publish", "wdisk", "woken"} <=> q # p /\ at[q] \in {"publish", "wdisk", "woken"}
                        /\ at'[q] = "wdisk" <=> at[q] = "wdisk"
    BY <1>m, Zenon
  <2>2. Requesting' = Requesting \ {p} /\ p \in Requesting
    BY <1>1, <2>1, Zenon DEF Requesting
  <2>3. Waiting' = Waiting /\ p \notin Waiting
    BY <1>1, <2>1, Zenon DEF Waiting
  <2>. QED BY <2>2, <2>3, Zenon
<1>b. idx[p][1] \in Descs(p) /\ idx[p][1] \in Desc
  BY <1>1, Zenon DEF Descs
<1>c. /\ info' \in [Desc -> [buf : Buf \cup {None}, ok : BOOLEAN]]
      /\ \A i \in Desc : info'[i].ok = info[i].ok
      /\ \A i \in Desc : i # idx[p][1] => info'[i] = info[i]
  <2>1. info \in [Desc -> [buf : Buf \cup {None}, ok : BOOLEAN]]
    BY <1>3, Zenon DEF TypeReq
  <2>2. PICK i \in Desc : i = idx[p][1]
    BY <1>b, Zenon
  <2>3. info' = [info EXCEPT ![i].buf = None]
    BY <1>1, <2>2, Zenon
  <2>. QED BY <2>1, <2>2, <2>3, ZenonT(40)
<1>5. TypeBuf'
  <2>1. valid' \in [Buf -> BOOLEAN]
    BY <1>1, <1>3, Zenon DEF TypeBuf
  <2>. QED BY <1>2, <1>3, <2>1, Zenon DEF TypeBuf
<1>6. TypeReq' /\ TypeRing'
  <2>1. Desc' = Desc
    BY Zenon DEF Desc
  <2>2. free' \subseteq Desc /\ DOMAIN desc' = Desc /\ DOMAIN idx' = Proc
    BY <1>1, <1>3, Zenon DEF TypeReq
  <2>. QED BY <1>2, <1>3, <1>c, <2>1, <2>2, Zenon DEF TypeReq, TypeRing
<1>7. TypeProc'
  <2>1. at' \in [Proc \cup {Intr} -> At \cup {"loop"}]
    BY <1>1, <1>3, Ids, Zenon DEF TypeProc, At, HoldAt
  <2>. QED BY <1>2, <1>3, <1>4, <2>1, ZenonT(40) DEF TypeProc, At, HoldAt
<1>8. Locals'
  <2>1. \A q \in Proc : /\ at'[q] = "idle" <=> at[q] = "idle"
                        /\ at'[q] \in HoldAt <=> at[q] \in HoldAt
    BY <1>m, Zenon DEF HoldAt
  <2>. QED BY <1>2, <1>3, <2>1, LocalsSame, Zenon
<1>9. Owned'
  <2>1. \A q \in Proc : /\ at'[q] = "publish" <=> at[q] = "publish"
                        /\ at'[q] = "wdisk" <=> at[q] = "wdisk"
                        /\ at'[q] \in HoldAt => at[q] \in HoldAt \/ ~ondisk[b[q]]
    BY <1>m, Zenon DEF HoldAt
  <2>. QED BY <1>2, <1>3, <1>4, <2>1, OwnedSame, Zenon
<1>10. Cache'
  <2>1. \A k \in Buf : Users(k)' = Users(k)
    BY <1>2, Zenon DEF Users
  <2>2. \A n \in pinned : \E k \in Buf : blockno[k] = n /\ valid'[k]
    <3>1. \A k \in Buf : valid[k] => valid'[k]
      BY <1>1, <1>4, Zenon
    <3>. QED BY <1>3, <3>1, Zenon DEF Cache
  <2>3. /\ \A k \in Buf : \E i \in Buf : lru[i] = k
        /\ \A k, m \in Buf : blockno[k] = blockno[m] /\ blockno[k] # None => k = m
        /\ \A k \in Buf : /\ blockno[k] \in scene.blocks \cup {None}
                          /\ refcnt[k] = Cardinality(Users(k)') + IF blockno[k] \in pinned THEN 1 ELSE 0
        /\ pinned \subseteq scene.blocks /\ Cardinality(pinned) <= scene.maxpin
    BY <1>3, <2>1, Zenon DEF Cache
  <2>. QED BY <1>2, <2>2, <2>3, Zenon DEF Cache
<1>d. \A q \in Requesting : q # p => q \in Proc /\ Descs(q) \cap Descs(p) = {} /\ ChainOf(q) /\ idx'[q] = idx[q]
  <2>1. \A q \in Requesting : q \in Proc
    BY Zenon DEF Requesting
  <2>2. \A q \in Requesting : q # p => Descs(q) \cap Descs(p) = {} /\ ChainOf(q)
    BY <1>3, <1>a, Zenon DEF Chains
  <2>. QED BY <1>4, <2>1, <2>2, Zenon
<1>11. Chains'
  <2>1. Desc' = Desc
    BY Zenon DEF Desc
  <2>2. \A q \in Requesting : q # p => Descs(q)' = Descs(q)
    BY <1>d, Zenon DEF Descs
  <2>4. ASSUME NEW q \in Requesting, q # p PROVE ChainOf(q)'
    <3>1. idx'[q] = idx[q] /\ ChainOf(q)
      BY <1>d, <2>4, Zenon
    <3>2. \A j \in Descs(q) : desc'[j] = desc[j] /\ info'[j] = info[j]
      <4>1. Descs(q) \subseteq Desc
        BY <3>1, Zenon DEF ChainOf, Descs
      <4>2. \A j \in Descs(q) : j \notin Descs(p)
        BY <1>d, <2>4, Zenon
      <4>3. \A j \in Desc : j \notin Descs(p) => desc'[j] = desc[j]
        BY <1>1, Zenon
      <4>. QED BY <1>b, <1>c, <4>1, <4>2, <4>3, Zenon
    <3>3. /\ desc'[idx[q][1]] = desc[idx[q][1]] /\ desc'[idx[q][2]] = desc[idx[q][2]]
          /\ desc'[idx[q][3]] = desc[idx[q][3]] /\ info'[idx[q][1]] = info[idx[q][1]]
      BY <3>2, Zenon DEF Descs
    <3>. QED BY <1>2, <2>1, <3>1, <3>3, Zenon DEF ChainOf
  <2>5. \A q, r \in Requesting' : q # r => Descs(q)' \cap Descs(r)' = {}
    <3>1. \A q, r \in Requesting : q # r => Descs(q) \cap Descs(r) = {}
      BY <1>3, Zenon DEF Chains
    <3>. QED BY <1>a, <2>2, <3>1, Zenon
  <2>6. \A j \in Desc : j \in free' <=> \A q \in Requesting' : j \notin Descs(q)'
    <3>1. free' = free \cup Descs(p)
      BY <1>1, Zenon
    <3>2. \A j \in Desc : j \in free <=> \A q \in Requesting : j \notin Descs(q)
      BY <1>3, Zenon DEF Chains
    <3>3. \A q \in Requesting : q # p => Descs(q) \cap Descs(p) = {}
      BY <1>d, Zenon
    <3>. QED BY <1>a, <2>2, <3>1, <3>2, <3>3, ZenonT(40)
  <2>7. \A q \in Requesting' : q \in Requesting /\ q # p
    BY <1>a, Zenon
  <2>. QED BY <2>1, <2>4, <2>5, <2>6, <2>7, Zenon DEF Chains
<1>12. Queues' /\ Range(QU)' = Range(QU)
  <2>1. QA' = QA /\ QU' = QU
    BY <1>2, Zenon DEF QA, QU, Heads
  <2>2. Range(QA)' = Range(QA) /\ Range(QU)' = Range(QU)
    BY <2>1, Zenon
  <2>3. {idx[q][1] : q \in Waiting}' = {idx[q][1] : q \in Waiting}
    <3>1. \A q \in Waiting : idx'[q] = idx[q]
      BY <1>4, <1>a, Zenon DEF Waiting
    <3>. QED BY <1>a, <3>1, Zenon
  <2>4. \A i \in Range(QU) : info'[i].ok
    <3>1. \A i \in Range(QU) : info[i].ok
      BY <1>3, Zenon DEF Queues
    <3>2. /\ \A i \in Range(QU) : \E q \in Waiting : i = idx[q][1]
          /\ \A q \in Waiting : q \in Requesting
          /\ \A q \in Requesting : idx[q][1] \in Desc
      BY HeadsDiffer, Zenon
    <3>3. \A i \in Range(QU) : i \in Desc
      BY <3>2, Zenon
    <3>. QED BY <1>c, <3>1, <3>3, Zenon
  <2>5. \A q \in Proc : at'[q] = "publish" => avail[avail_idx % RING] = idx'[q][1]
    <3>1. \A q \in Proc : at'[q] = "publish" => at[q] = "publish" /\ idx'[q] = idx[q]
      BY <1>4, Zenon
    <3>. QED BY <1>3, <3>1, Zenon DEF Queues
  <2>. QED BY <1>2, <1>3, <2>1, <2>2, <2>3, <2>4, <2>5, Zenon DEF Queues
<1>13. Coherent'
  <2>1. \A q \in Proc : Unserved(q)' <=> Unserved(q)
    <3>1. \A q \in Proc : q # p => idx'[q] = idx[q]
      BY <1>4, Zenon
    <3>2. \A q \in Proc : q # p => /\ at'[q] \in {"rw", "nodesc", "publish"} <=> at[q] \in {"rw", "nodesc", "publish"}
                                   /\ at'[q] = "wdisk" <=> at[q] = "wdisk"
      BY <1>4, Zenon
    <3>3. ~Unserved(p) /\ ~Unserved(p)'
      BY <1>1, <1>4, Zenon DEF Unserved
    <3>4. \A q \in Proc : q # p => (Unserved(q)' <=> Unserved(q))
      BY <1>12, <3>1, <3>2, Zenon DEF Unserved
    <3>. QED BY <3>3, <3>4, Zenon
  <2>2. ~Unserved(p)
    BY <1>1, Zenon DEF Unserved
  <2>3. \A k \in Buf : valid'[k] /\ blockno[k] # None => data[k] = content[blockno[k]]
    <3>1. data[b[p]] = content[wanted[p]]
      BY <1>1, <1>3, <2>2, Zenon DEF Coherent
    <3>2. blockno[b[p]] = wanted[p]
      BY <1>1, <1>3, Zenon DEF Locals
    <3>. QED BY <1>3, <1>4, <3>1, <3>2, Zenon DEF Coherent
  <2>4. ASSUME NEW q \in Proc
        PROVE  /\ at'[q] \in HoldAt \ {"have"} => (write[q] <=> valid'[b[q]])
               /\ at'[q] = "have" => valid'[b[q]]
               /\ at'[q] \in {"wdisk", "woken"} /\ ~Unserved(q)' => data[b[q]] = content[wanted[q]]
    <3>1. CASE q = p
      BY <1>4, <3>1, Zenon
    <3>2. CASE q # p
      <4>1. /\ at[q] \in HoldAt \ {"have"} => (write[q] <=> valid[b[q]])
            /\ at[q] = "have" => valid[b[q]]
            /\ at[q] \in {"wdisk", "woken"} /\ ~Unserved(q) => data[b[q]] = content[wanted[q]]
        BY <1>3, Zenon DEF Coherent
      <4>2. at[q] \in HoldAt => valid'[b[q]] = valid[b[q]]
        BY <1>4, <1>e, <3>2, Zenon
      <4>3. CASE at[q] = "nodesc" /\ at'[q] = "rw"
        BY <4>1, <4>2, <4>3, Zenon DEF HoldAt
      <4>4. CASE at'[q] = at[q]
        <5>1. at[q] = "have" => at[q] \in HoldAt
          BY Zenon DEF HoldAt
        <5>. QED BY <2>1, <4>1, <4>2, <4>4, <5>1, Zenon
      <4>. QED BY <1>4, <3>2, <4>3, <4>4, Zenon
    <3>. QED BY <3>1, <3>2, Zenon
  <2>5. \A n \in Block : platter[n] # content[n] =>
          n \in pinned \/ \E q \in Proc : write[q] /\ wanted[q] = n /\ Unserved(q)'
    BY <1>3, <2>1, Zenon DEF Coherent
  <2>. QED BY <1>2, <2>3, <2>4, <2>5, Zenon DEF Coherent
<1>14. NoLostWakeup'
  <2>1. \A q \in Proc : at'[q] # "nodesc"
    BY <1>4, Zenon
  <2>. QED BY <1>2, <1>3, <1>4, <2>1, Zenon DEF NoLostWakeup
<1>. QED BY <1>1, <1>3, <1>5, <1>6, <1>7, <1>8, <1>9, <1>10, <1>11, <1>12, <1>13, <1>14, ZenonT(40) DEF IInv, TypeOK

\* A completion is that of one waiting process, and only that one is woken.
LEMMA complete_IInv ==
  ASSUME IInv, Numbers, complete, UNCHANGED scene
  PROVE  IInv'
<1> DEFINE id == used[used_idx % RING]
<1>3. TypeBuf /\ TypeReq /\ TypeRing /\ TypeProc /\ Locals /\ Owned /\ Cache /\ Chains /\ Queues
      /\ Coherent /\ NoLostWakeup /\ panic = FALSE
  BY Parts, ZenonT(40)
<1>2. /\ at[Intr] = "loop" /\ used_idx # used_dev
      /\ panic' = (panic \/ ~info[id].ok \/ info[id].buf = None)
      /\ ondisk' = [ondisk EXCEPT ![info[id].buf] = FALSE]
      /\ at' = [q \in DOMAIN at |-> IF q = Intr THEN "loop"
                                   ELSE IF q \in {r \in Proc : at[r] = "wdisk" /\ b[r] = info[id].buf} THEN "woken"
                                   ELSE at[q]]
      /\ used_idx' = (used_idx + 1) % IDX
      /\ UNCHANGED <<lru, blockno, valid, refcnt, data, owner, free, desc, info, avail, avail_idx, used, used_dev,
                     vlock, seen, doing, platter, b, write, idx, wanted, pinned, content>>
  BY Zenon DEF complete, Completions, Consumed, Wakeup, cache, driver, device, locals
<1>a. /\ used_idx' \in 0 .. IDX - 1 /\ QA' = QA /\ id \in Range(QU)
      /\ Injective(QU)' /\ Range(QU)' = Range(QU) \ {id}
  <2>1. (used_dev - used_idx) % IDX <= RING
    BY Zenon DEF Numbers
  <2>2. used_idx \in 0 .. IDX - 1 /\ used_dev \in 0 .. IDX - 1 /\ used_idx # used_dev
    BY <1>2, <1>3, Zenon DEF TypeRing
  <2>3. Injective(QU)
    BY <1>3, Zenon DEF Queues
  <2>4. /\ (used_idx + 1) % IDX \in 0 .. IDX - 1 /\ id \in Range(QU)
        /\ Injective(Heads(used, (used_idx + 1) % IDX, used_dev))
        /\ Range(Heads(used, (used_idx + 1) % IDX, used_dev)) = Range(QU) \ {id}
    BY <2>1, <2>2, <2>3, PopIs, Zenon DEF QU
  <2> HIDE DEF id
  <2>5. QU' = Heads(used, (used_idx + 1) % IDX, used_dev) /\ QA' = QA
    BY <1>2, Zenon DEF QA, QU, Heads
  <2>6. Injective(QU)' <=> Injective(QU')
    BY Zenon DEF Injective
  <2>. QED BY <1>2, <2>4, <2>5, <2>6, Zenon
<1> HIDE DEF id
<1>b. PICK p \in Waiting : id = idx[p][1]
  BY <1>a, HeadsDiffer, Zenon
<1>c. p \in Proc /\ at[p] = "wdisk" /\ p \in Requesting /\ b[p] \in Buf /\ owner[b[p]] = p
  BY <1>3, Zenon DEF Waiting, Requesting, Locals, HoldAt
<1>d. info[id].buf = b[p] /\ info[id].ok
  <2>1. ChainOf(p)
    BY <1>3, <1>c, Zenon DEF Chains
  <2>. QED BY <1>3, <1>a, <1>b, <2>1, Zenon DEF ChainOf, Queues
<1>e. \A q \in Proc : q # p /\ at[q] \in HoldAt => b[q] # b[p] /\ b[q] \in Buf
  BY <1>3, <1>c, ZenonT(40) DEF Locals, HoldAt
<1>4. /\ at'[p] = "woken" /\ at'[Intr] = at[Intr]
      /\ \A q \in Proc : q # p => at'[q] = at[q]
      /\ ondisk'[b[p]] = FALSE /\ \A k \in Buf : k # b[p] => ondisk'[k] = ondisk[k]
  <2>1. \A q \in Proc : at'[q] = IF at[q] = "wdisk" /\ b[q] = b[p] THEN "woken" ELSE at[q]
    BY <1>2, <1>3, <1>d, Ids, Zenon DEF TypeProc
  <2>2. at'[Intr] = "loop"
    BY <1>2, <1>3, Zenon DEF TypeProc
  <2>3. \A q \in Proc : q # p => ~(at[q] = "wdisk" /\ b[q] = b[p])
    BY <1>e, Zenon DEF HoldAt
  <2>4. at'[p] = "woken" /\ \A q \in Proc : q # p => at'[q] = at[q]
    BY <1>c, <2>1, <2>3, Zenon
  <2>5. ondisk \in [Buf -> BOOLEAN] /\ ondisk' = [ondisk EXCEPT ![b[p]] = FALSE]
    BY <1>2, <1>3, <1>d, Zenon DEF TypeBuf
  <2>6. ondisk'[b[p]] = FALSE /\ \A k \in Buf : k # b[p] => ondisk'[k] = ondisk[k]
    BY <1>c, <2>5, Zenon
  <2>. QED BY <1>2, <2>2, <2>4, <2>6, Zenon
<1>f. panic' = FALSE
  BY <1>2, <1>3, <1>c, <1>d, Ids, Zenon
<1>5. TypeBuf' /\ TypeReq'
  <2>1. ondisk' \in [Buf -> BOOLEAN]
    BY <1>2, <1>3, <1>c, <1>d, Zenon DEF TypeBuf
  <2>. QED BY <1>2, <1>3, <2>1, Zenon DEF TypeBuf, TypeReq, Desc
<1>6. TypeRing'
  BY <1>2, <1>3, <1>a, Zenon DEF TypeRing, Desc
<1>7. TypeProc'
  <2>1. at' \in [Proc \cup {Intr} -> At \cup {"loop"}]
    BY <1>2, <1>3, Ids, Zenon DEF TypeProc, At, HoldAt
  <2>. QED BY <1>2, <1>3, <1>4, <2>1, Zenon DEF TypeProc, At, HoldAt
<1>8. Locals'
  <2>1. \A q \in Proc : /\ at'[q] = "idle" <=> at[q] = "idle"
                        /\ at'[q] \in HoldAt <=> at[q] \in HoldAt
    BY <1>4, <1>c, Zenon DEF HoldAt
  <2>. QED BY <1>2, <1>3, <2>1, LocalsSame, Zenon
<1>9. Owned'
  <2>2. \A q \in Proc : /\ at'[q] \in {"publish", "wdisk"} => ondisk'[b[q]]
                        /\ at'[q] \in HoldAt \ {"publish", "wdisk"} => ~ondisk'[b[q]]
    BY <1>3, <1>4, <1>c, <1>e, Zenon DEF Owned, HoldAt
  <2>3. \A q \in Proc : at'[q] = "publish" <=> vlock = q
    BY <1>3, <1>4, <1>c, ZenonT(40) DEF Owned
  <2>4. \A k \in Buf : ondisk'[k] => owner[k] # None
    BY <1>3, <1>4, Zenon DEF Owned
  <2>5. at'[Intr] = "loop" <=> vlock = Intr
    BY <1>3, <1>4, Zenon DEF Owned
  <2>. QED BY <1>2, <2>2, <2>3, <2>4, <2>5, ZenonT(40) DEF Owned
<1>10. Cache'
  BY <1>2, <1>3, CacheSame, Zenon
<1>11. Chains'
  <2>1. Requesting' = Requesting
    BY <1>4, <1>c, Zenon DEF Requesting
  <2>. QED BY <1>2, <1>3, <2>1, ChainsSame, Zenon
<1>g. \A q \in Waiting : q # p => idx[q][1] # id
  <2>1. \A q \in Waiting : q \in Requesting
    BY HeadsDiffer, Zenon
  <2>2. \A q \in Requesting : q # p => idx[q][1] # idx[p][1]
    BY <1>c, HeadsDiffer, Zenon
  <2>. QED BY <1>b, <2>1, <2>2, Zenon
<1>h. Waiting' = Waiting \ {p}
  BY <1>4, <1>c, Zenon DEF Waiting
<1>12. Queues'
  <2>1. {idx[q][1] : q \in Waiting}' = {idx[q][1] : q \in Waiting} \ {id}
    BY <1>2, <1>b, <1>g, <1>h, Zenon
  <2>2. Range(QA)' = Range(QA) /\ (Injective(QA)' <=> Injective(QA))
    BY <1>a, Zenon DEF Injective
  <2>3. \A q \in Proc : at'[q] = "publish" => at[q] = "publish"
    BY <1>4, Zenon
  <2>4. /\ Range(QA) \cap doing = {} /\ Range(QA) \cap Range(QU)' = {} /\ doing \cap Range(QU)' = {}
        /\ Range(QA) \cup doing \cup Range(QU)' = {idx[q][1] : q \in Waiting} \ {id}
    <3>1. /\ Range(QA) \cap doing = {} /\ Range(QA) \cap Range(QU) = {} /\ doing \cap Range(QU) = {}
          /\ Range(QA) \cup doing \cup Range(QU) = {idx[q][1] : q \in Waiting}
      BY <1>3, Zenon DEF Queues
    <3> DEFINE W == {idx[q][1] : q \in Waiting}
    <3>2. Range(QA) \cup doing \cup Range(QU) = W
      BY <3>1, Zenon
    <3> HIDE DEF W
    <3>3. Range(QA) \cup doing \cup Range(QU)' = W \ {id}
      BY <1>a, <3>1, <3>2, Zenon
    <3>. QED BY <1>a, <3>1, <3>3, Zenon DEF W
  <2>5. \A i \in Range(QU)' : info[i].ok
    BY <1>3, <1>a, Zenon DEF Queues
  <2>6. Injective(QA) /\ \A q \in Proc : at'[q] = "publish" => avail[avail_idx % RING] = idx[q][1]
    BY <1>3, <2>3, ZenonT(40) DEF Queues
  <2>. QED BY <1>2, <1>a, <2>1, <2>2, <2>4, <2>5, <2>6, ZenonT(40) DEF Queues
<1>13. Coherent'
  <2>1. \A q \in Proc : Unserved(q)' <=> Unserved(q)
    <3>1. ~Unserved(p) /\ ~Unserved(p)'
      BY <1>4, <1>a, <1>b, <1>c, Zenon DEF Unserved
    <3>2. \A q \in Proc : q # p => (Unserved(q)' <=> Unserved(q))
      BY <1>2, <1>4, <1>a, <1>g, ZenonT(40) DEF Unserved, Waiting
    <3>. QED BY <3>1, <3>2, Zenon
  <2>4. /\ \A q \in Proc : at'[q] \in HoldAt \ {"have"} => (write[q] <=> valid[b[q]])
        /\ \A q \in Proc : at'[q] = "have" => valid[b[q]]
        /\ \A q \in Proc : at'[q] \in {"wdisk", "woken"} /\ ~Unserved(q)' => data[b[q]] = content[wanted[q]]
    BY <1>3, <1>4, <1>c, <2>1, ZenonT(40) DEF Coherent, HoldAt
  <2>. QED BY <1>2, <1>3, <2>1, <2>4, Zenon DEF Coherent
<1>14. NoLostWakeup'
  <2>1. \A q \in Proc : at'[q] = "wdisk" => q # p /\ at[q] = "wdisk" /\ b[q] \in Buf /\ b[q] # b[p]
    BY <1>3, <1>4, <1>e, Zenon DEF HoldAt
  <2>2. ASSUME NEW q \in Proc
        PROVE  /\ at'[q] = "nodesc" => Cardinality(free) < 3
               /\ at'[q] = "locksleep" => owner[b[q]] # None
               /\ at'[q] = "wdisk" => ondisk'[b[q]]
    <3>1. CASE q = p
      BY <1>4, <3>1, Zenon
    <3>2. CASE q # p
      BY <1>3, <1>4, <2>1, <3>2, Zenon DEF NoLostWakeup
    <3>. QED BY <3>1, <3>2, Zenon
  <2>3. UNCHANGED <<b, owner, free>>
    BY <1>2, Zenon
  <2>. QED BY <2>2, <2>3, Zenon DEF NoLostWakeup
<1>. QED BY <1>3, <1>5, <1>6, <1>7, <1>8, <1>9, <1>10, <1>11, <1>12, <1>13, <1>14, <1>f, ZenonT(40) DEF IInv, TypeOK

-----------------------------------------------------------------------------
(* The device.                                                             *)

\* The device takes over the head of the queue.
LEMMA Fetch_IInv ==
  ASSUME IInv, Numbers, Fetch, UNCHANGED scene
  PROVE  IInv'
<1> DEFINE id == avail[seen % RING]
<1>3. TypeBuf /\ TypeReq /\ TypeRing /\ TypeProc /\ Locals /\ Owned /\ Cache /\ Chains /\ Queues
      /\ Coherent /\ NoLostWakeup /\ panic = FALSE
  BY Parts, Zenon
<1>2. /\ seen # avail_idx /\ doing' = doing \cup {id} /\ seen' = (seen + 1) % IDX
      /\ UNCHANGED <<lru, blockno, valid, refcnt, data, owner, ondisk, free, desc, info, avail, avail_idx, used,
                     used_dev, used_idx, vlock, platter, at, b, write, idx, wanted, pinned, content, panic>>
  BY Zenon DEF Fetch, cache, driver, rings, locals, ghosts
<1>a. /\ seen' \in 0 .. IDX - 1 /\ QU' = QU /\ id \in Range(QA)
      /\ Injective(QA)' /\ Range(QA)' = Range(QA) \ {id}
  <2>1. (avail_idx - seen) % IDX <= RING
    BY Zenon DEF Numbers
  <2>2. seen \in 0 .. IDX - 1 /\ avail_idx \in 0 .. IDX - 1 /\ seen # avail_idx
    BY <1>2, <1>3, Zenon DEF TypeRing
  <2>3. Injective(QA)
    BY <1>3, Zenon DEF Queues
  <2>4. /\ (seen + 1) % IDX \in 0 .. IDX - 1 /\ id \in Range(QA)
        /\ Injective(Heads(avail, (seen + 1) % IDX, avail_idx))
        /\ Range(Heads(avail, (seen + 1) % IDX, avail_idx)) = Range(QA) \ {id}
    BY <2>1, <2>2, <2>3, PopIs, Zenon DEF QA
  <2> HIDE DEF id
  <2>5. QA' = Heads(avail, (seen + 1) % IDX, avail_idx) /\ QU' = QU
    BY <1>2, Zenon DEF QA, QU, Heads
  <2>6. Injective(QA)' <=> Injective(QA')
    BY Zenon DEF Injective
  <2>. QED BY <1>2, <2>4, <2>5, <2>6, Zenon
<1> HIDE DEF id
<1>b. id \in Desc
  <2>1. /\ \A i \in Range(QA) \cup doing \cup Range(QU) : \E q \in Waiting : i = idx[q][1]
        /\ \A q \in Waiting : q \in Requesting
        /\ \A q \in Requesting : idx[q][1] \in Desc
    BY HeadsDiffer, Zenon
  <2>2. PICK q \in Waiting : id = idx[q][1]
    BY <1>a, <2>1, Zenon
  <2>. QED BY <2>1, <2>2, Zenon
<1>5. TypeBuf' /\ TypeReq'
  BY <1>2, <1>3, Zenon DEF TypeBuf, TypeReq, Desc
<1>6. TypeRing'
  <2>1. doing' \subseteq Desc
    BY <1>2, <1>3, <1>b, Zenon DEF TypeRing
  <2>. QED BY <1>2, <1>3, <1>a, <2>1, Zenon DEF TypeRing, Desc
<1>7. TypeProc' /\ Locals' /\ Owned'
  BY <1>2, <1>3, Zenon DEF TypeProc, Locals, Owned
<1>10. Cache'
  BY <1>2, <1>3, CacheSame, Zenon
<1>11. Chains'
  <2>1. Requesting' = Requesting
    BY <1>2, Zenon DEF Requesting
  <2>. QED BY <1>2, <1>3, <2>1, ChainsSame, Zenon
<1>12. Queues'
  <2>1. {idx[q][1] : q \in Waiting}' = {idx[q][1] : q \in Waiting}
    BY <1>2, Zenon DEF Waiting
  <2>2. Range(QU)' = Range(QU) /\ (Injective(QU)' <=> Injective(QU))
    BY <1>a, Zenon DEF Injective
  <2>4. /\ Range(QA)' \cap doing' = {} /\ Range(QA)' \cap Range(QU) = {} /\ doing' \cap Range(QU) = {}
        /\ Range(QA)' \cup doing' \cup Range(QU) = {idx[q][1] : q \in Waiting}
    <3>1. /\ Range(QA) \cap doing = {} /\ Range(QA) \cap Range(QU) = {} /\ doing \cap Range(QU) = {}
          /\ Range(QA) \cup doing \cup Range(QU) = {idx[q][1] : q \in Waiting}
      BY <1>3, Zenon DEF Queues
    <3> DEFINE W == {idx[q][1] : q \in Waiting}
    <3>2. Range(QA) \cup doing \cup Range(QU) = W
      BY <3>1, Zenon
    <3> HIDE DEF W
    <3>3. Range(QA)' \cup doing' \cup Range(QU) = W
      BY <1>2, <1>a, <3>2, Zenon
    <3>. QED BY <1>2, <1>a, <3>1, <3>3, ZenonT(40) DEF W
  <2>5. \A i \in Range(QU) : info[i].ok
    BY <1>3, Zenon DEF Queues
  <2>6. Injective(QU) /\ \A q \in Proc : at[q] = "publish" => avail[avail_idx % RING] = idx[q][1]
    BY <1>3, Zenon DEF Queues
  <2>. QED BY <1>2, <1>a, <2>1, <2>2, <2>4, <2>5, <2>6, Zenon DEF Queues
<1>13. Coherent'
  <2>1. \A q \in Proc : Unserved(q)' <=> Unserved(q)
    BY <1>2, <1>a, Zenon DEF Unserved
  <2>. QED BY <1>2, <1>3, <2>1, Zenon DEF Coherent
<1>14. NoLostWakeup'
  BY <1>2, <1>3, Zenon DEF NoLostWakeup
<1>. QED BY <1>2, <1>3, <1>5, <1>6, <1>7, <1>10, <1>11, <1>12, <1>13, <1>14, ZenonT(40) DEF IInv, TypeOK

\* What Serve does, in terms of the process whose request it is.
LEMMA Serves ==
  ASSUME IInv, NEW i \in Desc, Serve(i)
  PROVE  \E p \in Waiting :
           /\ i = idx[p][1] /\ i \in doing /\ doing' = doing \ {i}
           /\ IF write[p] THEN platter' = [platter EXCEPT ![wanted[p]] = data[b[p]]] /\ data' = data
                          ELSE data' = [data EXCEPT ![b[p]] = platter[wanted[p]]] /\ platter' = platter
           /\ info' = [info EXCEPT ![i].ok = TRUE]
           /\ used' = [used EXCEPT ![used_dev % RING] = i] /\ used_dev' = (used_dev + 1) % IDX
<1>1. Chains /\ TypeProc
  BY Parts, ZenonT(40)
<1>2. i \in doing
  BY Zenon DEF Serve
<1>3. PICK p \in Waiting : i = idx[p][1]
  BY <1>2, HeadsDiffer, Zenon
<1>4. p \in Requesting
  BY HeadsDiffer, Zenon
<1>5. ChainOf(p)
  BY <1>1, <1>4, Zenon DEF Chains
<1>6. /\ desc[i].addr = <<write[p], wanted[p]>> /\ desc[desc[i].next].addr = b[p]
      /\ desc[desc[desc[i].next].next].addr = i
  <2>1. /\ desc[i] = [addr |-> <<write[p], wanted[p]>>, next |-> idx[p][2]]
        /\ desc[idx[p][2]] = [addr |-> b[p], next |-> idx[p][3]]
        /\ desc[idx[p][3]] = [addr |-> i, next |-> None]
    BY <1>3, <1>5, Zenon DEF ChainOf
  <2>2. desc[i].next = idx[p][2] /\ desc[desc[i].next].next = idx[p][3]
    <3>1. /\ [addr |-> <<write[p], wanted[p]>>, next |-> idx[p][2]].next = idx[p][2]
          /\ [addr |-> b[p], next |-> idx[p][3]].next = idx[p][3]
      BY Zenon
    <3>. QED BY <2>1, <3>1, Zenon
  <2>3. /\ [addr |-> <<write[p], wanted[p]>>, next |-> idx[p][2]].addr = <<write[p], wanted[p]>>
        /\ [addr |-> b[p], next |-> idx[p][3]].addr = b[p]
        /\ [addr |-> i, next |-> None].addr = i
    BY Zenon
  <2>. QED BY <2>1, <2>2, <2>3, Zenon
<1>7. desc[i].addr[1] = write[p] /\ desc[i].addr[2] = wanted[p]
  <2>1. <<write[p], wanted[p]>>[1] = write[p] /\ <<write[p], wanted[p]>>[2] = wanted[p]
    BY Zenon
  <2>. QED BY <1>6, <2>1, Zenon
<1>8. /\ IF write[p] THEN platter' = [platter EXCEPT ![wanted[p]] = data[b[p]]] /\ data' = data
                     ELSE data' = [data EXCEPT ![b[p]] = platter[wanted[p]]] /\ platter' = platter
      /\ info' = [info EXCEPT ![i].ok = TRUE]
  BY <1>6, <1>7, Zenon DEF Serve
<1>9. doing' = doing \ {i} /\ used' = [used EXCEPT ![used_dev % RING] = i] /\ used_dev' = (used_dev + 1) % IDX
  BY Zenon DEF Serve
<1>. QED BY <1>2, <1>3, <1>8, <1>9, Zenon

\* The device serves a request: a write brings the disk up to date, and a read
\* finds it so.
LEMMA Serve_IInv ==
  ASSUME IInv, Numbers, NEW i \in Desc, Serve(i), UNCHANGED scene
  PROVE  IInv'
<1>1. PICK p \in Waiting :
        /\ i = idx[p][1] /\ i \in doing /\ doing' = doing \ {i}
        /\ IF write[p] THEN platter' = [platter EXCEPT ![wanted[p]] = data[b[p]]] /\ data' = data
                       ELSE data' = [data EXCEPT ![b[p]] = platter[wanted[p]]] /\ platter' = platter
        /\ info' = [info EXCEPT ![i].ok = TRUE]
        /\ used' = [used EXCEPT ![used_dev % RING] = i] /\ used_dev' = (used_dev + 1) % IDX
  BY Serves, ZenonT(40)
<1>2. UNCHANGED <<lru, blockno, valid, refcnt, owner, ondisk, free, desc, avail, avail_idx, used_idx, vlock,
                  seen, at, b, write, idx, wanted, pinned, content, panic>>
  BY Zenon DEF Serve, cache, locals, ghosts
<1>3. TypeBuf /\ TypeReq /\ TypeRing /\ TypeProc /\ Locals /\ Owned /\ Cache /\ Chains /\ Queues
      /\ Coherent /\ NoLostWakeup /\ panic = FALSE /\ scene.blocks \subseteq Block
  BY Parts, Zenon
<1>4. /\ p \in Proc /\ at[p] = "wdisk" /\ b[p] \in Buf /\ wanted[p] \in Block /\ wanted[p] # None
      /\ blockno[b[p]] = wanted[p] /\ p \in Requesting
  <2>1. p \in Proc /\ at[p] = "wdisk" /\ p \in Requesting
    BY Zenon DEF Waiting, Requesting
  <2>2. b[p] \in Buf /\ wanted[p] \in scene.blocks /\ blockno[b[p]] = wanted[p]
    BY <1>3, <2>1, Zenon DEF Locals
  <2>. QED BY <1>3, <2>1, <2>2, Ids, Zenon
<1>a. /\ used_dev' \in 0 .. IDX - 1 /\ QA' = QA /\ used' \in [0 .. RING - 1 -> Desc]
      /\ Injective(QU)' /\ Range(QU)' = Range(QU) \cup {i}
  <2>1. (used_dev - used_idx) % IDX < RING
    BY <1>1, Zenon DEF Numbers
  <2>2. /\ used \in [0 .. RING - 1 -> Desc] /\ used_dev \in 0 .. IDX - 1 /\ used_idx \in 0 .. IDX - 1
        /\ used' = [used EXCEPT ![used_dev % RING] = i] /\ used_dev' = (used_dev + 1) % IDX
    BY <1>1, <1>3, Zenon DEF TypeRing
  <2>3. Heads(used', used_idx, used_dev) = QU /\ used'[used_dev % RING] = i
    BY <2>1, <2>2, Overwrite, ZenonT(40) DEF QU
  <2>4. Injective(Heads(used', used_idx, used_dev)) /\ used'[used_dev % RING] \notin Range(Heads(used', used_idx, used_dev))
    <3>1. Injective(QU) /\ i \notin Range(QU)
      BY <1>1, <1>3, Zenon DEF Queues
    <3>. QED BY <2>3, <3>1, Zenon
  <2>5. PICK r : r = used'
    BY Zenon
  <2>6. /\ (used_dev + 1) % IDX \in 0 .. IDX - 1
        /\ Injective(Heads(r, used_idx, (used_dev + 1) % IDX))
        /\ Range(Heads(r, used_idx, (used_dev + 1) % IDX)) = Range(Heads(r, used_idx, used_dev)) \cup {r[used_dev % RING]}
    <3>1. Injective(Heads(r, used_idx, used_dev)) /\ r[used_dev % RING] \notin Range(Heads(r, used_idx, used_dev))
      BY <2>4, <2>5, Zenon
    <3>. QED BY <2>1, <2>2, <3>1, PushIs, Zenon
  <2>7. QU' = Heads(r, used_idx, (used_dev + 1) % IDX) /\ QA' = QA
    <3>1. used' = r /\ used_dev' = (used_dev + 1) % IDX /\ used_idx' = used_idx
      BY <1>2, <2>2, <2>5, Zenon
    <3>2. QU' = Heads(r, used_idx, (used_dev + 1) % IDX)
      BY <3>1, Zenon DEF QU, Heads
    <3>3. QA' = QA
      BY <1>2, Zenon DEF QA, Heads
    <3>. QED BY <3>2, <3>3, Zenon
  <2>8. Injective(QU)' <=> Injective(QU')
    BY Zenon DEF Injective
  <2>9. Range(Heads(r, used_idx, used_dev)) = Range(QU) /\ r[used_dev % RING] = i
    BY <2>3, <2>5, Zenon
  <2>10. used' \in [0 .. RING - 1 -> Desc]
    BY <2>2, Zenon
  <2>. QED BY <2>2, <2>6, <2>7, <2>8, <2>9, <2>10, Zenon
<1>b. /\ info' \in [Desc -> [buf : Buf \cup {None}, ok : BOOLEAN]]
      /\ info'[i].ok = TRUE /\ \A j \in Desc : info'[j].buf = info[j].buf
      /\ \A j \in Desc : j # i => info'[j] = info[j]
  <2>1. info \in [Desc -> [buf : Buf \cup {None}, ok : BOOLEAN]]
    BY <1>3, Zenon DEF TypeReq
  <2>. QED BY <1>1, <2>1, ZenonT(40)
<1>c. /\ data' \in [Buf -> Data] /\ platter' \in [Block -> Data]
      /\ \A k \in Buf : k # b[p] => data'[k] = data[k]
      /\ \A n \in Block : n # wanted[p] => platter'[n] = platter[n]
      /\ write[p] => data' = data /\ platter'[wanted[p]] = data[b[p]]
      /\ ~write[p] => platter' = platter /\ data'[b[p]] = platter[wanted[p]]
  <2>1. data \in [Buf -> Data] /\ platter \in [Block -> Data] /\ write[p] \in BOOLEAN
    BY <1>3, <1>4, Zenon DEF TypeBuf, TypeProc
  <2>2. CASE write[p]
    BY <1>1, <1>4, <2>1, <2>2, Zenon
  <2>3. CASE ~write[p]
    BY <1>1, <1>4, <2>1, <2>3, Zenon
  <2>. QED BY <2>1, <2>2, <2>3, Zenon
<1>5. TypeBuf'
  BY <1>2, <1>3, <1>c, Zenon DEF TypeBuf
<1>6. TypeReq' /\ TypeRing'
  <2>1. Desc' = Desc
    BY Zenon DEF Desc
  <2>2. doing' \subseteq Desc
    BY <1>1, <1>3, Zenon DEF TypeRing
  <2>. QED BY <1>2, <1>3, <1>a, <1>b, <2>1, <2>2, Zenon DEF TypeReq, TypeRing
<1>7. TypeProc' /\ Locals' /\ Owned'
  BY <1>2, <1>3, ZenonT(40) DEF TypeProc, Locals, Owned
<1>10. Cache'
  BY <1>2, <1>3, CacheSame, Zenon
<1>11. Chains'
  <2>1. Requesting' = Requesting /\ Desc' = Desc
    BY <1>2, Zenon DEF Requesting, Desc
  <2>2. \A q : Descs(q)' = Descs(q)
    BY <1>2, Zenon DEF Descs
  <2>3. ASSUME NEW q \in Requesting PROVE ChainOf(q)'
    <3>1. ChainOf(q)
      BY <1>3, ZenonT(40) DEF Chains
    <3>2. info'[idx[q][1]].buf = info[idx[q][1]].buf
      BY <1>b, <3>1, Zenon DEF ChainOf
    <3>. QED BY <1>2, <2>1, <3>1, <3>2, Zenon DEF ChainOf
  <2>. QED BY <1>2, <1>3, <2>1, <2>2, <2>3, Zenon DEF Chains
<1>12. Queues'
  <2>1. {idx[q][1] : q \in Waiting}' = {idx[q][1] : q \in Waiting}
    BY <1>2, Zenon DEF Waiting
  <2>2. Range(QA)' = Range(QA) /\ (Injective(QA)' <=> Injective(QA))
    BY <1>a, Zenon DEF Injective
  <2>4. /\ Range(QA) \cap doing' = {} /\ Range(QA) \cap Range(QU)' = {} /\ doing' \cap Range(QU)' = {}
        /\ Range(QA) \cup doing' \cup Range(QU)' = {idx[q][1] : q \in Waiting}
    <3>1. /\ Range(QA) \cap doing = {} /\ Range(QA) \cap Range(QU) = {} /\ doing \cap Range(QU) = {}
          /\ Range(QA) \cup doing \cup Range(QU) = {idx[q][1] : q \in Waiting}
      BY <1>3, Zenon DEF Queues
    <3> DEFINE W == {idx[q][1] : q \in Waiting}
    <3>2. Range(QA) \cup doing \cup Range(QU) = W
      BY <3>1, Zenon
    <3> HIDE DEF W
    <3>3. doing' = doing \ {i} /\ i \in doing
      BY <1>1, Zenon
    <3>4. Range(QA) \cup doing' \cup Range(QU)' = W
      BY <1>a, <3>2, <3>3, Zenon
    <3>5. Range(QA) \cap doing' = {} /\ Range(QA) \cap Range(QU)' = {} /\ doing' \cap Range(QU)' = {}
      BY <1>a, <3>1, <3>3, Zenon
    <3>. QED BY <3>4, <3>5, Zenon DEF W
  <2>5. \A j \in Range(QU)' : info'[j].ok
    <3>1. \A j \in Range(QU) : info[j].ok
      BY <1>3, Zenon DEF Queues
    <3>2. /\ \A j \in Range(QU) : \E q \in Waiting : j = idx[q][1]
          /\ \A q \in Waiting : q \in Requesting
          /\ \A q \in Requesting : idx[q][1] \in Desc
      BY HeadsDiffer, Zenon
    <3>3. \A j \in Range(QU) : j \in Desc
      BY <3>2, Zenon
    <3>4. ASSUME NEW j \in Range(QU)' PROVE info'[j].ok
      <4>1. CASE j = i
        BY <1>b, <4>1, Zenon
      <4>2. CASE j # i
        BY <1>a, <1>b, <3>1, <3>3, <4>2, Zenon
      <4>. QED BY <4>1, <4>2, Zenon
    <3>. QED BY <3>4, Zenon
  <2>6. Injective(QA) /\ \A q \in Proc : at[q] = "publish" => avail[avail_idx % RING] = idx[q][1]
    BY <1>3, Zenon DEF Queues
  <2>. QED BY <1>2, <1>a, <2>1, <2>2, <2>4, <2>5, <2>6, ZenonT(40) DEF Queues
<1>d. \A q \in Proc : q # p /\ at[q] # "idle" =>
        /\ at[q] \in HoldAt => b[q] # b[p] /\ wanted[q] # wanted[p]
        /\ b[q] \in Buf /\ wanted[q] \in Block
  <2>. SUFFICES ASSUME NEW q \in Proc, q # p, at[q] # "idle"
                PROVE  /\ at[q] \in HoldAt => b[q] # b[p] /\ wanted[q] # wanted[p]
                       /\ b[q] \in Buf /\ wanted[q] \in Block
    BY Zenon
  <2>1. at[p] # "idle" /\ at[p] \in HoldAt
    BY <1>4, Zenon DEF HoldAt
  <2>2. /\ at[p] \in HoldAt /\ at[q] \in HoldAt /\ b[p] = b[q] => p = q
        /\ wanted[p] = wanted[q] <=> b[p] = b[q]
    BY <1>4, <2>1, OneHolder, Zenon
  <2>. QED BY <1>3, <2>1, <2>2, Zenon DEF Locals
<1>e. /\ ~Unserved(p)' /\ Unserved(p)
      /\ \A q \in Proc : q # p => (Unserved(q)' <=> Unserved(q))
  <2>1. i \notin Range(QU)
    BY <1>1, <1>3, Zenon DEF Queues
  <2>2. \A q \in Waiting : q # p => idx[q][1] # i
    <3>1. \A q \in Waiting : q \in Requesting
      BY HeadsDiffer, Zenon
    <3>2. \A q \in Requesting : q # p => idx[q][1] # idx[p][1]
      BY <1>4, HeadsDiffer, Zenon
    <3>. QED BY <1>1, <3>1, <3>2, Zenon
  <2>3. ~Unserved(p)' /\ Unserved(p)
    BY <1>1, <1>2, <1>4, <1>a, <2>1, Zenon DEF Unserved
  <2>4. \A q \in Proc : q # p => (Unserved(q)' <=> Unserved(q))
    BY <1>2, <1>a, <2>2, Zenon DEF Unserved, Waiting
  <2>. QED BY <2>3, <2>4, Zenon
<1>f. write[p] <=> valid[b[p]]
  BY <1>3, <1>4, Zenon DEF Coherent, HoldAt
<1>g. \A q \in Proc : Unserved(q) => at[q] \in HoldAt /\ at[q] # "idle"
  BY Zenon DEF Unserved, HoldAt
\* A block that is read is neither pinned nor being written.
<1>h. ~write[p] => platter[wanted[p]] = content[wanted[p]]
  <2>. SUFFICES ASSUME ~write[p], platter[wanted[p]] # content[wanted[p]] PROVE FALSE
    BY Zenon
  <2>1. wanted[p] \in pinned \/ \E q \in Proc : write[q] /\ wanted[q] = wanted[p] /\ Unserved(q)
    BY <1>3, <1>4, Zenon DEF Coherent
  <2>2. wanted[p] \notin pinned
    BY <1>3, <1>4, <1>f, ZenonT(40) DEF Cache
  <2>3. \A q \in Proc : write[q] /\ wanted[q] = wanted[p] => ~Unserved(q)
    BY <1>d, <1>g, Zenon
  <2>. QED BY <2>1, <2>2, <2>3, Zenon
<1>i. data'[b[p]] = content[wanted[p]]
  <2>1. CASE write[p]
    <3>1. data[b[p]] = content[wanted[p]]
      BY <1>3, <1>4, <1>f, <2>1, Zenon DEF Coherent
    <3>. QED BY <1>c, <2>1, <3>1, Zenon
  <2>2. CASE ~write[p]
    BY <1>c, <1>h, <2>2, Zenon
  <2>. QED BY <2>1, <2>2, Zenon
<1>j. platter'[wanted[p]] = content[wanted[p]]
  <2>1. CASE write[p]
    BY <1>c, <1>i, <2>1, Zenon
  <2>2. CASE ~write[p]
    BY <1>c, <1>h, <2>2, Zenon
  <2>. QED BY <2>1, <2>2, Zenon
<1>13. Coherent'
  <2>1. \A k \in Buf : valid[k] /\ blockno[k] # None => data'[k] = content[blockno[k]]
    BY <1>3, <1>4, <1>c, <1>i, ZenonT(40) DEF Coherent
  <2>2. \A n \in Block : platter'[n] # content[n] =>
          n \in pinned \/ \E q \in Proc : write[q] /\ wanted[q] = n /\ Unserved(q)'
    <3>. SUFFICES ASSUME NEW n \in Block, platter'[n] # content[n], n \notin pinned
                  PROVE  \E q \in Proc : write[q] /\ wanted[q] = n /\ Unserved(q)'
      BY Zenon
    <3>1. n # wanted[p] /\ platter[n] # content[n]
      BY <1>c, <1>j, Zenon
    <3>2. PICK q \in Proc : write[q] /\ wanted[q] = n /\ Unserved(q)
      BY <1>3, <3>1, Zenon DEF Coherent
    <3>. QED BY <1>e, <3>1, <3>2, Zenon
  <2>4. \A q \in Proc : at[q] \in {"wdisk", "woken"} /\ ~Unserved(q)' => data'[b[q]] = content[wanted[q]]
    <3>. SUFFICES ASSUME NEW q \in Proc, at[q] \in {"wdisk", "woken"}, ~Unserved(q)'
                  PROVE  data'[b[q]] = content[wanted[q]]
      BY Zenon
    <3>1. CASE q = p
      BY <1>i, <3>1, Zenon
    <3>2. CASE q # p
      <4>1. b[q] # b[p] /\ b[q] \in Buf
        BY <1>d, <3>2, Zenon DEF HoldAt
      <4>2. data[b[q]] = content[wanted[q]]
        BY <1>3, <1>e, <3>2, Zenon DEF Coherent
      <4>. QED BY <1>c, <4>1, <4>2, Zenon
    <3>. QED BY <3>1, <3>2, Zenon
  <2>. QED BY <1>2, <1>3, <2>1, <2>2, <2>4, ZenonT(40) DEF Coherent
<1>14. NoLostWakeup'
  BY <1>2, <1>3, Zenon DEF NoLostWakeup
<1>. QED BY <1>2, <1>3, <1>5, <1>6, <1>7, <1>10, <1>11, <1>12, <1>13, <1>14, ZenonT(40) DEF IInv, TypeOK

\* Nothing changes in a step that leaves the variables alone.
LEMMA Stutter_IInv ==
  ASSUME IInv, UNCHANGED <<scene, vars>>
  PROVE  IInv'
<1>2. UNCHANGED <<scene, lru, blockno, valid, refcnt, data, owner, ondisk, free, desc, info, avail, avail_idx, used,
                  used_dev, used_idx, vlock, seen, doing, platter, at, b, write, idx, wanted, pinned, content, panic>>
  BY Zenon DEF vars, cache, driver, rings, device, locals, ghosts
<1>3. TypeBuf /\ TypeReq /\ TypeRing /\ TypeProc /\ Locals /\ Owned /\ Cache /\ Chains /\ Queues
      /\ Coherent /\ NoLostWakeup /\ panic = FALSE
  BY Parts, Zenon
<1>5. TypeBuf' /\ TypeReq' /\ TypeRing'
  BY <1>2, <1>3, Zenon DEF TypeBuf, TypeReq, TypeRing, Desc
<1>7. TypeProc' /\ Locals' /\ Owned'
  BY <1>2, <1>3, Zenon DEF TypeProc, Locals, Owned
<1>10. Cache'
  <2>1. \A k \in Buf : Users(k)' = Users(k)
    BY <1>2, Zenon DEF Users
  <2>. QED BY <1>2, <1>3, <2>1, ZenonT(40) DEF Cache
<1>11. Chains'
  <2>1. Requesting' = Requesting
    BY <1>2, Zenon DEF Requesting
  <2>. QED BY <1>2, <1>3, <2>1, ChainsSame, Zenon
<1>12. Queues' /\ Range(QU)' = Range(QU)
  BY <1>2, <1>3, QueuesSame, Zenon
<1>13. Coherent'
  <2>1. \A q \in Proc : Unserved(q)' <=> Unserved(q)
    BY <1>2, <1>12, Zenon DEF Unserved
  <2>. QED BY <1>2, <1>3, <2>1, Zenon DEF Coherent
<1>14. NoLostWakeup'
  BY <1>2, <1>3, Zenon DEF NoLostWakeup
<1>. QED BY <1>2, <1>3, <1>5, <1>7, <1>10, <1>11, <1>12, <1>13, <1>14, ZenonT(40) DEF IInv, TypeOK
=============================================================================
