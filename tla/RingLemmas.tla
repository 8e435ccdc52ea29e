------------------------------ MODULE RingLemmas ------------------------------
(***************************************************************************)
(* Facts about numbers, rings and sequences that the proofs about the      *)
(* pipe, the disk and the console rest on.                                 *)
(***************************************************************************)
EXTENDS Integers, Sequences, TLAPS

-----------------------------------------------------------------------------
(* Ring buffers whose counters wrap.  W is where the counters wrap, P the  *)
(* size of the buffer, r and w are the counters of the reader and of the   *)
(* writer.                                                                 *)

\* The counter that is x, taken modulo W, for an x that is out of range by
\* less than W.
Wrapped(x, W) == IF x >= W THEN x - W ELSE IF x < 0 THEN x + W ELSE x

\* The remainder of a number that is at most W off its range.
LEMMA ModIs ==
  ASSUME NEW W \in Nat \ {0}, NEW x \in Int, NEW y \in 0 .. W - 1,
         x = y \/ x = y + W \/ x = y - W
  PROVE  x % W = y
BY SMTT(20)

\* % of such a number is one addition or subtraction of W.
LEMMA ModWrapped ==
  ASSUME NEW W \in Nat \ {0}, NEW x \in -W .. 2 * W - 1
  PROVE  x % W = Wrapped(x, W) /\ Wrapped(x, W) \in 0 .. W - 1
<1>1. /\ x \in Int /\ Wrapped(x, W) \in 0 .. W - 1
      /\ x = Wrapped(x, W) \/ x = Wrapped(x, W) + W \/ x = Wrapped(x, W) - W
  BY DEF Wrapped
<1>. QED BY <1>1, ModIs, Zenon

\* Full and empty: the difference of the counters is what the buffer holds, and
\* moving one of them on by k changes it by k, wherever they wrap.
CountersAgree(W, P, r, w) ==
  /\ (w - r) % W \in 0 .. P
  /\ (r + P - w) % W = P - ((w - r) % W)
  /\ \A k \in 0 .. P - ((w - r) % W) :
       (w + k) % W \in 0 .. W - 1 /\ (((w + k) % W) - r) % W = ((w - r) % W) + k
  /\ \A k \in 0 .. (w - r) % W :
       (r + k) % W \in 0 .. W - 1 /\ (w - ((r + k) % W)) % W = ((w - r) % W) - k
  /\ (r + ((w - r) % W)) % W = w

\* The two counters agree on what is stored and on what is free: together
\* that is the size of the buffer, before and after either counter moves.
LEMMA Counters ==
  ASSUME NEW W \in Nat \ {0}, NEW P \in Nat \ {0}, P < W,
         NEW r \in 0 .. W - 1, NEW w \in 0 .. W - 1, (w - r) % W <= P
  PROVE  CountersAgree(W, P, r, w)
<1>. DEFINE a == Wrapped(w - r, W)
<1>1. (w - r) % W = a
  <2>1. w - r \in -W .. 2 * W - 1
    OBVIOUS
  <2>. QED BY <2>1, ModWrapped, Zenon
<1>2. a \in 0 .. P
  BY <1>1 DEF Wrapped
<1>3. (r + P - w) % W = P - a
  <2>1. r + P - w \in -W .. 2 * W - 1
    OBVIOUS
  <2>2. Wrapped(r + P - w, W) = P - a
    BY <1>2 DEF Wrapped
  <2>. QED BY <2>1, <2>2, ModWrapped, Zenon
<1>4. ASSUME NEW k \in 0 .. P - a
      PROVE  (w + k) % W \in 0 .. W - 1 /\ (((w + k) % W) - r) % W = a + k
  <2>. DEFINE v == Wrapped(w + k, W)
  <2>1. w + k \in -W .. 2 * W - 1 /\ v - r \in -W .. 2 * W - 1 /\ Wrapped(v - r, W) = a + k
    BY <1>2 DEF Wrapped
  <2>. HIDE DEF a, v
  <2>2. (w + k) % W = v /\ v \in 0 .. W - 1
    BY <2>1, ModWrapped, Zenon DEF v
  <2>3. (v - r) % W = a + k
    BY <2>1, ModWrapped, Zenon
  <2>. QED BY <2>2, <2>3, Zenon
<1>5. ASSUME NEW k \in 0 .. a
      PROVE  (r + k) % W \in 0 .. W - 1 /\ (w - ((r + k) % W)) % W = a - k
  <2>. DEFINE v == Wrapped(r + k, W)
  <2>1. r + k \in -W .. 2 * W - 1 /\ w - v \in -W .. 2 * W - 1 /\ Wrapped(w - v, W) = a - k
    BY <1>2 DEF Wrapped
  <2>. HIDE DEF a, v
  <2>2. (r + k) % W = v /\ v \in 0 .. W - 1
    BY <2>1, ModWrapped, Zenon DEF v
  <2>3. (w - v) % W = a - k
    BY <2>1, ModWrapped, Zenon
  <2>. QED BY <2>2, <2>3, Zenon
<1>6. (r + a) % W = w
  <2>1. r + a \in -W .. 2 * W - 1 /\ Wrapped(r + a, W) = w
    BY <1>2 DEF Wrapped
  <2>. QED BY <2>1, ModWrapped, Zenon
<1>. HIDE DEF a
<1>. QED BY <1>1, <1>2, <1>3, <1>4, <1>5, <1>6, Zenon DEF CountersAgree

-----------------------------------------------------------------------------
(* Division by a number that is not a constant.                            *)

\* Division with remainder.
LEMMA Division ==
  ASSUME NEW P \in Nat \ {0}, NEW c \in Int
  PROVE  c = P * (c \div P) + (c % P) /\ c % P \in 0 .. P - 1 /\ c \div P \in Int
BY SMTT(30)

\* Different multiples of P are at least P apart.
LEMMA Multiples ==
  ASSUME NEW P \in Nat \ {0}, NEW a \in Int, NEW b \in Int, a < b
  PROVE  P * a + P <= P * b
BY SMTT(30)

\* The remainder is the number that differs by a multiple of P.
LEMMA Remainder ==
  ASSUME NEW P \in Nat \ {0}, NEW q \in Int, NEW m \in 0 .. P - 1
  PROVE  (P * q + m) % P = m
BY SMTT(30)

\* Counters less than P apart use different slots.
LEMMA SlotsDiffer ==
  ASSUME NEW P \in Nat \ {0}, NEW c \in Int, NEW d \in Int, c < d, d < c + P
  PROVE  c % P # d % P
<1>. SUFFICES ASSUME c % P = d % P PROVE FALSE
  OBVIOUS
<1>. DEFINE x == c \div P  y == d \div P  m == c % P
<1>1. c = P * x + m /\ d = P * y + m /\ m \in 0 .. P - 1 /\ x \in Int /\ y \in Int
  BY Division, Zenon
<1>. HIDE DEF x, y, m
<1>2. x < y => P * x + P <= P * y
  BY <1>1, Multiples, Zenon
<1>3. x > y => P * y + P <= P * x
  <2>1. x > y => y < x
    BY <1>1
  <2>. QED BY <1>1, <2>1, Multiples, Zenon
<1>. DEFINE u == P * x  v == P * y
<1>4. u \in Int /\ v \in Int /\ (x = y => u = v)
  BY <1>1
<1>5. c = u + m /\ d = v + m /\ (x < y => u + P <= v) /\ (x > y => v + P <= u)
  BY <1>1, <1>2, <1>3
<1>. HIDE DEF u, v
<1>. QED BY <1>1, <1>4, <1>5

\* A counter that wraps keeps its slot, as W is a multiple of P.
LEMMA SlotWraps ==
  ASSUME NEW P \in Nat \ {0}, NEW c \in Int, NEW W \in Int, W % P = 0
  PROVE  (c - W) % P = c % P
<1>. DEFINE x == c \div P  y == W \div P  m == c % P
<1>1. c = P * x + m /\ W = P * y + 0 /\ m \in 0 .. P - 1 /\ x \in Int /\ y \in Int
  <2>1. W = P * y + (W % P) /\ y \in Int
    BY Division, Zenon
  <2>. QED BY <2>1, Division, Zenon
<1>. HIDE DEF x, y, m
<1>2. c - W = P * (x - y) + m /\ x - y \in Int
  BY <1>1
<1>3. (P * (x - y) + m) % P = m
  BY <1>1, <1>2, Remainder, Zenon
<1>4. (c - W) % P = m
  BY <1>2, <1>3, Zenon
<1>. QED BY <1>4 DEF m

\* The slot of the byte with number c.
SlotIn(W, P, c) == (c % W) % P

\* A counter may have wrapped once.
LEMMA SlotOf ==
  ASSUME NEW W \in Nat \ {0}, NEW P \in Nat \ {0}, W % P = 0, NEW c \in 0 .. 2 * W - 1
  PROVE  SlotIn(W, P, c) = c % P /\ SlotIn(W, P, c) \in 0 .. P - 1
<1>1. c \in -W .. 2 * W - 1 /\ c \in Int /\ W \in Int
  OBVIOUS
<1>2. c % W = Wrapped(c, W)
  BY <1>1, ModWrapped, Zenon
<1>3. Wrapped(c, W) = c \/ Wrapped(c, W) = c - W
  BY DEF Wrapped
<1>4. (c - W) % P = c % P
  BY <1>1, SlotWraps, Zenon
<1>5. c % P \in 0 .. P - 1
  BY <1>1, Division, Zenon
<1>. QED BY <1>2, <1>3, <1>4, <1>5, Zenon DEF SlotIn

\* The bytes in the buffer, and those for which there is room, are numbered
\* from r; each has a slot of its own.
LEMMA OwnSlots ==
  ASSUME NEW W \in Nat \ {0}, NEW P \in Nat \ {0}, P < W, W % P = 0,
         NEW r \in 0 .. W - 1,
         NEW i \in 0 .. P - 1, NEW j \in 0 .. P - 1, i # j
  PROVE  SlotIn(W, P, r + i) # SlotIn(W, P, r + j)
<1>. DEFINE c == r + i  d == r + j
<1>1. c \in 0 .. 2 * W - 1
  OBVIOUS
<1>2. d \in 0 .. 2 * W - 1
  OBVIOUS
<1>3. /\ c \in Int /\ d \in Int
      /\ (c < d /\ d < c + P) \/ (d < c /\ c < d + P)
  OBVIOUS
<1>. HIDE DEF c, d
<1>4. SlotIn(W, P, c) = c % P
  BY <1>1, SlotOf, ZenonT(30)
<1>5. SlotIn(W, P, d) = d % P
  BY <1>2, SlotOf, ZenonT(30)
<1>6. c % P # d % P
  BY <1>3, SlotsDiffer, Zenon
<1>7. SlotIn(W, P, c) # SlotIn(W, P, d)
  BY <1>4, <1>5, <1>6, Zenon
<1>. QED BY <1>7, Zenon DEF c, d

\* Counting on from a counter that has been moved by n gives the same slots.
SlotsMove(W, P, r, n) ==
  \A i \in 0 .. P - n : SlotIn(W, P, ((r + n) % W) + i) = SlotIn(W, P, r + n + i)

\* A slot stays what it is when the counter it is found from moves on.
LEMMA SlotMoves ==
  ASSUME NEW W \in Nat \ {0}, NEW P \in Nat \ {0}, P < W, W % P = 0,
         NEW r \in 0 .. W - 1, NEW n \in 0 .. P
  PROVE  SlotsMove(W, P, r, n)
<1>. SUFFICES ASSUME NEW i \in 0 .. P - n
              PROVE  SlotIn(W, P, ((r + n) % W) + i) = SlotIn(W, P, r + n + i)
  BY DEF SlotsMove
<1>. DEFINE v == Wrapped(r + n, W)  c == r + n + i
<1>1. r + n \in -W .. 2 * W - 1
  OBVIOUS
<1>2. (r + n) % W = v
  BY <1>1, ModWrapped, Zenon
<1>3. v + i \in 0 .. 2 * W - 1
  BY DEF Wrapped
<1>4. c \in 0 .. 2 * W - 1
  OBVIOUS
<1>5. c \in Int /\ W \in Int /\ (v + i = c \/ v + i = c - W)
  BY DEF Wrapped
<1>. HIDE DEF v, c
<1>6. SlotIn(W, P, v + i) = (v + i) % P
  BY <1>3, SlotOf, ZenonT(30)
<1>7. SlotIn(W, P, c) = c % P
  BY <1>4, SlotOf, ZenonT(30)
<1>8. (c - W) % P = c % P
  BY <1>5, SlotWraps, Zenon
<1>9. SlotIn(W, P, v + i) = SlotIn(W, P, c)
  BY <1>5, <1>6, <1>7, <1>8, Zenon
<1>. QED BY <1>2, <1>9, Zenon DEF c

-----------------------------------------------------------------------------
(* Sequences: the bytes in the ring.                                       *)

\* The empty sequence.
LEMMA NoBytes ==
  ASSUME NEW T
  PROVE  <<>> \in Seq(T) /\ Len(<<>>) = 0 /\ \A s \in Seq(T) : Len(s) = 0 => s = <<>>
OBVIOUS

\* Taking nothing, taking all and adding nothing.
LEMMA NoneAndAll ==
  ASSUME NEW T, NEW s \in Seq(T)
  PROVE  /\ Len(s) \in Nat /\ s \o <<>> = s
         /\ SubSeq(s, 1, 0) = <<>> /\ SubSeq(s, 1, Len(s)) = s
OBVIOUS

\* The first k elements.
LEMMA FirstPart ==
  ASSUME NEW T, NEW s \in Seq(T), NEW k \in 0 .. Len(s)
  PROVE  /\ SubSeq(s, 1, k) \in Seq(T) /\ Len(SubSeq(s, 1, k)) = k
         /\ \A i \in 1 .. k : SubSeq(s, 1, k)[i] = s[i]
OBVIOUS

\* The elements after the first n.
LEMMA LastPart ==
  ASSUME NEW T, NEW s \in Seq(T), NEW n \in 0 .. Len(s)
  PROVE  /\ SubSeq(s, n + 1, Len(s)) \in Seq(T)
         /\ Len(SubSeq(s, n + 1, Len(s))) = Len(s) - n
         /\ \A i \in 1 .. Len(s) - n : SubSeq(s, n + 1, Len(s))[i] = s[n + i]
OBVIOUS

\* The two parts of a concatenation.
LEMMA BothParts ==
  ASSUME NEW T, NEW s \in Seq(T), NEW t \in Seq(T)
  PROVE  /\ s \o t \in Seq(T) /\ Len(s \o t) = Len(s) + Len(t)
         /\ \A i \in 1 .. Len(s) : (s \o t)[i] = s[i]
         /\ \A i \in 1 .. Len(t) : (s \o t)[Len(s) + i] = t[i]
OBVIOUS

\* Sequences are equal if they have the same elements in the same order.
LEMMA SameElements ==
  ASSUME NEW T, NEW s \in Seq(T), NEW t \in Seq(T),
         Len(s) = Len(t), \A i \in 1 .. Len(s) : s[i] = t[i]
  PROVE  s = t
OBVIOUS

-----------------------------------------------------------------------------
(* Numbers of things: how many there are, and how many there is room for.  *)

\* Sums and differences of sizes.
LEMMA SumsOfSizes ==
  /\ \A x, y \in Nat : x + y - 0 = x + y
  /\ \A x \in Nat : x + 0 = x /\ 0 <= x
  /\ \A x \in Nat : (3 <= x => x > 0) /\ (x > 0 => 0 \in 0 .. x - 1)
  /\ \A x \in Nat : \A i \in 1 .. x : x + 1 - i \in 1 .. x /\ x + 1 - (x + 1 - i) = i
BY SMT

\* What is left of a sum.
LEMMA Remaining ==
  ASSUME NEW y \in Nat, NEW z \in Nat
  PROVE  z = (y + z) - y
BY SMT

\* There is room for one more, or for no more.
LEMMA RoomLeft ==
  /\ \A n, h, q, ring \in Nat : n <= h - 1 /\ h <= q /\ q <= ring => n < ring
  /\ \A n, h, q, ring \in Nat : n <= h /\ h <= q => (q <= ring => n <= ring) /\ (q < ring => n < ring)
  /\ \A n, c \in Nat : n >= c => ~(n <= c - 1)
  /\ \A n, x, y, pin, m, c \in Nat : n = x + y /\ x <= pin /\ pin <= m /\ y <= c - 1 => ~(n >= c + m)
BY SMT

\* Requests of three descriptors each.
LEMMA ThreeEach ==
  ASSUME NEW num \in Nat, NEW ring \in Nat, NEW f \in Nat, NEW r \in Nat, num < 3 * (ring + 1), r * 3 <= num - f
  PROVE  r <= ring /\ (f >= 3 => r < ring)
BY SMT

\* Three different things have three different indices.
LEMMA DistinctOfThree ==
  ASSUME NEW g, g[1] # g[2], g[1] # g[3], g[2] # g[3], NEW x \in 1 .. 3, NEW y \in 1 .. 3, g[x] = g[y]
  PROVE  x = y
BY SMT

\* The order of numbers, seen from the other end of an interval.
LEMMA NotLess ==
  ASSUME NEW n \in Nat, NEW i \in 1 .. n, NEW j \in 1 .. n, <<n - j, n - i>> \notin {ss \in Nat \X Nat : ss[1] < ss[2]}
  PROVE  i >= j
BY SMT

\* 1 for a member of S, 0 for anything else.
Count(x, S) == IF x \in S THEN 1 ELSE 0

\* What is in one of three disjoint sets is counted once.
LEMMA CountedOnce ==
  ASSUME NEW x, NEW A, NEW B, NEW C, A \cap B = {}, A \cap C = {}, B \cap C = {}
  PROVE  /\ x \in A \cup B \cup C => Count(x, A) + Count(x, B) + Count(x, C) = 1
         /\ x \notin A \cup B \cup C => Count(x, A) + Count(x, B) + Count(x, C) = 0
BY SMT DEF Count
=============================================================================
