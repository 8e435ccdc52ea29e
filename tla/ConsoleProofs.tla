---------------------------- MODULE ConsoleProofs ----------------------------
(***************************************************************************)
(* Proofs about the console (module Console), for any readers and writers, *)
(* every size of the two rings, every width of their indices and whatever  *)
(* is typed, read and written: nobody sleeps on what is there, the device  *)
(* has room for what is written to it, cons.buf implements the line        *)
(* discipline of module Lines and uart_tx_buf the queue of module Stream.  *)
(***************************************************************************)
EXTENDS Console, RingLemmas

-----------------------------------------------------------------------------
(* Rings as sequences.  W is where the indices wrap, P the size.           *)

RingSize(W, P) == W \in Nat \ {0} /\ P \in Nat \ {0} /\ P < W /\ W % P = 0

\* The m characters from index i on.
Cells(ch, W, P, i, m) == [k \in 1 .. m |-> ch[SlotIn(W, P, i + (k - 1))]]

\* s is the sequence of them.
CellsIn(s, ch, W, P, T, i, m) ==
  s \in Seq(T) /\ Len(s) = m /\ \A k \in 1 .. m : s[k] = ch[SlotIn(W, P, i + (k - 1))]

\* The slots from index i on are there.
SlotsThere(W, P, i) == \A k \in 0 .. P : SlotIn(W, P, i + k) \in 0 .. P - 1

\* They are.
LEMMA SlotsAreThere ==
  ASSUME NEW W, NEW P, RingSize(W, P), NEW i \in 0 .. W - 1
  PROVE  SlotsThere(W, P, i)
<1>1. W \in Nat \ {0} /\ P \in Nat \ {0} /\ P < W /\ W % P = 0
  BY Zenon DEF RingSize
<1>2. ASSUME NEW k \in 0 .. P PROVE SlotIn(W, P, i + k) \in 0 .. P - 1
  <2>1. i + k \in 0 .. 2 * W - 1
    BY <1>1
  <2>. QED BY <1>1, <2>1, SlotOf, Zenon
<1>. QED BY <1>2, Zenon DEF SlotsThere

\* The characters of a ring are a sequence.
LEMMA CellsAre ==
  ASSUME NEW W, NEW P, RingSize(W, P), NEW T, NEW ch \in [0 .. P - 1 -> T],
         NEW i \in 0 .. W - 1, NEW m \in 0 .. P
  PROVE  CellsIn(Cells(ch, W, P, i, m), ch, W, P, T, i, m)
<1> DEFINE s(k) == SlotIn(W, P, i + k)
<1>1. P \in Nat \ {0}
  BY Zenon DEF RingSize
<1>2. \A k \in 0 .. P : s(k) \in 0 .. P - 1
  BY SlotsAreThere, Zenon DEF SlotsThere
<1>3. \A k \in 1 .. m : k - 1 \in 0 .. P
  BY <1>1
<1>4. \A k \in 1 .. m : ch[s(k - 1)] \in T
  BY <1>2, <1>3, Zenon
<1>5. Cells(ch, W, P, i, m) = [k \in 1 .. m |-> ch[s(k - 1)]]
  BY Zenon DEF Cells
<1> HIDE DEF s
<1>6. m \in Nat
  BY <1>1
<1>7. /\ [k \in 1 .. m |-> ch[s(k - 1)]] \in Seq(T) /\ Len([k \in 1 .. m |-> ch[s(k - 1)]]) = m
      /\ \A k \in 1 .. m : [l \in 1 .. m |-> ch[s(l - 1)]][k] = ch[s(k - 1)]
  BY <1>4, <1>6
<1>. QED BY <1>5, <1>7, Zenon DEF CellsIn, s

\* A character stored behind them is no other's.
Pushed(ch, new, W, P, T, i, m, x) ==
  /\ new \in [0 .. P - 1 -> T]
  /\ Cells(new, W, P, i, m + 1) = Append(Cells(ch, W, P, i, m), x)
  /\ \A k \in 0 .. m : Cells(new, W, P, i, k) = Cells(ch, W, P, i, k)

\* That is what storing one does.
LEMMA CellsPush ==
  ASSUME NEW W, NEW P, RingSize(W, P), NEW T, NEW ch \in [0 .. P - 1 -> T],
         NEW i \in 0 .. W - 1, NEW m \in 0 .. P - 1, NEW x \in T,
         NEW new, new = [ch EXCEPT ![SlotIn(W, P, i + m)] = x]
  PROVE  Pushed(ch, new, W, P, T, i, m, x)
<1>1. W \in Nat \ {0} /\ P \in Nat \ {0} /\ P < W /\ W % P = 0
  BY Zenon DEF RingSize
<1> DEFINE s(k) == SlotIn(W, P, i + k)
<1>2. \A k \in 0 .. P : s(k) \in 0 .. P - 1
  BY SlotsAreThere, Zenon DEF SlotsThere
<1>3. ASSUME NEW k \in 0 .. m - 1 PROVE s(k) # s(m)
  <2>1. k \in 0 .. P - 1 /\ m \in 0 .. P - 1 /\ k # m
    BY <1>1
  <2>. QED BY <1>1, <2>1, OwnSlots, Zenon
<1> HIDE DEF s
<1>a. m \in 0 .. P /\ \A k \in 0 .. m - 1 : k \in 0 .. P
  BY <1>1
<1>4. new = [ch EXCEPT ![s(m)] = x] /\ s(m) \in 0 .. P - 1 /\ \A k \in 0 .. m - 1 : s(k) \in 0 .. P - 1
  BY <1>2, <1>a, Zenon DEF s
<1>5. new \in [0 .. P - 1 -> T] /\ new[s(m)] = x
  BY <1>4, Zenon
<1>b. \A k \in 0 .. m - 1 : new[s(k)] = ch[s(k)]
  <2>. SUFFICES ASSUME NEW k \in 0 .. m - 1 PROVE new[s(k)] = ch[s(k)]
    BY Zenon
  <2>1. s(k) # s(m) /\ s(k) \in 0 .. P - 1
    BY <1>3, <1>4, Zenon
  <2>. QED BY <1>4, <2>1, Zenon
<1>6. \A k \in 0 .. m : Cells(new, W, P, i, k) = Cells(ch, W, P, i, k)
  <2>. SUFFICES ASSUME NEW k \in 0 .. m PROVE Cells(new, W, P, i, k) = Cells(ch, W, P, i, k)
    BY Zenon
  <2>1. \A j \in 1 .. k : j - 1 \in 0 .. m - 1
    BY <1>1
  <2>2. \A j \in 1 .. k : new[s(j - 1)] = ch[s(j - 1)]
    BY <1>b, <2>1, Zenon
  <2>3. [j \in 1 .. k |-> new[s(j - 1)]] = [j \in 1 .. k |-> ch[s(j - 1)]]
    BY <2>2, Zenon
  <2>. QED BY <2>3, Zenon DEF Cells, s
<1>7. Cells(new, W, P, i, m + 1) = Append(Cells(ch, W, P, i, m), x)
  <2> DEFINE old == Cells(ch, W, P, i, m)
             all == Cells(new, W, P, i, m + 1)
  <2>1. m \in 0 .. P /\ m + 1 \in 0 .. P /\ m \in Nat /\ (m + 1) - 1 = m
    BY <1>1
  <2>2. CellsIn(old, ch, W, P, T, i, m) /\ CellsIn(all, new, W, P, T, i, m + 1)
    BY <1>5, <2>1, CellsAre, Zenon
  <2> HIDE DEF old, all
  <2>3. old \in Seq(T) /\ Len(old) = m /\ \A k \in 1 .. m : old[k] = ch[s(k - 1)]
    BY <2>2, Zenon DEF CellsIn, s
  <2>4. all \in Seq(T) /\ Len(all) = m + 1 /\ \A k \in 1 .. m + 1 : all[k] = new[s(k - 1)]
    BY <2>2, Zenon DEF CellsIn, s
  <2>5. /\ Append(old, x) \in Seq(T) /\ Len(Append(old, x)) = m + 1 /\ Append(old, x)[m + 1] = x
        /\ \A k \in 1 .. m : Append(old, x)[k] = old[k]
    BY <2>1, <2>3
  <2>6. ASSUME NEW k \in 1 .. m + 1 PROVE all[k] = Append(old, x)[k]
    <3>1. CASE k = m + 1
      <4>1. all[m + 1] = new[s((m + 1) - 1)]
        BY <2>4, <3>1, Zenon
      <4>. QED BY <1>5, <2>1, <2>5, <3>1, <4>1, Zenon
    <3>2. CASE k \in 1 .. m
      <4>1. k - 1 \in 0 .. m - 1
        BY <2>1, <3>2, SMTT(40)
      <4>. QED BY <1>b, <2>3, <2>4, <2>5, <3>2, <4>1, Zenon
    <3>3. k = m + 1 \/ k \in 1 .. m
      BY <2>1
    <3>. QED BY <3>1, <3>2, <3>3, Zenon
  <2>7. Len(all) = Len(Append(old, x)) /\ \A k \in 1 .. Len(all) : all[k] = Append(old, x)[k]
    BY <2>4, <2>5, <2>6, Zenon
  <2>8. all = Append(old, x)
    BY <2>4, <2>5, <2>7, SameElements, Zenon
  <2>. QED BY <2>8, Zenon DEF old, all
<1>. QED BY <1>5, <1>6, <1>7, Zenon DEF Pushed

\* The first k of them, and those behind.
Parted(ch, W, P, i, m, k) ==
  /\ Cells(ch, W, P, i, k) = SubSeq(Cells(ch, W, P, i, m), 1, k)
  /\ Cells(ch, W, P, (i + k) % W, m - k) = SubSeq(Cells(ch, W, P, i, m), k + 1, m)
  /\ Cells(ch, W, P, i, m) = Cells(ch, W, P, i, k) \o Cells(ch, W, P, (i + k) % W, m - k)

\* The characters can be parted anywhere.
LEMMA CellsSplit ==
  ASSUME NEW W, NEW P, RingSize(W, P), NEW T, NEW ch \in [0 .. P - 1 -> T],
         NEW i \in 0 .. W - 1, NEW m \in 0 .. P, NEW k \in 0 .. m
  PROVE  Parted(ch, W, P, i, m, k)
<1>1. W \in Nat \ {0} /\ P \in Nat \ {0} /\ P < W /\ W % P = 0
  BY Zenon DEF RingSize
<1> DEFINE all == Cells(ch, W, P, i, m)
           one == Cells(ch, W, P, i, k)
           j == (i + k) % W
           two == Cells(ch, W, P, j, m - k)
           s(l) == SlotIn(W, P, i + l)
<1>2. k \in 0 .. P /\ m - k \in 0 .. P /\ m \in Nat /\ k \in Nat
  BY <1>1
<1>3. j \in 0 .. W - 1
  <2>1. i + k \in Int
    BY <1>2
  <2>. QED BY <1>1, <2>1, Division, Zenon
<1>4. \A l \in 0 .. P - k : SlotIn(W, P, j + l) = SlotIn(W, P, i + k + l)
  <2>1. SlotsMove(W, P, i, k)
    BY <1>1, <1>2, SlotMoves, Zenon
  <2>. QED BY <2>1, Zenon DEF SlotsMove
<1> HIDE DEF j
<1>a. CellsIn(all, ch, W, P, T, i, m) /\ CellsIn(one, ch, W, P, T, i, k) /\ CellsIn(two, ch, W, P, T, j, m - k)
  BY <1>2, <1>3, CellsAre, Zenon
<1> HIDE DEF one, two, all
<1>5. all \in Seq(T) /\ Len(all) = m /\ \A l \in 1 .. m : all[l] = ch[s(l - 1)]
  BY <1>a, Zenon DEF CellsIn
<1>6. one \in Seq(T) /\ Len(one) = k /\ \A l \in 1 .. k : one[l] = ch[s(l - 1)]
  BY <1>a, Zenon DEF CellsIn
<1>7. two \in Seq(T) /\ Len(two) = m - k /\ \A l \in 1 .. m - k : two[l] = ch[SlotIn(W, P, j + (l - 1))]
  BY <1>a, Zenon DEF CellsIn
<1>8. \A l \in 1 .. m - k : two[l] = all[k + l]
  <2>. SUFFICES ASSUME NEW l \in 1 .. m - k PROVE two[l] = all[k + l]
    BY Zenon
  <2>1. /\ l - 1 \in 0 .. P - k /\ k + l \in 1 .. m
        /\ i + k + (l - 1) = i + ((k + l) - 1)
    BY <1>1, <1>2
  <2>2. SlotIn(W, P, j + (l - 1)) = s((k + l) - 1)
    <3>1. SlotIn(W, P, j + (l - 1)) = SlotIn(W, P, i + k + (l - 1))
      BY <1>4, <2>1, Zenon
    <3>. QED BY <2>1, <3>1, Zenon
  <2> HIDE DEF s
  <2>. QED BY <1>5, <1>7, <2>1, <2>2, Zenon
<1> HIDE DEF s
<1>9. \A l \in 1 .. k : one[l] = all[l]
  <2>1. \A l \in 1 .. k : l \in 1 .. m
    BY <1>2
  <2>. QED BY <1>5, <1>6, <2>1, Zenon
<1>10. /\ SubSeq(all, 1, k) \in Seq(T) /\ Len(SubSeq(all, 1, k)) = k
       /\ \A l \in 1 .. k : SubSeq(all, 1, k)[l] = all[l]
  BY <1>2, <1>5, FirstPart, Zenon
<1>11. /\ SubSeq(all, k + 1, m) \in Seq(T) /\ Len(SubSeq(all, k + 1, m)) = m - k
       /\ \A l \in 1 .. m - k : SubSeq(all, k + 1, m)[l] = all[k + l]
  BY <1>2, <1>5, LastPart, Zenon
<1>12. one = SubSeq(all, 1, k)
  BY <1>6, <1>9, <1>10, SameElements, Zenon
<1>13. two = SubSeq(all, k + 1, m)
  BY <1>7, <1>8, <1>11, SameElements, Zenon
<1>14. all = one \o two
  <2>0. /\ one \o two \in Seq(T) /\ Len(one \o two) = Len(one) + Len(two)
        /\ \A l \in 1 .. Len(one) : (one \o two)[l] = one[l]
        /\ \A l \in 1 .. Len(two) : (one \o two)[Len(one) + l] = two[l]
    BY <1>6, <1>7, BothParts, SMTT(40)
  <2>1. /\ one \o two \in Seq(T) /\ Len(one \o two) = k + (m - k)
        /\ \A l \in 1 .. k : (one \o two)[l] = one[l]
        /\ \A l \in 1 .. m - k : (one \o two)[k + l] = two[l]
    BY <1>6, <1>7, <2>0, Zenon
  <2>2. Len(one \o two) = m
    BY <1>2, <2>1
  <2>3. ASSUME NEW l \in 1 .. m PROVE all[l] = (one \o two)[l]
    <3>1. CASE l \in 1 .. k
      BY <1>9, <2>1, <3>1, Zenon
    <3>2. CASE l \notin 1 .. k
      <4>1. l - k \in 1 .. m - k /\ k + (l - k) = l
        BY <1>2, <3>2
      <4>. QED BY <1>8, <2>1, <4>1, ZenonT(40)
    <3>. QED BY <3>1, <3>2, Zenon
  <2>4. Len(all) = Len(one \o two) /\ \A l \in 1 .. Len(all) : all[l] = (one \o two)[l]
    BY <1>5, <2>2, <2>3, Zenon
  <2>. QED BY <1>5, <2>1, <2>4, SameElements, Zenon
<1>. QED BY <1>12, <1>13, <1>14, Zenon DEF one, two, all, j, Parted

\* The index j, moved back by z, is z nearer to i.
Nearer(W, i, j, z) ==
  (j - z) % W \in 0 .. W - 1 /\ (((j - z) % W) - i) % W = ((j - i) % W) - z

\* It is, if it does not pass i.
LEMMA MovedBack ==
  ASSUME NEW W, NEW P, RingSize(W, P), NEW i \in 0 .. W - 1, NEW j \in 0 .. W - 1,
         (j - i) % W <= P, NEW z \in 0 .. (j - i) % W
  PROVE  Nearer(W, i, j, z)
<1>1. W \in Nat \ {0} /\ P \in Nat \ {0} /\ P < W
  BY Zenon DEF RingSize
<1> DEFINE a == (j - i) % W
<1>2. a = Wrapped(j - i, W) /\ a \in 0 .. W - 1
  <2>1. j - i \in -W .. 2 * W - 1
    BY <1>1
  <2>. QED BY <1>1, <2>1, ModWrapped, Zenon
<1>a. z \in 0 .. a /\ a <= P
  BY Zenon
<1> HIDE DEF a
<1>3. (i + (a - z)) % W \in 0 .. W - 1 /\ (((i + (a - z)) % W) - i) % W = a - z
  <2>1. (i - i) % W = 0
    <3>1. i - i = 0 /\ 0 \in 0 .. W - 1 /\ 0 \in Int
      BY <1>1
    <3>2. 0 % W = 0
      BY <1>1, <3>1, ModIs, Zenon
    <3>. QED BY <3>1, <3>2, Zenon
  <2>2. (i - i) % W <= P
    BY <1>1, <2>1
  <2>3. CountersAgree(W, P, i, i)
    BY <1>1, <2>2, Counters, Zenon
  <2>4. \A k \in 0 .. P - ((i - i) % W) :
          (i + k) % W \in 0 .. W - 1 /\ (((i + k) % W) - i) % W = ((i - i) % W) + k
    BY <2>3, Zenon DEF CountersAgree
  <2>5. a - z \in 0 .. P /\ P - 0 = P /\ 0 + (a - z) = a - z
    BY <1>1, <1>2, <1>a
  <2>. QED BY <2>1, <2>4, <2>5, Zenon
<1>4. (j - z) % W = (i + (a - z)) % W
  <2>1. j - z = i + (a - z) \/ j - z = i + (a - z) - W
    BY <1>1, <1>2, <1>a, SMTT(40) DEF Wrapped
  <2>2. i + (a - z) \in -W .. 2 * W - 1 /\ j - z \in Int
    BY <1>1, <1>2, <1>a
  <2>3. PICK y \in -W .. 2 * W - 1 : y = i + (a - z)
    BY <2>2, Zenon
  <2>4. y % W = Wrapped(y, W) /\ Wrapped(y, W) \in 0 .. W - 1
    BY <1>1, ModWrapped, Zenon
  <2>5. PICK v \in Int : v = j - z
    BY <2>2, Zenon
  <2>6. v = y \/ v = y - W
    BY <1>1, <1>2, <1>a, <2>1, <2>3, <2>5, SMTT(40)
  <2>7. v >= -W /\ v < W
    BY <1>1, <1>2, <1>a, <2>5, SMTT(40)
  <2>8. v = Wrapped(y, W) \/ v = Wrapped(y, W) + W \/ v = Wrapped(y, W) - W
    BY <1>1, <2>6, <2>7 DEF Wrapped
  <2>9. v % W = Wrapped(y, W)
    BY <1>1, <2>4, <2>8, ModIs, Zenon
  <2>. QED BY <2>3, <2>4, <2>5, <2>9, Zenon
<1>. QED BY <1>3, <1>4, Zenon DEF a, Nearer
-----------------------------------------------------------------------------
(* The rings of the console.                                               *)

Thing == Stored \cup {"nul"}
NIn == INPUT_BUF_SIZE
NOut == UART_TX_BUF_SIZE

\* What the slots of uart_tx_buf hold: characters, and at first nul.
Letter == STRING \cup {"nul"}

\* A sequence of members of a set is one of members of a larger set.
LEMMA WiderSeq ==
  ASSUME NEW A, NEW B, A \subseteq B, NEW s \in Seq(A)
  PROVE  s \in Seq(B)
OBVIOUS

\* The processes and the handler are different.
LEMMA Ids ==
  /\ Reader \cap Writer = {} /\ "intr" \notin Reader /\ "intr" \notin Writer
  /\ "none" \notin Reader /\ "none" \notin Writer
BY ConsoleAssumption, Zenon

\* What the scenes are made of.
LEMMA Scenes ==
  ASSUME NEW s \in Scene
  PROVE  /\ s.wants \subseteq Nat \ {0} /\ s.messages \subseteq Seq(Letter) \ {<<>>}
         /\ s.keys \subseteq Key /\ s.messages \subseteq Message
<1>1. s.wants \subseteq Nat \ {0} /\ s.messages \subseteq Seq(Letter) \ {<<>>}
  <2>1. s.wants \subseteq Nat \ {0} /\ s.messages \subseteq Seq(STRING) \ {<<>>}
    BY ConsoleAssumption, Zenon
  <2>2. STRING \subseteq Letter
    BY Zenon DEF Letter
  <2>. QED BY <2>1, <2>2, WiderSeq, Zenon
<1>2. s.keys \subseteq Key /\ s.messages \subseteq Message
  BY Zenon DEF Key, Message
<1>. QED BY <1>1, <1>2, Zenon

\* The indices of both rings wrap at a multiple of their size.
LEMMA Sizes ==
  /\ RingSize(WRAP, NIn) /\ RingSize(TX_WRAP, NOut)
  /\ NIn \in Nat \ {0} /\ NOut \in Nat \ {0} /\ WRAP \in Nat \ {0} /\ TX_WRAP \in Nat \ {0}
  /\ NIn < WRAP /\ NOut < TX_WRAP /\ FIFO \in Nat /\ FIFO >= 2
BY ConsoleAssumption DEF RingSize, NIn, NOut

\* The characters from index i to index j of a ring, numbered as in the code.
LEMMA CellsOf ==
  ASSUME NEW W, NEW P, NEW ch, NEW i \in Int, NEW m
  PROVE  [k \in 1 .. m |-> ch[((i + k - 1) % W) % P]] = Cells(ch, W, P, i, m)
<1>1. \A k \in 1 .. m : i + k - 1 = i + (k - 1)
  BY Zenon
<1>2. \A k \in 1 .. m : ch[((i + k - 1) % W) % P] = ch[SlotIn(W, P, i + (k - 1))]
  BY <1>1, Zenon DEF SlotIn
<1>. QED BY <1>2, Zenon DEF Cells

\* cons.buf is the lines that have ended, from r to w, and then the one being
\* edited, from w to e.
InFacts ==
  /\ Diff(w, r) \in Nat /\ Diff(e, w) \in Nat /\ Diff(w, r) + Diff(e, w) <= NIn
  /\ Diff(e, r) = Diff(w, r) + Diff(e, w)
  /\ (r + Diff(w, r)) % WRAP = w /\ (w + Diff(e, w)) % WRAP = e
  /\ (r + (Diff(w, r) + Diff(e, w))) % WRAP = e
  /\ Ready = Cells(buf, WRAP, NIn, r, Diff(w, r)) /\ Between(w, e) = Cells(buf, WRAP, NIn, w, Diff(e, w))
  /\ Ready \in Seq(Thing) /\ Len(Ready) = Diff(w, r)
  /\ Between(w, e) \in Seq(Thing) /\ Len(Between(w, e)) = Diff(e, w)

\* An index moved by nothing, and by the way round.
LEMMA Still ==
  ASSUME NEW W \in Nat \ {0}, NEW i \in 0 .. W - 1
  PROVE  (i + 0) % W = i /\ (i - 0) % W = i /\ (i - i) % W = 0
<1>1. i + 0 = i /\ i - 0 = i /\ i - i = 0 /\ i \in Int /\ 0 \in Int /\ 0 \in 0 .. W - 1
  OBVIOUS
<1>2. i % W = i /\ 0 % W = 0
  BY <1>1, ModIs, Zenon
<1>. QED BY <1>1, <1>2, Zenon

\* An index counted on twice.
LEMMA TwoMoves ==
  ASSUME NEW W \in Nat \ {0}, NEW i \in 0 .. W - 1, NEW a \in 0 .. W - 1, NEW c \in 0 .. W - 1, a + c < W
  PROVE  (((i + a) % W) + c) % W = (i + (a + c)) % W
<1>1. PICK x \in -W .. 2 * W - 1 : x = i + a
  OBVIOUS
<1>2. PICK z \in -W .. 2 * W - 1 : z = i + (a + c)
  OBVIOUS
<1>3. /\ x % W = Wrapped(x, W) /\ Wrapped(x, W) \in 0 .. W - 1
      /\ z % W = Wrapped(z, W) /\ Wrapped(z, W) \in 0 .. W - 1
  BY ModWrapped, Zenon
<1>4. PICK v \in Int : v = Wrapped(x, W) + c
  BY <1>3, SMTT(40)
<1>5. v = Wrapped(z, W) \/ v = Wrapped(z, W) + W \/ v = Wrapped(z, W) - W
  BY <1>1, <1>2, <1>4, SMTT(40) DEF Wrapped
<1>6. v % W = Wrapped(z, W)
  BY <1>3, <1>5, ModIs, Zenon
<1>. QED BY <1>1, <1>2, <1>3, <1>4, <1>6, Zenon

\* They follow from the two lengths.
LEMMA InHold ==
  ASSUME r \in 0 .. WRAP - 1, w \in 0 .. WRAP - 1, e \in 0 .. WRAP - 1, buf \in [InSlot -> Thing],
         Diff(w, r) + Diff(e, w) <= NIn
  PROVE  InFacts
<1>1. RingSize(WRAP, NIn) /\ NIn \in Nat \ {0} /\ WRAP \in Nat \ {0} /\ NIn < WRAP
  BY Sizes, Zenon
<1> DEFINE a == Diff(w, r)  c == Diff(e, w)
<1>2. a \in 0 .. WRAP - 1 /\ c \in 0 .. WRAP - 1
  <2>1. w - r \in Int /\ e - w \in Int
    BY <1>1
  <2>. QED BY <1>1, <2>1, Division, Zenon DEF Diff
<1>3. a \in Nat /\ c \in Nat /\ a <= NIn /\ c <= NIn /\ a \in 0 .. NIn /\ c \in 0 .. NIn /\ c \in 0 .. NIn - a
  BY <1>1, <1>2, SMTT(40)
<1>4. CountersAgree(WRAP, NIn, r, w) /\ CountersAgree(WRAP, NIn, w, e)
  <2>1. (w - r) % WRAP <= NIn /\ (e - w) % WRAP <= NIn
    BY <1>3, Zenon DEF Diff
  <2>. QED BY <1>1, <2>1, Counters, Zenon
<1>5. /\ (r + a) % WRAP = w /\ (w + c) % WRAP = e
      /\ (((w + c) % WRAP) - r) % WRAP = a + c
  <2>1. \A k \in 0 .. NIn - a : (((w + k) % WRAP) - r) % WRAP = a + k
    BY <1>4, Zenon DEF CountersAgree, Diff
  <2>. QED BY <1>3, <1>4, <2>1, Zenon DEF CountersAgree, Diff
<1>6. Diff(e, r) = a + c
  BY <1>5, Zenon DEF Diff
<1>7. (r + (a + c)) % WRAP = e
  <2>1. a + c < WRAP
    BY <1>1, <1>2
  <2>2. (((r + a) % WRAP) + c) % WRAP = (r + (a + c)) % WRAP
    BY <1>1, <1>2, <2>1, TwoMoves, ZenonT(40)
  <2>. QED BY <1>5, <2>2, Zenon
<1>8. Ready = Cells(buf, WRAP, NIn, r, a) /\ Between(w, e) = Cells(buf, WRAP, NIn, w, c)
  <2>1. r \in Int /\ w \in Int
    BY <1>1
  <2>2. /\ [k \in 1 .. a |-> buf[((r + k - 1) % WRAP) % NIn]] = Cells(buf, WRAP, NIn, r, a)
        /\ [k \in 1 .. c |-> buf[((w + k - 1) % WRAP) % NIn]] = Cells(buf, WRAP, NIn, w, c)
    BY <2>1, CellsOf
  <2>3. /\ Ready = [k \in 1 .. a |-> buf[((r + k - 1) % WRAP) % NIn]]
        /\ Between(w, e) = [k \in 1 .. c |-> buf[((w + k - 1) % WRAP) % NIn]]
    BY Zenon DEF Ready, Between, NIn
  <2>. QED BY <2>2, <2>3, Zenon
<1>9. /\ CellsIn(Cells(buf, WRAP, NIn, r, a), buf, WRAP, NIn, Thing, r, a)
      /\ CellsIn(Cells(buf, WRAP, NIn, w, c), buf, WRAP, NIn, Thing, w, c)
  <2>1. buf \in [0 .. NIn - 1 -> Thing]
    BY Zenon DEF InSlot, NIn
  <2>. QED BY <1>1, <1>3, <2>1, CellsAre, Zenon
<1>10. /\ Ready \in Seq(Thing) /\ Len(Ready) = a
       /\ Between(w, e) \in Seq(Thing) /\ Len(Between(w, e)) = c
  BY <1>8, <1>9, Zenon DEF CellsIn
<1>. QED BY <1>3, <1>5, <1>6, <1>7, <1>8, <1>10, Zenon DEF InFacts

\* uart_tx_buf is what is written and not yet sent, from tx_r to tx_w.
OutFacts ==
  /\ TxLen \in Nat /\ TxLen <= NOut /\ (tx_r + TxLen) % TX_WRAP = tx_w
  /\ TxQueue = Cells(tx, TX_WRAP, NOut, tx_r, TxLen)
  /\ TxQueue \in Seq(Letter) /\ Len(TxQueue) = TxLen
  /\ TxLen = 0 <=> tx_w = tx_r

\* They follow from the length.
LEMMA OutHold ==
  ASSUME tx_r \in 0 .. TX_WRAP - 1, tx_w \in 0 .. TX_WRAP - 1, tx \in [OutSlot -> Letter], TxLen <= NOut
  PROVE  OutFacts
<1>1. RingSize(TX_WRAP, NOut) /\ NOut \in Nat \ {0} /\ TX_WRAP \in Nat \ {0} /\ NOut < TX_WRAP
  BY Sizes, Zenon
<1>2. TxLen \in 0 .. TX_WRAP - 1
  <2>1. tx_w - tx_r \in Int
    BY <1>1
  <2>. QED BY <1>1, <2>1, Division, Zenon DEF TxLen
<1>3. TxLen \in Nat /\ TxLen \in 0 .. NOut
  BY <1>1, <1>2
<1>4. CountersAgree(TX_WRAP, NOut, tx_r, tx_w)
  <2>1. (tx_w - tx_r) % TX_WRAP <= NOut
    BY Zenon DEF TxLen
  <2>. QED BY <1>1, <2>1, Counters, Zenon
<1>5. (tx_r + TxLen) % TX_WRAP = tx_w
  BY <1>4, Zenon DEF CountersAgree, TxLen
<1>6. TxQueue = Cells(tx, TX_WRAP, NOut, tx_r, TxLen)
  <2>1. tx_r \in Int
    BY <1>1, SMTT(40)
  <2>2. [k \in 1 .. TxLen |-> tx[((tx_r + k - 1) % TX_WRAP) % NOut]] = Cells(tx, TX_WRAP, NOut, tx_r, TxLen)
    BY <2>1, CellsOf, SMTT(40)
  <2>3. TxQueue = [k \in 1 .. TxLen |-> tx[((tx_r + k - 1) % TX_WRAP) % NOut]]
    BY Zenon DEF TxQueue, NOut
  <2>. QED BY <2>2, <2>3, Zenon
<1>7. CellsIn(Cells(tx, TX_WRAP, NOut, tx_r, TxLen), tx, TX_WRAP, NOut, Letter, tx_r, TxLen)
  <2>1. tx \in [0 .. NOut - 1 -> Letter]
    BY Zenon DEF OutSlot, NOut
  <2>. QED BY <1>1, <1>3, <2>1, CellsAre, Zenon
<1>8. TxLen = 0 <=> tx_w = tx_r
  <2>1. (tx_r + 0) % TX_WRAP = tx_r /\ (tx_r - tx_r) % TX_WRAP = 0
    BY <1>1, Still, Zenon
  <2>2. TxLen = 0 => tx_w = tx_r
    BY <1>5, <2>1, Zenon
  <2>3. tx_w = tx_r => TxLen = 0
    BY <2>1, Zenon DEF TxLen
  <2>. QED BY <2>2, <2>3, Zenon
<1>. QED BY <1>3, <1>5, <1>6, <1>7, <1>8, Zenon DEF OutFacts, CellsIn

-----------------------------------------------------------------------------
(* The invariant.                                                          *)

\* Where the readers, the writers and the handler can be.
ReaderAt == {"user", "read", "rsleep"}
WriterAt == {"user", "put", "wsleep", "start", "thr"}
HandlerAt == {"user", "get", "echo", "thr_sync", "start", "thr"}

TypeIn ==
  /\ scene \in Scene
  /\ buf \in [InSlot -> Thing]
  /\ r \in 0 .. WRAP - 1 /\ w \in 0 .. WRAP - 1 /\ e \in 0 .. WRAP - 1

TypeReads == n \in [Reader -> Nat] /\ target \in [Reader -> Nat]

TypeOut == tx \in [OutSlot -> Letter] /\ tx_r \in 0 .. TX_WRAP - 1 /\ tx_w \in 0 .. TX_WRAP - 1

TypeAt ==
  /\ at \in [Proc \cup {"intr"} -> ReaderAt \cup WriterAt \cup HandlerAt]
  /\ \A p \in Reader : at[p] \in ReaderAt
  /\ \A p \in Writer : at[p] \in WriterAt
  /\ at["intr"] \in HandlerAt

\* The character in the receive register and the one that consoleintr has are
\* typed ones.
TypeDev ==
  /\ rhr \in Key \cup {"none"} /\ fifo \in Nat /\ echo \in Nat
  /\ ConsLocked => key \in Key
  /\ at["intr"] = "thr_sync" => echo > 0

TypeOK == TypeIn /\ TypeReads /\ TypeOut /\ TypeAt /\ TypeDev

\* cons.buf holds the lines that are ended and then the one being edited.  When
\* it is full all of it has been handed to the readers.
InRing ==
  /\ Diff(w, r) + Diff(e, w) <= NIn
  /\ Diff(e, r) = NIn => w = e

OutRing == TxLen <= NOut

\* A read has not been given more than it asked for.
ReadsLeft == \A p \in Reader : n[p] <= target[p]

\* A write has characters left until it is done.
WritesLeft ==
  /\ todo \in [Writer -> Seq(Letter)]
  /\ \A p \in Writer : /\ at[p] = "user" => todo[p] = <<>>
                       /\ at[p] \in {"put", "wsleep"} => todo[p] # <<>>

\* Sleepers have something to wait for.
ReadersWait == \A p \in Reader : at[p] = "rsleep" => r = w
WritersWait == \A p \in Writer : at[p] = "wsleep" => TxLen = NOut

\* uart_tx_lock is held from the first look at the ring to the last, and the ring
\* has a character for whoever found one.
Sending ==
  /\ \A t \in Thread : at[t] \in {"start", "thr"} <=> txlock = t
  /\ \A t \in Thread : at[t] = "thr" => tx_w # tx_r

\* How many are about to write a character to the device.
Writes == IF \E t \in Thread : at[t] = "thr" THEN 1 ELSE 0
Echoes == IF at["intr"] = "thr_sync" THEN 1 ELSE 0

\* Two characters at most are at the device or about to be written to it.
DeviceRoom == fifo + Writes + Echoes <= 2 /\ overrun = FALSE

IInv ==
  /\ TypeOK /\ InRing /\ OutRing /\ ReadsLeft /\ WritesLeft /\ ReadersWait /\ WritersWait
  /\ Sending /\ DeviceRoom

\* The parts of the invariant.
LEMMA Parts ==
  ASSUME IInv
  PROVE  /\ TypeIn /\ TypeReads /\ TypeOut /\ TypeAt /\ TypeDev /\ InRing /\ OutRing
         /\ ReadsLeft /\ WritesLeft /\ ReadersWait /\ WritersWait /\ Sending /\ DeviceRoom
BY Zenon DEF IInv, TypeOK

\* It gives what the runs check.
LEMMA Enough ==
  ASSUME IInv
  PROVE  NoLostWakeup /\ NoOverrun
<1>1. ReadersWait /\ WritersWait /\ InRing /\ DeviceRoom
  BY Parts, Zenon
<1>. QED BY <1>1, Zenon
     DEF ReadersWait, WritersWait, InRing, DeviceRoom, NoLostWakeup, NoOverrun, TxFull, NIn, NOut

-----------------------------------------------------------------------------
(* Steps of the rings.                                                     *)

\* The lines after a step.
LEMMA NewLines ==
  ASSUME r' \in Int, w' \in Int
  PROVE  /\ Ready' = Cells(buf', WRAP, NIn, r', Diff(w', r'))
         /\ Between(w, e)' = Cells(buf', WRAP, NIn, w', Diff(e', w'))
<1> DEFINE a == Diff(w', r')  c == Diff(e', w')
<1>1. /\ [k \in 1 .. a |-> buf'[((r' + k - 1) % WRAP) % NIn]] = Cells(buf', WRAP, NIn, r', a)
      /\ [k \in 1 .. c |-> buf'[((w' + k - 1) % WRAP) % NIn]] = Cells(buf', WRAP, NIn, w', c)
  BY CellsOf, SMTT(40)
<1>2. /\ Ready' = [k \in 1 .. a |-> buf'[((r' + k - 1) % WRAP) % NIn]]
      /\ Between(w, e)' = [k \in 1 .. c |-> buf'[((w' + k - 1) % WRAP) % NIn]]
  BY Zenon DEF Ready, Between, NIn, Diff
<1>. QED BY <1>1, <1>2, Zenon

\* A reader takes k characters of the lines that have ended.
LEMMA Taken ==
  ASSUME TypeIn, InRing, NEW k \in 0 .. Diff(w, r), r' = (r + k) % WRAP, UNCHANGED <<buf, w, e>>
  PROVE  /\ r' \in 0 .. WRAP - 1 /\ Diff(w, r') = Diff(w, r) - k /\ Diff(e, r') = Diff(e, r) - k
         /\ Ready' = SubSeq(Ready, k + 1, Len(Ready)) /\ Between(w, e)' = Between(w, e)
<1> DEFINE a == Diff(w, r)  c == Diff(e, w)
<1>1. InFacts
  BY InHold, Zenon DEF TypeIn, InRing
<1>2. RingSize(WRAP, NIn) /\ NIn \in Nat \ {0} /\ WRAP \in Nat \ {0} /\ NIn < WRAP
  BY Sizes, Zenon
<1>3. a \in Nat /\ c \in Nat /\ a + c <= NIn /\ Diff(e, r) = a + c /\ Len(Ready) = a
  BY <1>1, Zenon DEF InFacts
<1>4. r \in 0 .. WRAP - 1 /\ w \in 0 .. WRAP - 1 /\ e \in 0 .. WRAP - 1 /\ buf \in [0 .. NIn - 1 -> Thing]
  BY Zenon DEF TypeIn, InSlot, NIn
<1>5. r' \in 0 .. WRAP - 1 /\ Diff(w, r') = a - k /\ Diff(e, r') = (a + c) - k
  <2>1. (w - r) % WRAP <= NIn /\ (e - r) % WRAP <= NIn
    BY <1>2, <1>3 DEF Diff
  <2>2. CountersAgree(WRAP, NIn, r, w) /\ CountersAgree(WRAP, NIn, r, e)
    BY <1>2, <1>4, <2>1, Counters, Zenon
  <2>3. k \in 0 .. (w - r) % WRAP /\ k \in 0 .. (e - r) % WRAP
    BY <1>3 DEF Diff
  <2>. QED BY <1>3, <2>2, <2>3, Zenon DEF CountersAgree, Diff
<1>6. Between(w, e)' = Between(w, e)
  BY Zenon DEF Between, Diff
<1>7. Ready' = Cells(buf, WRAP, NIn, (r + k) % WRAP, a - k)
  <2>1. r' \in Int /\ w' \in Int
    BY <1>2, <1>4, <1>5, SMTT(40)
  <2>2. Ready' = Cells(buf', WRAP, NIn, r', Diff(w', r'))
    BY <2>1, NewLines, Zenon
  <2>. QED BY <1>5, <2>2, Zenon
<1>8. Cells(buf, WRAP, NIn, (r + k) % WRAP, a - k) = SubSeq(Cells(buf, WRAP, NIn, r, a), k + 1, a)
  <2>1. a \in 0 .. NIn /\ k \in 0 .. a
    BY <1>2, <1>3
  <2>2. Parted(buf, WRAP, NIn, r, a, k)
    BY <1>2, <1>4, <2>1, CellsSplit, Zenon
  <2>. QED BY <2>2, Zenon DEF Parted
<1>9. Ready = Cells(buf, WRAP, NIn, r, a)
  BY <1>1, Zenon DEF InFacts
<1>. QED BY <1>3, <1>5, <1>6, <1>7, <1>8, <1>9, Zenon

\* z characters are taken off the line that is being edited.
LEMMA Shortened ==
  ASSUME TypeIn, InRing, NEW z \in 0 .. Diff(e, w), e' = (e - z) % WRAP, UNCHANGED <<buf, r, w>>
  PROVE  /\ e' \in 0 .. WRAP - 1 /\ Diff(e', w) = Diff(e, w) - z /\ Diff(e', r) = Diff(e, r) - z
         /\ Ready' = Ready /\ Between(w, e)' = SubSeq(Between(w, e), 1, Len(Between(w, e)) - z)
<1> DEFINE a == Diff(w, r)  c == Diff(e, w)
<1>1. InFacts
  BY InHold, Zenon DEF TypeIn, InRing
<1>2. RingSize(WRAP, NIn) /\ NIn \in Nat \ {0} /\ WRAP \in Nat \ {0} /\ NIn < WRAP
  BY Sizes, Zenon
<1>3. a \in Nat /\ c \in Nat /\ a + c <= NIn /\ Diff(e, r) = a + c /\ Len(Between(w, e)) = c
  BY <1>1, Zenon DEF InFacts
<1>4. r \in 0 .. WRAP - 1 /\ w \in 0 .. WRAP - 1 /\ e \in 0 .. WRAP - 1 /\ buf \in [0 .. NIn - 1 -> Thing]
  BY Zenon DEF TypeIn, InSlot, NIn
<1>5. e' \in 0 .. WRAP - 1 /\ Diff(e', w) = c - z /\ Diff(e', r) = (a + c) - z
  <2>1. (e - w) % WRAP <= NIn /\ (e - r) % WRAP <= NIn
    BY <1>2, <1>3, SMTT(40) DEF Diff
  <2>2. z \in 0 .. (e - w) % WRAP /\ z \in 0 .. (e - r) % WRAP
    BY <1>3, SMTT(40) DEF Diff
  <2>3. Nearer(WRAP, w, e, z) /\ Nearer(WRAP, r, e, z)
    BY <1>2, <1>4, <2>1, <2>2, MovedBack, Zenon
  <2>. QED BY <1>3, <2>3, Zenon DEF Diff, Nearer
<1>6. Ready' = Ready
  BY Zenon DEF Ready, Between, Diff
<1>7. Between(w, e)' = Cells(buf, WRAP, NIn, w, c - z)
  <2>1. r' \in Int /\ w' \in Int
    BY <1>2, <1>4, SMTT(40)
  <2>2. Between(w, e)' = Cells(buf', WRAP, NIn, w', Diff(e', w'))
    BY <2>1, NewLines, Zenon
  <2>. QED BY <1>5, <2>2, Zenon
<1>8. Cells(buf, WRAP, NIn, w, c - z) = SubSeq(Cells(buf, WRAP, NIn, w, c), 1, c - z)
  <2>1. c \in 0 .. NIn /\ c - z \in 0 .. c
    BY <1>2, <1>3, SMTT(40)
  <2>2. Parted(buf, WRAP, NIn, w, c, c - z)
    BY <1>2, <1>4, <2>1, CellsSplit, Zenon
  <2>. QED BY <2>2, Zenon DEF Parted
<1>9. Between(w, e) = Cells(buf, WRAP, NIn, w, c)
  BY <1>1, Zenon DEF InFacts
<1>. QED BY <1>3, <1>5, <1>6, <1>7, <1>8, <1>9, Zenon

\* A character is stored behind the line that is being edited, which goes on or
\* is handed to the readers.
LEMMA Lengthened ==
  ASSUME TypeIn, InRing, Diff(e, r) < NIn, NEW x \in Thing,
         buf' = [buf EXCEPT ![e % NIn] = x], e' = (e + 1) % WRAP, r' = r, w' \in {w, e'}
  PROVE  /\ buf' \in [InSlot -> Thing] /\ e' \in 0 .. WRAP - 1
         /\ Diff(e', r) = Diff(e, r) + 1 /\ Diff(e', w) = Diff(e, w) + 1 /\ Diff(e', e') = 0
         /\ w' = w => Ready' = Ready /\ Between(w, e)' = Append(Between(w, e), x)
         /\ w' = e' => Ready' = Append(Ready \o Between(w, e), x) /\ Between(w, e)' = <<>>
<1> DEFINE a == Diff(w, r)  c == Diff(e, w)
<1>1. InFacts
  BY InHold, Zenon DEF TypeIn, InRing
<1>2. RingSize(WRAP, NIn) /\ NIn \in Nat \ {0} /\ WRAP \in Nat \ {0} /\ NIn < WRAP
  BY Sizes, Zenon
<1>3. /\ a \in Nat /\ c \in Nat /\ a + c <= NIn /\ Diff(e, r) = a + c
      /\ Ready = Cells(buf, WRAP, NIn, r, a) /\ Between(w, e) = Cells(buf, WRAP, NIn, w, c)
      /\ (r + a) % WRAP = w /\ (w + c) % WRAP = e /\ (r + (a + c)) % WRAP = e
  BY <1>1, Zenon DEF InFacts
<1>4. r \in 0 .. WRAP - 1 /\ w \in 0 .. WRAP - 1 /\ e \in 0 .. WRAP - 1 /\ buf \in [0 .. NIn - 1 -> Thing]
  BY Zenon DEF TypeIn, InSlot, NIn
<1>5. e' \in 0 .. WRAP - 1 /\ Diff(e', w) = c + 1 /\ Diff(e', r) = (a + c) + 1 /\ Diff(e', e') = 0
  <2>1. (e - w) % WRAP <= NIn /\ (e - r) % WRAP <= NIn
    BY <1>2, <1>3, SMTT(40) DEF Diff
  <2>2. CountersAgree(WRAP, NIn, w, e) /\ CountersAgree(WRAP, NIn, r, e)
    BY <1>2, <1>4, <2>1, Counters, Zenon
  <2>3. 1 \in 0 .. NIn - ((e - w) % WRAP) /\ 1 \in 0 .. NIn - ((e - r) % WRAP)
    BY <1>2, <1>3, SMTT(40) DEF Diff
  <2>4. e' \in 0 .. WRAP - 1 /\ Diff(e', w) = c + 1 /\ Diff(e', r) = (a + c) + 1
    BY <1>3, <2>2, <2>3, Zenon DEF CountersAgree, Diff
  <2>. QED BY <1>2, <2>4, Still, Zenon DEF Diff
<1>6. /\ buf' = [buf EXCEPT ![SlotIn(WRAP, NIn, r + (a + c))] = x]
      /\ buf' = [buf EXCEPT ![SlotIn(WRAP, NIn, w + c)] = x]
  BY <1>3, Zenon DEF SlotIn
<1>7. a + c \in 0 .. NIn - 1 /\ c \in 0 .. NIn - 1 /\ a \in 0 .. a + c /\ a \in 0 .. NIn /\ a + c \in 0 .. NIn
  BY <1>2, <1>3, SMTT(40)
<1>8. /\ buf' \in [0 .. NIn - 1 -> Thing]
      /\ Cells(buf', WRAP, NIn, r, (a + c) + 1) = Append(Cells(buf, WRAP, NIn, r, a + c), x)
      /\ Cells(buf', WRAP, NIn, r, a) = Cells(buf, WRAP, NIn, r, a)
  <2>1. Pushed(buf, buf', WRAP, NIn, Thing, r, a + c, x)
    BY <1>2, <1>4, <1>6, <1>7, CellsPush, Zenon
  <2>. QED BY <1>7, <2>1, Zenon DEF Pushed
<1>9. Cells(buf', WRAP, NIn, w, c + 1) = Append(Cells(buf, WRAP, NIn, w, c), x)
  <2>1. Pushed(buf, buf', WRAP, NIn, Thing, w, c, x)
    BY <1>2, <1>4, <1>6, <1>7, CellsPush, Zenon
  <2>. QED BY <2>1, Zenon DEF Pushed
<1>10. Cells(buf, WRAP, NIn, r, a + c) = Ready \o Between(w, e)
  <2>1. (a + c) - a = c
    BY <1>3
  <2>2. Parted(buf, WRAP, NIn, r, a + c, a)
    BY <1>2, <1>4, <1>7, CellsSplit, Zenon
  <2>. QED BY <1>3, <2>1, <2>2, Zenon DEF Parted
<1>11. /\ Ready' = Cells(buf', WRAP, NIn, r', Diff(w', r'))
       /\ Between(w, e)' = Cells(buf', WRAP, NIn, w', Diff(e', w'))
  <2>1. r' \in Int /\ w' \in Int
    BY <1>2, <1>4, <1>5, SMTT(40)
  <2>. QED BY <2>1, NewLines, Zenon
<1>12. w' = w => Ready' = Ready /\ Between(w, e)' = Append(Between(w, e), x)
  BY <1>3, <1>5, <1>8, <1>9, <1>11, Zenon
<1>13. w' = e' => Ready' = Append(Ready \o Between(w, e), x) /\ Between(w, e)' = <<>>
  <2>. SUFFICES ASSUME w' = e' PROVE Ready' = Append(Ready \o Between(w, e), x) /\ Between(w, e)' = <<>>
    BY Zenon
  <2>1. Ready' = Append(Ready \o Between(w, e), x)
    BY <1>5, <1>8, <1>10, <1>11, Zenon
  <2>2. Between(w, e)' = Cells(buf', WRAP, NIn, e', 0)
    BY <1>5, <1>11, Zenon
  <2>3. Cells(buf', WRAP, NIn, e', 0) = <<>>
    BY SMTT(40) DEF Cells
  <2>. QED BY <2>1, <2>2, <2>3, Zenon
<1>14. buf' \in [InSlot -> Thing]
  BY <1>8, Zenon DEF InSlot, NIn
<1>. QED BY <1>3, <1>5, <1>12, <1>13, <1>14, Zenon

\* The queue after a step.
LEMMA NewQueue ==
  ASSUME tx_r' \in Int
  PROVE  TxQueue' = Cells(tx', TX_WRAP, NOut, tx_r', TxLen')
<1>1. PICK m : m = TxLen'
  BY Zenon
<1>2. [k \in 1 .. m |-> tx'[((tx_r' + k - 1) % TX_WRAP) % NOut]] = Cells(tx', TX_WRAP, NOut, tx_r', m)
  BY CellsOf, SMTT(40)
<1>3. TxQueue' = [k \in 1 .. m |-> tx'[((tx_r' + k - 1) % TX_WRAP) % NOut]]
  BY <1>1, Zenon DEF TxQueue, NOut
<1>. QED BY <1>1, <1>2, <1>3, Zenon

\* A character is put into uart_tx_buf.
LEMMA PutIn ==
  ASSUME TypeOut, OutRing, TxLen # NOut, NEW x \in Letter,
         tx' = [tx EXCEPT ![tx_w % NOut] = x], tx_w' = (tx_w + 1) % TX_WRAP, tx_r' = tx_r
  PROVE  /\ TypeOut' /\ TxLen < NOut /\ TxLen' = TxLen + 1 /\ TxLen' <= NOut
         /\ TxQueue' = Append(TxQueue, x)
<1>1. OutFacts
  BY OutHold, Zenon DEF TypeOut, OutRing
<1>2. RingSize(TX_WRAP, NOut) /\ NOut \in Nat \ {0} /\ TX_WRAP \in Nat \ {0} /\ NOut < TX_WRAP
  BY Sizes, Zenon
<1>3. /\ TxLen \in Nat /\ TxLen <= NOut /\ (tx_r + TxLen) % TX_WRAP = tx_w
      /\ TxQueue = Cells(tx, TX_WRAP, NOut, tx_r, TxLen)
  BY <1>1, Zenon DEF OutFacts
<1>4. tx_r \in 0 .. TX_WRAP - 1 /\ tx_w \in 0 .. TX_WRAP - 1 /\ tx \in [0 .. NOut - 1 -> Letter]
  BY Zenon DEF TypeOut, OutSlot, NOut
<1>5. tx_w' \in 0 .. TX_WRAP - 1 /\ TxLen' = TxLen + 1
  <2>1. (tx_w - tx_r) % TX_WRAP <= NOut
    BY <1>3, Zenon DEF TxLen
  <2>2. CountersAgree(TX_WRAP, NOut, tx_r, tx_w)
    BY <1>2, <1>4, <2>1, Counters, Zenon
  <2>3. 1 \in 0 .. NOut - ((tx_w - tx_r) % TX_WRAP)
    BY <1>2, <1>3, SMTT(40) DEF TxLen
  <2>. QED BY <2>2, <2>3, Zenon DEF CountersAgree, TxLen
<1>6. tx' = [tx EXCEPT ![SlotIn(TX_WRAP, NOut, tx_r + TxLen)] = x]
  BY <1>3, Zenon DEF SlotIn
<1>7. TxLen \in 0 .. NOut - 1 /\ TxLen < NOut
  BY <1>2, <1>3, SMTT(40)
<1>8. Pushed(tx, tx', TX_WRAP, NOut, Letter, tx_r, TxLen, x)
  BY <1>2, <1>4, <1>6, <1>7, CellsPush, Zenon
<1>9. TxQueue' = Cells(tx', TX_WRAP, NOut, tx_r', TxLen')
  <2>1. tx_r' \in Int
    BY <1>2, <1>4, SMTT(40)
  <2>. QED BY <2>1, NewQueue, Zenon
<1>10. TxQueue' = Append(TxQueue, x) /\ tx' \in [0 .. NOut - 1 -> Letter]
  BY <1>3, <1>5, <1>8, <1>9, Zenon DEF Pushed
<1>11. TypeOut'
  <2>1. tx' \in [OutSlot -> Letter]
    BY <1>10, Zenon DEF OutSlot, NOut
  <2>. QED BY <1>4, <1>5, <2>1, Zenon DEF TypeOut, OutSlot
<1>12. TxLen + 1 <= NOut
  BY <1>2, <1>3, <1>7
<1>. QED BY <1>5, <1>7, <1>10, <1>11, <1>12, Zenon

\* The first element of a sequence.
LEMMA OneOf ==
  ASSUME NEW T, NEW s \in Seq(T), Len(s) # 0
  PROVE  SubSeq(s, 1, 1) = <<s[1]>> /\ Head(s) = s[1] /\ Tail(s) = SubSeq(s, 2, Len(s))
<1>1. Len(s) \in Nat /\ Len(s) >= 1 /\ s[1] \in T
  OBVIOUS
<1>2. Head(s) = s[1]
  OBVIOUS
<1>3. SubSeq(s, 1, 1) = <<s[1]>>
  <2>1. SubSeq(s, 1, 1) \in Seq(T) /\ Len(SubSeq(s, 1, 1)) = 1 /\ SubSeq(s, 1, 1)[1] = s[1]
    BY <1>1
  <2>2. <<s[1]>> \in Seq(T) /\ Len(<<s[1]>>) = 1 /\ <<s[1]>>[1] = s[1]
    BY <1>1
  <2>3. \A i \in 1 .. 1 : i = 1
    OBVIOUS
  <2>4. \A i \in 1 .. Len(SubSeq(s, 1, 1)) : SubSeq(s, 1, 1)[i] = <<s[1]>>[i]
    BY <2>1, <2>2, <2>3, Zenon
  <2>. QED BY <2>1, <2>2, <2>4, SameElements, Zenon
<1>4. Tail(s) = SubSeq(s, 2, Len(s))
  BY <1>1
<1>. QED BY <1>2, <1>3, <1>4, Zenon

\* What is left of a sequence.
LEMMA FrontOf ==
  ASSUME NEW T, NEW s \in Seq(T), s # <<>>
  PROVE  Head(s) \in T /\ Tail(s) \in Seq(T) /\ Len(s) # 0
OBVIOUS

\* There is room for two in the device.
LEMMA RoomForTwo ==
  /\ \A x, y \in {0, 1} : 0 + x + y <= 2
  /\ \A f, g \in Nat : \A x, y \in {0, 1} : g <= f /\ f + x + y <= 2 => g + x + y <= 2
BY SMT

\* A character is taken out of uart_tx_buf.
LEMMA TakenOut ==
  ASSUME TypeOut, OutRing, tx_w # tx_r, tx_r' = (tx_r + 1) % TX_WRAP, UNCHANGED <<tx, tx_w>>
  PROVE  /\ TypeOut' /\ TxLen' = TxLen - 1 /\ TxLen' <= NOut /\ 1 \in 0 .. Len(TxQueue)
         /\ TxQueue' = SubSeq(TxQueue, 2, Len(TxQueue))
         /\ <<tx[tx_r % NOut]>> = SubSeq(TxQueue, 1, 1)
<1>1. OutFacts
  BY OutHold, Zenon DEF TypeOut, OutRing
<1>2. RingSize(TX_WRAP, NOut) /\ NOut \in Nat \ {0} /\ TX_WRAP \in Nat \ {0} /\ NOut < TX_WRAP
  BY Sizes, Zenon
<1>3. /\ TxLen \in Nat /\ TxLen <= NOut /\ TxLen # 0 /\ Len(TxQueue) = TxLen
      /\ TxQueue = Cells(tx, TX_WRAP, NOut, tx_r, TxLen) /\ TxQueue \in Seq(Letter)
  BY <1>1, Zenon DEF OutFacts
<1>4. tx_r \in 0 .. TX_WRAP - 1 /\ tx_w \in 0 .. TX_WRAP - 1 /\ tx \in [0 .. NOut - 1 -> Letter]
  BY Zenon DEF TypeOut, OutSlot, NOut
<1>5. tx_r' \in 0 .. TX_WRAP - 1 /\ TxLen' = TxLen - 1
  <2>1. (tx_w - tx_r) % TX_WRAP <= NOut
    BY <1>3, Zenon DEF TxLen
  <2>2. CountersAgree(TX_WRAP, NOut, tx_r, tx_w)
    BY <1>2, <1>4, <2>1, Counters, Zenon
  <2>3. 1 \in 0 .. (tx_w - tx_r) % TX_WRAP
    BY <1>2, <1>3, SMTT(40) DEF TxLen
  <2>. QED BY <2>2, <2>3, Zenon DEF CountersAgree, TxLen
<1>6. TxLen \in 0 .. NOut /\ 1 \in 0 .. TxLen /\ 1 + 1 = 2 /\ 1 - 1 = 0 /\ tx_r + 0 = tx_r /\ 1 \in 1 .. TxLen
  BY <1>2, <1>3, <1>4, SMTT(40)
<1>7. Parted(tx, TX_WRAP, NOut, tx_r, TxLen, 1)
  BY <1>2, <1>4, <1>6, CellsSplit, Zenon
<1>8. TxQueue' = Cells(tx', TX_WRAP, NOut, tx_r', TxLen')
  <2>1. tx_r' \in Int
    BY <1>2, <1>5, SMTT(40)
  <2>. QED BY <2>1, NewQueue, Zenon
<1>9. TxQueue' = SubSeq(TxQueue, 1 + 1, TxLen)
  BY <1>3, <1>5, <1>7, <1>8, Zenon DEF Parted
<1>10. SubSeq(TxQueue, 1, 1) = <<tx[tx_r % NOut]>>
  <2>1. TxQueue[1] = tx[SlotIn(TX_WRAP, NOut, tx_r + (1 - 1))]
    <3>1. CellsIn(Cells(tx, TX_WRAP, NOut, tx_r, TxLen), tx, TX_WRAP, NOut, Letter, tx_r, TxLen)
      BY <1>2, <1>4, <1>6, CellsAre, Zenon
    <3>. QED BY <1>3, <1>6, <3>1, Zenon DEF CellsIn
  <2>2. SlotIn(TX_WRAP, NOut, tx_r + (1 - 1)) = tx_r % NOut
    <3>1. (tx_r + 0) % TX_WRAP = tx_r
      BY <1>2, <1>4, Still, Zenon
    <3>. QED BY <1>6, <3>1, Zenon DEF SlotIn
  <2>3. SubSeq(TxQueue, 1, 1) = <<TxQueue[1]>>
    BY <1>3, OneOf, Zenon
  <2>. QED BY <2>1, <2>2, <2>3, Zenon
<1>11. TypeOut' /\ TxLen - 1 <= NOut
  BY <1>2, <1>3, <1>4, <1>5, SMTT(40) DEF TypeOut, OutSlot
<1>. QED BY <1>3, <1>5, <1>6, <1>9, <1>10, <1>11, Zenon

-----------------------------------------------------------------------------
(* What a step leaves alone.                                               *)

\* Nothing happens to cons, and no reader moves.
LEMMA ReadersStay ==
  ASSUME IInv, \A p \in Reader : at'[p] = at[p], UNCHANGED <<scene, cons, reads>>
  PROVE  TypeIn' /\ TypeReads' /\ InRing' /\ ReadsLeft' /\ ReadersWait'
<1>1. TypeIn /\ TypeReads /\ InRing /\ ReadsLeft /\ ReadersWait
  BY Parts, Zenon
<1>2. scene' = scene /\ buf' = buf /\ r' = r /\ w' = w /\ e' = e /\ n' = n /\ target' = target
  BY Zenon DEF cons, reads
<1>3. TypeIn' /\ TypeReads'
  BY <1>1, <1>2, Zenon DEF TypeIn, TypeReads, InSlot, Thing
<1>4. InRing' /\ ReadsLeft' /\ ReadersWait'
  BY <1>1, <1>2, Zenon DEF InRing, ReadsLeft, ReadersWait, Diff
<1>. QED BY <1>3, <1>4, Zenon

\* Nothing happens to uart_tx_buf.
LEMMA SameOut ==
  ASSUME IInv, UNCHANGED ring
  PROVE  TypeOut' /\ OutRing' /\ TxLen' = TxLen /\ TxQueue' = TxQueue
<1>1. TypeOut /\ OutRing
  BY Parts, Zenon
<1>2. tx' = tx /\ tx_r' = tx_r /\ tx_w' = tx_w
  BY Zenon DEF ring
<1>3. TxLen' = TxLen
  BY <1>2, Zenon DEF TxLen
<1>. QED BY <1>1, <1>2, <1>3, Zenon DEF TypeOut, OutRing, TxQueue

\* As many are about to write to the device as before.
LEMMA SameWrites ==
  ASSUME \A t \in Thread : at'[t] = "thr" <=> at[t] = "thr"
  PROVE  Writes' = Writes
BY Zenon DEF Writes, Thread

\* Nothing happens to the output, and neither a writer nor the handler moves.
LEMMA ThreadsStay ==
  ASSUME IInv, \A t \in Thread : at'[t] = at[t], UNCHANGED <<ring, txlock, todo, intr, device>>
  PROVE  TypeOut' /\ TypeDev' /\ OutRing' /\ WritesLeft' /\ WritersWait' /\ Sending' /\ DeviceRoom'
<1>1. TypeDev /\ WritesLeft /\ WritersWait /\ Sending /\ DeviceRoom
  BY Parts, Zenon
<1>2. /\ txlock' = txlock /\ todo' = todo /\ key' = key /\ echo' = echo /\ rhr' = rhr /\ fifo' = fifo
      /\ overrun' = overrun /\ tx_w' = tx_w /\ tx_r' = tx_r
  BY Zenon DEF intr, device, ring
<1>3. TypeOut' /\ OutRing' /\ TxLen' = TxLen
  BY SameOut, Zenon
<1>4. at'["intr"] = at["intr"] /\ \A p \in Writer : at'[p] = at[p]
  BY Zenon DEF Thread
<1>5. TypeDev'
  BY <1>1, <1>2, <1>4, Zenon DEF TypeDev, ConsLocked
<1>6. WritesLeft' /\ WritersWait'
  <2>1. WritesLeft'
    BY <1>1, <1>2, <1>4, SMTT(40) DEF WritesLeft
  <2>2. WritersWait'
    BY <1>1, <1>3, <1>4, Zenon DEF WritersWait, NOut
  <2>. QED BY <2>1, <2>2, Zenon
<1>7. Sending'
  BY <1>1, <1>2, Zenon DEF Sending, Thread
<1>8. DeviceRoom'
  <2>1. Writes' = Writes
    BY SameWrites, Zenon
  <2>2. Echoes' = Echoes
    BY <1>4, Zenon DEF Echoes
  <2>. QED BY <1>1, <1>2, <2>1, <2>2, Zenon DEF DeviceRoom
<1>. QED BY <1>3, <1>5, <1>6, <1>7, <1>8, Zenon

\* One process, or the handler, moves to l.
LEMMA OneMoves ==
  ASSUME TypeAt, NEW t \in Proc \cup {"intr"}, NEW l, Goto(t, l),
         t \in Reader => l \in ReaderAt, t \in Writer => l \in WriterAt, t = "intr" => l \in HandlerAt
  PROVE  /\ TypeAt' /\ at'[t] = l
         /\ \A q \in Proc \cup {"intr"} : q # t => at'[q] = at[q]
<1>1. at \in [Proc \cup {"intr"} -> ReaderAt \cup WriterAt \cup HandlerAt]
  BY Zenon DEF TypeAt
<1>2. at'[t] = l /\ \A q \in Proc \cup {"intr"} : q # t => at'[q] = at[q]
  BY <1>1, Zenon DEF Goto
<1>3. l \in ReaderAt \cup WriterAt \cup HandlerAt
  BY Zenon DEF Proc
<1>4. at' \in [Proc \cup {"intr"} -> ReaderAt \cup WriterAt \cup HandlerAt]
  BY <1>1, <1>3, Zenon DEF Goto
<1>5. TypeAt'
  BY <1>2, <1>4, Zenon DEF TypeAt, Proc
<1>. QED BY <1>2, <1>5, Zenon

\* A reader moves: the output is left alone.
LEMMA ReaderMoves ==
  ASSUME IInv, NEW p \in Reader, NEW l \in ReaderAt, Goto(p, l),
         UNCHANGED <<ring, txlock, todo, intr, device>>
  PROVE  /\ TypeOut' /\ TypeDev' /\ OutRing' /\ WritesLeft' /\ WritersWait' /\ Sending' /\ DeviceRoom'
         /\ TypeAt' /\ at'[p] = l /\ \A q \in Reader : q # p => at'[q] = at[q]
<1>1. TypeAt /\ p \in Proc \cup {"intr"} /\ p \notin Writer /\ p # "intr"
  BY Parts, Ids, Zenon DEF Proc
<1>2. /\ TypeAt' /\ at'[p] = l
      /\ \A q \in Proc \cup {"intr"} : q # p => at'[q] = at[q]
  BY <1>1, OneMoves, Zenon
<1>3. \A t \in Thread : at'[t] = at[t]
  BY <1>1, <1>2, Zenon DEF Thread, Proc
<1>4. TypeOut' /\ TypeDev' /\ OutRing' /\ WritesLeft' /\ WritersWait' /\ Sending' /\ DeviceRoom'
  BY <1>3, ThreadsStay, Zenon
<1>. QED BY <1>2, <1>4, Zenon DEF Proc

\* A writer or the handler moves: the input is left alone.
LEMMA ThreadMoves ==
  ASSUME IInv, NEW t \in Thread, NEW l, t \in Writer => l \in WriterAt, t = "intr" => l \in HandlerAt,
         Goto(t, l), UNCHANGED <<scene, cons, reads>>
  PROVE  /\ TypeIn' /\ TypeReads' /\ InRing' /\ ReadsLeft' /\ ReadersWait'
         /\ TypeAt' /\ at'[t] = l /\ \A q \in Thread : q # t => at'[q] = at[q]
<1>1. TypeAt /\ t \in Proc \cup {"intr"} /\ t \notin Reader
  BY Parts, Ids, Zenon DEF Proc, Thread
<1>2. /\ TypeAt' /\ at'[t] = l
      /\ \A q \in Proc \cup {"intr"} : q # t => at'[q] = at[q]
  BY <1>1, OneMoves, Zenon
<1>3. \A q \in Reader : at'[q] = at[q]
  BY <1>1, <1>2, Zenon DEF Proc
<1>4. TypeIn' /\ TypeReads' /\ InRing' /\ ReadsLeft' /\ ReadersWait'
  BY <1>3, ReadersStay, Zenon
<1>. QED BY <1>2, <1>4, Zenon DEF Proc, Thread

\* The parts make up the invariant.
LEMMA Whole ==
  ASSUME TypeIn', TypeReads', TypeOut', TypeAt', TypeDev', InRing', OutRing',
         ReadsLeft', WritesLeft', ReadersWait', WritersWait', Sending', DeviceRoom'
  PROVE  IInv'
BY Zenon DEF IInv, TypeOK

-----------------------------------------------------------------------------
(* consoleread.                                                            *)

\* A read begins.
LEMMA sys_read_IInv ==
  ASSUME IInv, NEW p \in Reader, sys_read(p), UNCHANGED scene
  PROVE  IInv'
<1>1. TypeIn /\ TypeReads /\ InRing /\ ReadsLeft /\ ReadersWait
  BY Parts, Zenon
<1>2. PICK k \in scene.wants : n' = [n EXCEPT ![p] = k] /\ target' = [target EXCEPT ![p] = k]
  BY Zenon DEF sys_read
<1>3. k \in Nat
  BY <1>1, Scenes, Zenon DEF TypeIn
<1>4. UNCHANGED <<cons, ring, txlock, todo, intr, device>> /\ Goto(p, "read") /\ "read" \in ReaderAt
  BY Zenon DEF sys_read, ReaderAt
<1>5. /\ TypeOut' /\ TypeDev' /\ OutRing' /\ WritesLeft' /\ WritersWait' /\ Sending' /\ DeviceRoom'
      /\ TypeAt' /\ at'[p] = "read" /\ \A q \in Reader : q # p => at'[q] = at[q]
  BY <1>4, ReaderMoves, Zenon
<1>6. buf' = buf /\ r' = r /\ w' = w /\ e' = e /\ scene' = scene
  BY <1>4, Zenon DEF cons
<1>7. TypeIn' /\ InRing'
  BY <1>1, <1>6, Zenon DEF TypeIn, InRing, Diff, InSlot, Thing
<1>8. TypeReads' /\ ReadsLeft'
  <2>1. TypeReads'
    BY <1>1, <1>2, <1>3, Zenon DEF TypeReads
  <2>2. ReadsLeft'
    BY <1>1, <1>2, <1>3, SMTT(40) DEF TypeReads, ReadsLeft
  <2>. QED BY <2>1, <2>2, Zenon
<1>9. ReadersWait'
  BY <1>1, <1>5, <1>6, Zenon DEF ReadersWait
<1>. QED BY <1>5, <1>7, <1>8, <1>9, Whole, Zenon

\* A read takes characters off the front.
LEMMA Take_IInv ==
  ASSUME IInv, NEW p \in Reader, NEW k \in 0 .. Len(Ready), NEW g \in 0 .. k, g <= n[p],
         NEW l \in {"user", "rsleep"}, l = "rsleep" => k = Len(Ready),
         Take(p, k, g, l), UNCHANGED scene
  PROVE  IInv'
<1>1. TypeIn /\ TypeReads /\ InRing /\ ReadsLeft /\ ReadersWait
  BY Parts, Zenon
<1>2. /\ r' = (r + k) % WRAP /\ UNCHANGED <<buf, w, e>> /\ Goto(p, l)
      /\ UNCHANGED <<ring, txlock, todo, intr, device>>
      /\ n' = [n EXCEPT ![p] = IF l = "user" THEN 0 ELSE @ - g]
      /\ target' = [target EXCEPT ![p] = IF l = "user" THEN 0 ELSE @]
  BY Zenon DEF Take
<1>3. l \in ReaderAt
  BY Zenon DEF ReaderAt
<1>4. /\ TypeOut' /\ TypeDev' /\ OutRing' /\ WritesLeft' /\ WritersWait' /\ Sending' /\ DeviceRoom'
      /\ TypeAt' /\ at'[p] = l /\ \A q \in Reader : q # p => at'[q] = at[q]
  BY <1>2, <1>3, ReaderMoves, Zenon
<1>5. InFacts
  BY <1>1, InHold, Zenon DEF TypeIn, InRing
<1>6. /\ Diff(w, r) \in Nat /\ Diff(e, w) \in Nat /\ Diff(w, r) + Diff(e, w) <= NIn
      /\ Diff(e, r) = Diff(w, r) + Diff(e, w) /\ Len(Ready) = Diff(w, r)
      /\ NIn \in Nat \ {0} /\ WRAP \in Nat \ {0}
  BY <1>5, Sizes, Zenon DEF InFacts
<1>7. r' \in 0 .. WRAP - 1 /\ Diff(w, r') = Diff(w, r) - k /\ Diff(e, r') = Diff(e, r) - k
  <2>1. k \in 0 .. Diff(w, r)
    BY <1>6, Zenon
  <2>. QED BY <1>1, <1>2, <2>1, Taken, Zenon
<1>8. TypeIn'
  BY <1>1, <1>2, <1>7, Zenon DEF TypeIn, InSlot, Thing
<1>9. k = 0 => r' = r
  BY <1>1, <1>2, <1>6, Still, ZenonT(40) DEF TypeIn
<1>10. InRing'
  <2>1. Diff(w, r') + Diff(e, w) <= NIn
    BY <1>6, <1>7, SMTT(40)
  <2>2. ASSUME Diff(e, r') = NIn PROVE w = e
    <3>1. k = 0
      BY <1>6, <1>7, <2>2
    <3>. QED BY <1>1, <1>9, <2>2, <3>1, Zenon DEF InRing
  <2>. QED BY <1>2, <2>1, <2>2, Zenon DEF InRing, Diff
<1>11. TypeReads' /\ ReadsLeft'
  <2>1. n[p] \in Nat /\ target[p] \in Nat /\ n[p] <= target[p] /\ g \in Nat /\ n[p] - g \in Nat
        /\ n[p] - g <= target[p]
    BY <1>1, <1>6, SMTT(40) DEF TypeReads, ReadsLeft
  <2>2. CASE l = "user"
    <3>1. n' = [n EXCEPT ![p] = 0] /\ target' = [target EXCEPT ![p] = 0]
      BY <1>2, <2>2, Zenon
    <3>. QED BY <1>1, <3>1, SMTT(40) DEF TypeReads, ReadsLeft
  <2>3. CASE l # "user"
    <3>1. n' = [n EXCEPT ![p] = n[p] - g] /\ target' = [target EXCEPT ![p] = target[p]]
      BY <1>1, <1>2, <2>3, Zenon DEF TypeReads
    <3>. QED BY <1>1, <2>1, <3>1, Zenon DEF TypeReads, ReadsLeft
  <2>. QED BY <2>2, <2>3, Zenon
<1>12. ReadersWait'
  <2>1. ASSUME k = Len(Ready) PROVE r' = w
    BY <1>2, <1>5, <1>6, <2>1, Zenon DEF InFacts
  <2>2. ASSUME r = w PROVE r' = w
    <3>1. Diff(w, r) = 0
      BY <1>1, <1>6, <2>2, Still, Zenon DEF Diff, TypeIn
    <3>2. k = Len(Ready)
      BY <1>6, <3>1, SMTT(40)
    <3>. QED BY <2>1, <3>2, Zenon
  <2>. QED BY <1>1, <1>2, <1>4, <2>1, <2>2, Zenon DEF ReadersWait
<1>. QED BY <1>4, <1>8, <1>10, <1>11, <1>12, Whole, Zenon

\* consoleread takes characters in one of these ways, and delivers them as a
\* read of Lines may.
LEMMA ReadTakes ==
  ASSUME IInv, NEW p \in Reader, consoleread(p)
  PROVE  \E k \in 0 .. Len(Ready), lost \in {0, 1}, l \in {"user", "rsleep"} :
           /\ k + lost <= Len(Ready) /\ k <= n[p] /\ (l = "rsleep" => k + lost = Len(Ready))
           /\ \A i \in 1 .. k : Ready[i] \in Enders => i = k /\ lost = 0 /\ Ready[i] = "nl"
           /\ lost = 1 /\ Ready[k + 1] = "D" => k = 0
           /\ Take(p, k + lost, k, l)
<1> DEFINE Way(k, lost, l) ==
             /\ k + lost <= Len(Ready) /\ k <= n[p] /\ (l = "rsleep" => k + lost = Len(Ready))
             /\ \A i \in 1 .. k : Ready[i] \in Enders => i = k /\ lost = 0 /\ Ready[i] = "nl"
             /\ lost = 1 /\ Ready[k + 1] = "D" => k = 0
             /\ Take(p, k + lost, k, l)
<1>1. PICK k \in 0 .. Len(Ready) :
        /\ Copied(p, k)
        /\ \/ n[p] = k /\ Take(p, k, k, "user")
           \/ n[p] > k /\ k < Len(Ready) /\ Ready[k + 1] = "nl" /\ Take(p, k + 1, k + 1, "user")
           \/ /\ n[p] > k /\ k < Len(Ready) /\ Ready[k + 1] = "D"
              /\ Take(p, IF SaveEof(p, k) THEN k ELSE k + 1, k, "user")
           \/ n[p] > k /\ k = Len(Ready) /\ \E l \in {"rsleep", "user"} : Take(p, k, k, l)
           \/ \E bad \in 0 .. k : n[p] > bad /\ bad < Len(Ready) /\ Ready[bad + 1] # "D"
                                  /\ Take(p, bad + 1, bad, "user")
  BY Zenon DEF consoleread
<1>2. /\ Len(Ready) \in Nat /\ n[p] \in Nat /\ target[p] \in Nat /\ n[p] <= target[p]
  <2>1. TypeIn /\ InRing /\ TypeReads /\ ReadsLeft
    BY Parts, Zenon
  <2>2. InFacts
    BY <2>1, InHold, Zenon DEF TypeIn, InRing
  <2>. QED BY <2>1, <2>2, Zenon DEF InFacts, TypeReads, ReadsLeft
<1>3. k \in Nat /\ k <= n[p] /\ \A i \in 1 .. k : Ready[i] \notin Enders
  BY <1>1, <1>2, SMTT(40) DEF Copied
<1>4. /\ k + 0 = k /\ k <= Len(Ready) /\ 0 # 1 /\ "user" # "rsleep"
      /\ 0 \in {0, 1} /\ 1 \in {0, 1} /\ "user" \in {"user", "rsleep"} /\ "rsleep" \in {"user", "rsleep"}
  BY <1>1, <1>2, SMTT(40)
<1>5. CASE n[p] = k /\ Take(p, k, k, "user")
  <2>1. Way(k, 0, "user")
    BY <1>3, <1>4, <1>5, Zenon
  <2>. QED BY <1>1, <1>4, <2>1, Zenon
<1>6. CASE n[p] > k /\ k < Len(Ready) /\ Ready[k + 1] = "nl" /\ Take(p, k + 1, k + 1, "user")
  <2>1. /\ k + 1 \in 0 .. Len(Ready) /\ (k + 1) + 0 = k + 1 /\ k + 1 <= Len(Ready) /\ k + 1 <= n[p]
        /\ \A i \in 1 .. k + 1 : i \in 1 .. k \/ i = k + 1
    BY <1>2, <1>3, <1>6, SMTT(40)
  <2>2. Way(k + 1, 0, "user")
    BY <1>3, <1>4, <1>6, <2>1, ZenonT(40)
  <2>. QED BY <1>4, <2>1, <2>2, Zenon
<1>7. CASE /\ n[p] > k /\ k < Len(Ready) /\ Ready[k + 1] = "D"
           /\ Take(p, IF SaveEof(p, k) THEN k ELSE k + 1, k, "user")
  <2>1. CASE SaveEof(p, k)
    <3>1. Take(p, k, k, "user")
      BY <1>7, <2>1, Zenon
    <3>2. Way(k, 0, "user")
      BY <1>3, <1>4, <3>1, Zenon
    <3>. QED BY <1>1, <1>4, <3>2, Zenon
  <2>2. CASE ~SaveEof(p, k)
    <3>1. Take(p, k + 1, k, "user")
      BY <1>7, <2>2, Zenon
    <3>2. k = 0 /\ k + 1 <= Len(Ready)
      BY <1>2, <1>3, <1>7, <2>2, SMTT(40) DEF SaveEof
    <3>3. Way(k, 1, "user")
      BY <1>3, <1>4, <3>1, <3>2, Zenon
    <3>. QED BY <1>1, <1>4, <3>3, Zenon
  <2>. QED BY <2>1, <2>2, Zenon
<1>8. CASE n[p] > k /\ k = Len(Ready) /\ \E l \in {"rsleep", "user"} : Take(p, k, k, l)
  <2>1. PICK l \in {"rsleep", "user"} : Take(p, k, k, l)
    BY <1>8, Zenon
  <2>2. l \in {"user", "rsleep"}
    BY Zenon
  <2>3. Way(k, 0, l)
    BY <1>3, <1>4, <1>8, <2>1, Zenon
  <2>. QED BY <1>1, <1>4, <2>2, <2>3, Zenon
<1>9. CASE \E bad \in 0 .. k : n[p] > bad /\ bad < Len(Ready) /\ Ready[bad + 1] # "D"
                               /\ Take(p, bad + 1, bad, "user")
  <2>1. PICK bad \in 0 .. k : n[p] > bad /\ bad < Len(Ready) /\ Ready[bad + 1] # "D"
                               /\ Take(p, bad + 1, bad, "user")
    BY <1>9, Zenon
  <2>2. /\ bad \in 0 .. Len(Ready) /\ bad + 1 <= Len(Ready) /\ bad <= n[p]
        /\ \A i \in 1 .. bad : i \in 1 .. k
    BY <1>2, <1>3, <2>1, SMTT(40)
  <2>3. Way(bad, 1, "user")
    BY <1>3, <1>4, <2>1, <2>2, Zenon
  <2>. QED BY <1>4, <2>2, <2>3, Zenon
<1>. QED BY <1>1, <1>5, <1>6, <1>7, <1>8, <1>9, ZenonT(40)

\* Every way through consoleread preserves the invariant.
LEMMA consoleread_IInv ==
  ASSUME IInv, NEW p \in Reader, consoleread(p), UNCHANGED scene
  PROVE  IInv'
<1>1. PICK k \in 0 .. Len(Ready), lost \in {0, 1}, l \in {"user", "rsleep"} :
        /\ k + lost <= Len(Ready) /\ k <= n[p] /\ (l = "rsleep" => k + lost = Len(Ready))
        /\ \A i \in 1 .. k : Ready[i] \in Enders => i = k /\ lost = 0 /\ Ready[i] = "nl"
        /\ lost = 1 /\ Ready[k + 1] = "D" => k = 0
        /\ Take(p, k + lost, k, l)
  BY ReadTakes, Zenon
<1>2. Len(Ready) \in Nat
  <2>1. TypeIn /\ InRing
    BY Parts, Zenon
  <2>2. InFacts
    BY <2>1, InHold, Zenon DEF TypeIn, InRing
  <2>. QED BY <2>2, Zenon DEF InFacts
<1>3. k + lost \in 0 .. Len(Ready) /\ k \in 0 .. k + lost
  BY <1>1, <1>2, SMTT(40)
<1>. QED BY <1>1, <1>3, Take_IInv, Zenon

\* A killed sleeper goes round its loop.
LEMMA kill_IInv ==
  ASSUME IInv, NEW p \in Reader, kill(p), UNCHANGED scene
  PROVE  IInv'
<1>1. TypeIn /\ TypeReads /\ InRing /\ ReadsLeft /\ ReadersWait
  BY Parts, Zenon
<1>2. UNCHANGED <<cons, ring, txlock, reads, todo, intr, device>> /\ Goto(p, "read") /\ "read" \in ReaderAt
  BY Zenon DEF kill, ReaderAt
<1>3. UNCHANGED <<ring, txlock, todo, intr, device>>
  BY <1>2, Zenon
<1>4. /\ TypeOut' /\ TypeDev' /\ OutRing' /\ WritesLeft' /\ WritersWait' /\ Sending' /\ DeviceRoom'
      /\ TypeAt' /\ at'[p] = "read" /\ \A q \in Reader : q # p => at'[q] = at[q]
  BY <1>2, <1>3, ReaderMoves, Zenon
<1>5. buf' = buf /\ r' = r /\ w' = w /\ e' = e /\ scene' = scene /\ n' = n /\ target' = target
  BY <1>2, Zenon DEF cons, reads
<1>6. TypeIn' /\ InRing' /\ TypeReads' /\ ReadsLeft'
  BY <1>1, <1>5, Zenon DEF TypeIn, InRing, Diff, InSlot, Thing, TypeReads, ReadsLeft
<1>7. ReadersWait'
  BY <1>1, <1>4, <1>5, Zenon DEF ReadersWait
<1>. QED BY <1>4, <1>6, <1>7, Whole, Zenon

-----------------------------------------------------------------------------
(* uartputc and uartstart.                                                 *)

\* uart_tx_lock does not change hands.
LEMMA LockStays ==
  ASSUME IInv, NEW t \in Thread, \A q \in Thread : q # t => at'[q] = at[q],
         at[t] \notin {"start", "thr"}, at'[t] \notin {"start", "thr"}, UNCHANGED <<ring, txlock>>
  PROVE  Sending' /\ Writes' = Writes
<1>1. Sending
  BY Parts, Zenon
<1>2. txlock' = txlock /\ tx_w' = tx_w /\ tx_r' = tx_r
  BY Zenon DEF ring
<1>3. \A q \in Thread : at'[q] = "thr" <=> at[q] = "thr"
  BY Zenon
<1>4. \A q \in Thread : at'[q] \in {"start", "thr"} <=> at[q] \in {"start", "thr"}
  BY Zenon
<1>5. Writes' = Writes
  BY <1>3, SameWrites, Zenon
<1>6. Sending'
  BY <1>1, <1>2, <1>3, <1>4, Zenon DEF Sending, Thread
<1>. QED BY <1>5, <1>6, Zenon

\* A writer, outside uartstart, goes on or begins to sleep.
LEMMA WriterMoves ==
  ASSUME IInv, NEW p \in Writer, NEW l \in {"user", "put", "wsleep"}, at[p] \in {"user", "put", "wsleep"},
         Goto(p, l), UNCHANGED <<scene, cons, ring, txlock, reads, intr, device>>,
         todo' \in [Writer -> Seq(Letter)], \A q \in Writer : q # p => todo'[q] = todo[q],
         l = "user" <=> todo'[p] = <<>>, l = "wsleep" => TxLen = NOut
  PROVE  IInv'
<1>1. TypeDev /\ WritesLeft /\ WritersWait /\ DeviceRoom
  BY Parts, Zenon
<1>2. /\ p \in Thread /\ p # "intr" /\ (p \in Writer => l \in WriterAt) /\ (p = "intr" => l \in HandlerAt)
      /\ "intr" \in Thread /\ Writer \subseteq Thread
  BY Ids, Zenon DEF Thread, WriterAt
<1>3. UNCHANGED <<scene, cons, reads>> /\ UNCHANGED ring /\ UNCHANGED <<ring, txlock>>
  BY Zenon
<1>4. /\ TypeIn' /\ TypeReads' /\ InRing' /\ ReadsLeft' /\ ReadersWait'
      /\ TypeAt' /\ at'[p] = l /\ \A q \in Thread : q # p => at'[q] = at[q]
  BY <1>2, <1>3, ThreadMoves, Zenon
<1>5. TypeOut' /\ OutRing' /\ TxLen' = TxLen
  BY <1>3, SameOut, Zenon
<1>6. at[p] \notin {"start", "thr"} /\ at'[p] \notin {"start", "thr"}
  BY <1>4, Zenon
<1>7. Sending' /\ Writes' = Writes
  BY <1>2, <1>3, <1>4, <1>6, LockStays, Zenon
<1>8. /\ at'["intr"] = at["intr"] /\ key' = key /\ echo' = echo /\ rhr' = rhr /\ fifo' = fifo
      /\ overrun' = overrun
  BY <1>2, <1>4, Zenon DEF intr, device
<1>9. TypeDev'
  BY <1>1, <1>8, Zenon DEF TypeDev, ConsLocked
<1>10. DeviceRoom'
  BY <1>1, <1>7, <1>8, Zenon DEF DeviceRoom, Echoes
<1>11. WritersWait'
  BY <1>1, <1>2, <1>4, <1>5, Zenon DEF WritersWait, NOut
<1>12. WritesLeft'
  BY <1>1, <1>2, <1>4, Zenon DEF WritesLeft
<1>. QED BY <1>4, <1>5, <1>7, <1>9, <1>10, <1>11, <1>12, Whole, ZenonT(40)

\* A write begins.
LEMMA sys_write_IInv ==
  ASSUME IInv, NEW p \in Writer, sys_write(p), UNCHANGED scene
  PROVE  IInv'
<1>1. TypeIn /\ WritesLeft
  BY Parts, Zenon
<1>2. PICK m \in scene.messages : todo' = [todo EXCEPT ![p] = m]
  BY Zenon DEF sys_write
<1>3. m \in Seq(Letter) /\ m # <<>>
  BY <1>1, Scenes, Zenon DEF TypeIn
<1>4. /\ at[p] \in {"user", "put", "wsleep"} /\ "put" \in {"user", "put", "wsleep"} /\ "put" # "user"
      /\ "put" # "wsleep" /\ Goto(p, "put") /\ UNCHANGED <<scene, cons, ring, txlock, reads, intr, device>>
  BY Zenon DEF sys_write
<1>5. /\ todo' \in [Writer -> Seq(Letter)] /\ todo'[p] = m
      /\ \A q \in Writer : q # p => todo'[q] = todo[q]
  BY <1>1, <1>2, <1>3, Zenon DEF WritesLeft
<1>. QED BY <1>3, <1>4, <1>5, WriterMoves, Zenon

\* A write gives up.
LEMMA consolewrite_bad_IInv ==
  ASSUME IInv, NEW p \in Writer, consolewrite_bad(p), UNCHANGED scene
  PROVE  IInv'
<1>1. WritesLeft
  BY Parts, Zenon
<1>2. /\ at[p] \in {"user", "put", "wsleep"} /\ "user" \in {"user", "put", "wsleep"} /\ "user" # "wsleep"
      /\ Goto(p, "user") /\ UNCHANGED <<scene, cons, ring, txlock, reads, intr, device>>
  BY Zenon DEF consolewrite_bad
<1>3. /\ todo' \in [Writer -> Seq(Letter)] /\ todo'[p] = <<>>
      /\ \A q \in Writer : q # p => todo'[q] = todo[q]
  <2>1. <<>> \in Seq(Letter) /\ todo' = [todo EXCEPT ![p] = <<>>]
    BY NoBytes, Zenon DEF consolewrite_bad
  <2>. QED BY <1>1, <2>1, Zenon DEF WritesLeft
<1>. QED BY <1>2, <1>3, WriterMoves, Zenon

\* A writer sleeps only if the ring is full.
LEMMA uartputc_full_IInv ==
  ASSUME IInv, NEW p \in Writer, uartputc_full(p), UNCHANGED scene
  PROVE  IInv'
<1>1. WritesLeft
  BY Parts, Zenon
<1>2. /\ at[p] \in {"user", "put", "wsleep"} /\ "wsleep" \in {"user", "put", "wsleep"} /\ "wsleep" # "user"
      /\ Goto(p, "wsleep") /\ UNCHANGED <<scene, cons, ring, txlock, reads, intr, device>>
      /\ todo' = todo /\ TxLen = NOut
  BY Zenon DEF uartputc_full, TxFull, NOut
<1>3. todo'[p] # <<>> /\ todo' \in [Writer -> Seq(Letter)] /\ \A q \in Writer : q # p => todo'[q] = todo[q]
  <2>1. at[p] = "put"
    BY Zenon DEF uartputc_full
  <2>. QED BY <1>1, <1>2, <2>1, Zenon DEF WritesLeft
<1>. QED BY <1>2, <1>3, WriterMoves, Zenon

\* A character is stored; nobody sleeps, as there was room.
LEMMA uartputc_IInv ==
  ASSUME IInv, NEW p \in Writer, uartputc(p), UNCHANGED scene
  PROVE  IInv'
<1>1. TypeOut /\ OutRing /\ TypeDev /\ WritesLeft /\ WritersWait /\ Sending /\ DeviceRoom
  BY Parts, Zenon
<1>2. /\ p \in Thread /\ p # "intr" /\ (p \in Writer => "start" \in WriterAt) /\ (p = "intr" => "start" \in HandlerAt)
      /\ "intr" \in Thread /\ Writer \subseteq Thread /\ "none" \notin Thread
  BY Ids, Zenon DEF Thread, WriterAt, HandlerAt
<1>3. /\ at[p] = "put" /\ txlock = "none" /\ TxLen # NOut
      /\ tx' = [tx EXCEPT ![tx_w % NOut] = Head(todo[p])] /\ tx_w' = (tx_w + 1) % TX_WRAP /\ tx_r' = tx_r
      /\ todo' = [todo EXCEPT ![p] = Tail(todo[p])] /\ txlock' = p /\ Goto(p, "start")
      /\ UNCHANGED <<scene, cons, reads>> /\ key' = key /\ echo' = echo /\ rhr' = rhr /\ fifo' = fifo
      /\ overrun' = overrun
  BY Zenon DEF uartputc, TxFull, NOut, intr, device
<1>4. Head(todo[p]) \in Letter /\ Tail(todo[p]) \in Seq(Letter)
  <2>1. todo[p] \in Seq(Letter) /\ todo[p] # <<>>
    BY <1>1, <1>3, Zenon DEF WritesLeft
  <2>. QED BY <2>1, FrontOf, Zenon
<1>5. TypeOut' /\ OutRing'
  BY <1>1, <1>3, <1>4, PutIn, Zenon DEF OutRing, NOut
<1>6. /\ TypeIn' /\ TypeReads' /\ InRing' /\ ReadsLeft' /\ ReadersWait'
      /\ TypeAt' /\ at'[p] = "start" /\ \A q \in Thread : q # p => at'[q] = at[q]
  BY <1>2, <1>3, ThreadMoves, Zenon
<1>7. \A q \in Thread : at[q] \notin {"start", "thr"}
  BY <1>1, <1>2, <1>3, Zenon DEF Sending
<1>8. Sending'
  BY <1>2, <1>3, <1>6, <1>7, Zenon DEF Sending, Thread
<1>9. TypeDev' /\ DeviceRoom'
  <2>1. \A t \in Thread : at'[t] = "thr" <=> at[t] = "thr"
    BY <1>3, <1>6, Zenon
  <2>2. Writes' = Writes
    BY <2>1, SameWrites, Zenon
  <2>3. at'["intr"] = at["intr"]
    BY <1>2, <1>6, Zenon
  <2>4. TypeDev'
    BY <1>1, <1>3, <2>3, Zenon DEF TypeDev, ConsLocked
  <2>5. DeviceRoom'
    BY <1>1, <1>3, <2>2, <2>3, ZenonT(40) DEF DeviceRoom, Echoes
  <2>. QED BY <2>4, <2>5, Zenon
<1>10. WritersWait'
  <2>1. \A q \in Writer : at[q] # "wsleep"
    BY <1>1, <1>3, Zenon DEF WritersWait
  <2>2. \A q \in Writer : at'[q] # "wsleep"
    BY <1>2, <1>6, <2>1, Zenon
  <2>. QED BY <2>2, Zenon DEF WritersWait
<1>11. WritesLeft'
  BY <1>1, <1>2, <1>3, <1>4, <1>6, Zenon DEF WritesLeft
<1>. QED BY <1>5, <1>6, <1>8, <1>9, <1>10, <1>11, Whole, ZenonT(40)

\* uart_tx_lock is given up.
LEMMA uartstart_return_IInv ==
  ASSUME IInv, NEW t \in Thread, uartstart_return(t), UNCHANGED scene
  PROVE  IInv'
<1>1. TypeAt /\ TypeDev /\ WritesLeft /\ WritersWait /\ Sending /\ DeviceRoom
  BY Parts, Zenon
<1>2. "intr" \in Thread /\ Writer \subseteq Thread /\ "none" \notin Thread /\ "intr" \notin Writer
      /\ (t \in Writer \/ t = "intr")
  BY Ids, Zenon DEF Thread
<1>3. /\ at[t] = "start" /\ txlock' = "none"
      /\ Goto(t, IF t = "intr" \/ todo[t] = <<>> THEN "user" ELSE "put")
      /\ UNCHANGED <<scene, cons, reads>> /\ UNCHANGED ring /\ key' = key /\ echo' = echo /\ rhr' = rhr
      /\ fifo' = fifo /\ overrun' = overrun /\ todo' = todo /\ tx_w' = tx_w /\ tx_r' = tx_r
  BY Zenon DEF uartstart_return, intr, device, ring
<1>4. PICK l : l = IF t = "intr" \/ todo[t] = <<>> THEN "user" ELSE "put"
  BY Zenon
<1>5. /\ Goto(t, l) /\ (t = "intr" => l = "user") /\ l \in {"user", "put"}
      /\ (t # "intr" => (l = "user" <=> todo[t] = <<>>))
  BY <1>3, <1>4, Zenon
<1>6. (t \in Writer => l \in WriterAt) /\ (t = "intr" => l \in HandlerAt)
  BY <1>5, Zenon DEF WriterAt, HandlerAt
<1>7. /\ TypeIn' /\ TypeReads' /\ InRing' /\ ReadsLeft' /\ ReadersWait'
      /\ TypeAt' /\ at'[t] = l /\ \A q \in Thread : q # t => at'[q] = at[q]
  BY <1>3, <1>5, <1>6, ThreadMoves, Zenon
<1>8. TypeOut' /\ OutRing' /\ TxLen' = TxLen
  BY <1>3, SameOut, Zenon
<1>9. txlock = t /\ \A q \in Thread : q # t => at[q] \notin {"start", "thr"}
  BY <1>1, <1>3, Zenon DEF Sending
<1>10. \A q \in Thread : at'[q] \notin {"start", "thr"}
  BY <1>5, <1>7, <1>9, Zenon
<1>11. Sending'
  BY <1>2, <1>3, <1>10, Zenon DEF Sending, Thread
<1>12. TypeDev' /\ DeviceRoom'
  <2>1. \A q \in Thread : at'[q] # "thr" /\ at[q] # "thr"
    BY <1>3, <1>9, <1>10, Zenon
  <2>2. Writes' = Writes
    BY <2>1, SameWrites, Zenon
  <2>3. \/ at'["intr"] = at["intr"]
        \/ at'["intr"] = "user" /\ at["intr"] = "start"
    BY <1>2, <1>3, <1>5, <1>7, ZenonT(40)
  <2>4. Echoes' = Echoes /\ (ConsLocked' => ConsLocked) /\ (at'["intr"] = "thr_sync" => at["intr"] = "thr_sync")
    BY <2>3, Zenon DEF Echoes, ConsLocked
  <2>5. TypeDev'
    BY <1>1, <1>3, <2>4, Zenon DEF TypeDev
  <2>6. DeviceRoom'
    BY <1>1, <1>3, <2>2, <2>4, Zenon DEF DeviceRoom
  <2>. QED BY <2>5, <2>6, Zenon
<1>13. WritersWait'
  BY <1>1, <1>2, <1>5, <1>7, <1>8, ZenonT(40) DEF WritersWait
<1>14. WritesLeft'
  BY <1>1, <1>2, <1>3, <1>5, <1>7, ZenonT(40) DEF WritesLeft
<1>. QED BY <1>7, <1>8, <1>11, <1>12, <1>13, <1>14, Whole, ZenonT(40)

\* uartstart finds the device idle and a character to send.
LEMMA uartstart_IInv ==
  ASSUME IInv, NEW t \in Thread, uartstart(t), UNCHANGED scene
  PROVE  IInv'
<1>1. TypeAt /\ TypeDev /\ WritesLeft /\ WritersWait /\ Sending /\ DeviceRoom
  BY Parts, Zenon
<1>2. /\ "intr" \in Thread /\ Writer \subseteq Thread /\ "intr" \notin Writer /\ (t \in Writer \/ t = "intr")
      /\ (t \in Writer => "thr" \in WriterAt) /\ (t = "intr" => "thr" \in HandlerAt)
  BY Ids, Zenon DEF Thread, WriterAt, HandlerAt
<1>3. /\ at[t] = "start" /\ Goto(t, "thr") /\ tx_w # tx_r /\ fifo = 0 /\ txlock' = txlock
      /\ UNCHANGED <<scene, cons, reads>> /\ UNCHANGED ring /\ key' = key /\ echo' = echo /\ rhr' = rhr
      /\ fifo' = fifo /\ overrun' = overrun /\ todo' = todo /\ tx_w' = tx_w /\ tx_r' = tx_r
  BY Zenon DEF uartstart, intr, device, ring, Idle
<1>4. /\ TypeIn' /\ TypeReads' /\ InRing' /\ ReadsLeft' /\ ReadersWait'
      /\ TypeAt' /\ at'[t] = "thr" /\ \A q \in Thread : q # t => at'[q] = at[q]
  BY <1>2, <1>3, ThreadMoves, Zenon
<1>5. TypeOut' /\ OutRing' /\ TxLen' = TxLen
  BY <1>3, SameOut, Zenon
<1>6. Sending'
  BY <1>1, <1>3, <1>4, Zenon DEF Sending, Thread
<1>7. TypeDev' /\ DeviceRoom'
  <2>1. \/ at'["intr"] = at["intr"]
        \/ at'["intr"] = "thr" /\ at["intr"] = "start"
    BY <1>2, <1>3, <1>4, Zenon
  <2>2. (ConsLocked' => ConsLocked) /\ (at'["intr"] = "thr_sync" => at["intr"] = "thr_sync")
    BY <2>1, Zenon DEF ConsLocked
  <2>3. TypeDev'
    BY <1>1, <1>3, <2>2, Zenon DEF TypeDev
  <2>4. Writes' \in {0, 1} /\ Echoes' \in {0, 1}
    BY Zenon DEF Writes, Echoes
  <2>5. fifo' = 0 /\ overrun' = FALSE
    BY <1>1, <1>3, Zenon DEF DeviceRoom
  <2>6. DeviceRoom'
    <3>1. 0 + Writes' + Echoes' <= 2
      BY <2>4, RoomForTwo, Zenon
    <3>. QED BY <2>5, <3>1, Zenon DEF DeviceRoom
  <2>. QED BY <2>3, <2>6, Zenon
<1>8. WritersWait'
  BY <1>1, <1>2, <1>4, <1>5, Zenon DEF WritersWait
<1>9. WritesLeft'
  BY <1>1, <1>2, <1>3, <1>4, Zenon DEF WritesLeft
<1>. QED BY <1>4, <1>5, <1>6, <1>7, <1>8, <1>9, Whole, ZenonT(40)

\* Writing to the device is safe as long as it has room for two.
LEMMA THR_Room ==
  ASSUME TypeDev, DeviceRoom, THR, NEW W \in {0, 1}, NEW E \in {0, 1},
         W + E + 1 = Writes + Echoes, Writes' = W, Echoes' = E
  PROVE  DeviceRoom' /\ fifo' \in Nat
<1>1. fifo \in Nat /\ fifo + Writes + Echoes <= 2 /\ overrun = FALSE /\ Writes \in {0, 1} /\ Echoes \in {0, 1}
  BY Zenon DEF TypeDev, DeviceRoom, Writes, Echoes
<1>2. fifo + (W + E + 1) <= 2
  BY <1>1, SMTT(40)
<1>3. fifo # FIFO
  BY <1>2, <1>1, Sizes, SMTT(40)
<1>4. fifo' = fifo + 1 /\ overrun' = FALSE
  BY <1>1, <1>3, Zenon DEF THR
<1>5. (fifo + 1) + W + E <= 2 /\ fifo + 1 \in Nat
  BY <1>1, <1>2, SMTT(40)
<1>. QED BY <1>4, <1>5, Zenon DEF DeviceRoom

\* uartstart moves a character to the device, which has room for it, and wakes
\* up the writers.
LEMMA uartstart_send_IInv ==
  ASSUME IInv, NEW t \in Thread, uartstart_send(t), UNCHANGED scene
  PROVE  IInv'
<1>1. TypeOut /\ OutRing /\ TypeAt /\ TypeDev /\ WritesLeft /\ Sending /\ DeviceRoom
  BY Parts, Zenon
<1>2. /\ "intr" \in Thread /\ Writer \subseteq Thread /\ "intr" \notin Writer /\ (t \in Writer \/ t = "intr")
      /\ t \notin Reader /\ Thread \subseteq Proc \cup {"intr"} /\ Reader \subseteq Proc \cup {"intr"}
  BY Ids, Zenon DEF Thread, Proc
<1>3. /\ at[t] = "thr" /\ tx_r' = (tx_r + 1) % TX_WRAP /\ tx' = tx /\ tx_w' = tx_w /\ txlock' = txlock
      /\ at' = [q \in DOMAIN at |-> IF q = t THEN "start" ELSE IF at[q] = "wsleep" THEN "put" ELSE at[q]]
      /\ THR /\ UNCHANGED <<scene, cons, reads>> /\ key' = key /\ echo' = echo /\ rhr' = rhr /\ todo' = todo
  BY Zenon DEF uartstart_send, Restarted, intr
<1>4. at \in [Proc \cup {"intr"} -> ReaderAt \cup WriterAt \cup HandlerAt]
  BY <1>1, Zenon DEF TypeAt
<1>5. \A q \in Proc \cup {"intr"} : at'[q] = IF q = t THEN "start" ELSE IF at[q] = "wsleep" THEN "put" ELSE at[q]
  BY <1>3, <1>4, Zenon
<1>6. \A q \in Reader : at'[q] = at[q]
  <2>1. \A q \in Reader : at[q] # "wsleep" /\ q # t
    BY <1>1, <1>2, Zenon DEF TypeAt, ReaderAt
  <2>. QED BY <1>2, <1>5, <2>1, Zenon
<1>7. TypeIn' /\ TypeReads' /\ InRing' /\ ReadsLeft' /\ ReadersWait'
  BY <1>3, <1>6, ReadersStay, Zenon
<1>8. TypeOut' /\ OutRing'
  <2>1. tx_w # tx_r
    BY <1>1, <1>3, Zenon DEF Sending
  <2>. QED BY <1>1, <1>3, <2>1, TakenOut, Zenon DEF OutRing, NOut
<1>9. TypeAt'
  <2>1. at' \in [Proc \cup {"intr"} -> ReaderAt \cup WriterAt \cup HandlerAt]
    <3>1. \A q \in Proc \cup {"intr"} : at'[q] \in ReaderAt \cup WriterAt \cup HandlerAt
      BY <1>4, <1>5, Zenon DEF ReaderAt, WriterAt, HandlerAt
    <3>2. DOMAIN at = Proc \cup {"intr"}
      BY <1>4, Zenon
    <3>. QED BY <1>3, <3>1, <3>2, Zenon
  <2>2. \A q \in Writer : at'[q] \in WriterAt
    BY <1>1, <1>2, <1>5, ZenonT(40) DEF TypeAt, WriterAt
  <2>3. at'["intr"] \in HandlerAt
    BY <1>1, <1>2, <1>5, Zenon DEF TypeAt, HandlerAt
  <2>4. \A q \in Reader : at'[q] \in ReaderAt
    BY <1>1, <1>6, Zenon DEF TypeAt
  <2>. QED BY <2>1, <2>2, <2>3, <2>4, Zenon DEF TypeAt, Proc
<1>10. \A q \in Thread : q # t => at[q] \notin {"start", "thr"}
  BY <1>1, <1>3, Zenon DEF Sending
<1>11. \A q \in Thread : (at'[q] \in {"start", "thr"} <=> q = t) /\ at'[q] # "thr"
  BY <1>2, <1>5, <1>10, Zenon
<1>12. Sending'
  <2>1. txlock = t
    BY <1>1, <1>3, Zenon DEF Sending
  <2>. QED BY <1>3, <1>11, <2>1, Zenon DEF Sending, Thread
<1>13. /\ at'["intr"] # "wsleep" /\ (at'["intr"] = "thr_sync" <=> at["intr"] = "thr_sync")
       /\ (ConsLocked' => ConsLocked)
  BY <1>1, <1>2, <1>3, <1>5, ZenonT(40) DEF TypeAt, HandlerAt, ConsLocked
<1>14. DeviceRoom' /\ fifo' \in Nat
  <2>1. Writes = 1
    BY <1>3, Zenon DEF Writes
  <2>2. Writes' = 0
    BY <1>11, Zenon DEF Writes, Thread
  <2>3. Echoes' = Echoes /\ Echoes \in {0, 1}
    BY <1>13, Zenon DEF Echoes
  <2>4. 0 + Echoes + 1 = Writes + Echoes /\ 0 \in {0, 1}
    BY <2>1, <2>3, SMTT(40)
  <2>. QED BY <1>1, <1>3, <2>2, <2>3, <2>4, THR_Room, ZenonT(40)
<1>15. TypeDev'
  BY <1>1, <1>3, <1>13, <1>14, Zenon DEF TypeDev
<1>16. WritersWait'
  <2>1. \A q \in Writer : at'[q] # "wsleep"
    BY <1>2, <1>5, Zenon
  <2>. QED BY <2>1, Zenon DEF WritersWait
<1>17. WritesLeft'
  BY <1>1, <1>2, <1>3, <1>5, SMTT(40) DEF WritesLeft
<1>. QED BY <1>7, <1>8, <1>9, <1>12, <1>14, <1>15, <1>16, <1>17, Whole, ZenonT(40)

-----------------------------------------------------------------------------
(* The interrupt handler and the device.                                   *)

\* The handler, outside uartstart, moves to l.
LEMMA HandlerMoves ==
  ASSUME IInv, at["intr"] \in {"user", "get", "echo", "thr_sync"},
         at'["intr"] \in {"get", "echo", "thr_sync"}, \A q \in Writer : at'[q] = at[q],
         UNCHANGED <<ring, txlock, todo>>
  PROVE  TypeOut' /\ OutRing' /\ WritesLeft' /\ WritersWait' /\ Sending' /\ Writes' = Writes
<1>1. WritesLeft /\ WritersWait
  BY Parts, Zenon
<1>2. "intr" \in Thread /\ \A q \in Thread : q # "intr" => at'[q] = at[q]
  BY Zenon DEF Thread
<1>3. at["intr"] \notin {"start", "thr"} /\ at'["intr"] \notin {"start", "thr"}
  BY Zenon
<1>4. UNCHANGED <<ring, txlock>> /\ UNCHANGED ring /\ todo' = todo
  BY Zenon
<1>5. Sending' /\ Writes' = Writes
  BY <1>2, <1>3, <1>4, LockStays, Zenon
<1>6. TypeOut' /\ OutRing' /\ TxLen' = TxLen
  BY <1>4, SameOut, Zenon
<1>7. WritesLeft'
  BY <1>1, <1>4, Zenon DEF WritesLeft
<1>8. WritersWait'
  BY <1>1, <1>6, Zenon DEF WritersWait, NOut
<1>. QED BY <1>5, <1>6, <1>7, <1>8, Zenon

\* Such a step that leaves the input and the device's queue alone.
LEMMA HandlerStep ==
  ASSUME IInv, at["intr"] \in {"user", "get", "echo", "thr_sync"},
         NEW l \in {"get", "echo", "thr_sync"}, Goto("intr", l),
         UNCHANGED <<scene, cons, ring, txlock, reads, todo>>
  PROVE  /\ TypeIn' /\ TypeReads' /\ InRing' /\ ReadsLeft' /\ ReadersWait' /\ TypeAt' /\ TypeOut'
         /\ OutRing' /\ WritesLeft' /\ WritersWait' /\ Sending' /\ Writes' = Writes /\ at'["intr"] = l
<1>1. /\ "intr" \in Thread /\ "intr" \notin Writer /\ Writer \subseteq Thread /\ l \in HandlerAt
      /\ ("intr" \in Writer => l \in WriterAt) /\ ("intr" = "intr" => l \in HandlerAt)
  BY Ids, Zenon DEF Thread, HandlerAt
<1>2. UNCHANGED <<scene, cons, reads>> /\ UNCHANGED <<ring, txlock, todo>>
  BY Zenon
<1>3. /\ TypeIn' /\ TypeReads' /\ InRing' /\ ReadsLeft' /\ ReadersWait'
      /\ TypeAt' /\ at'["intr"] = l /\ \A q \in Thread : q # "intr" => at'[q] = at[q]
  BY <1>1, <1>2, ThreadMoves, Zenon
<1>4. \A q \in Writer : at'[q] = at[q]
  BY <1>1, <1>3, Zenon
<1>5. at'["intr"] \in {"get", "echo", "thr_sync"}
  BY <1>3, Zenon
<1>6. TypeOut' /\ OutRing' /\ WritesLeft' /\ WritersWait' /\ Sending' /\ Writes' = Writes
  BY <1>2, <1>4, <1>5, HandlerMoves, Zenon
<1>. QED BY <1>3, <1>6, Zenon

\* The interrupt is taken.
LEMMA uartintr_IInv ==
  ASSUME IInv, uartintr, UNCHANGED scene
  PROVE  IInv'
<1>1. TypeDev /\ DeviceRoom
  BY Parts, Zenon
<1>2. /\ at["intr"] \in {"user", "get", "echo", "thr_sync"} /\ "get" \in {"get", "echo", "thr_sync"}
      /\ Goto("intr", "get") /\ UNCHANGED <<scene, cons, ring, txlock, reads, todo>>
      /\ at["intr"] = "user" /\ rhr' = rhr /\ fifo' = fifo /\ overrun' = overrun /\ echo' = echo
  BY Zenon DEF uartintr, intr
<1>3. /\ TypeIn' /\ TypeReads' /\ InRing' /\ ReadsLeft' /\ ReadersWait' /\ TypeAt' /\ TypeOut'
      /\ OutRing' /\ WritesLeft' /\ WritersWait' /\ Sending' /\ Writes' = Writes /\ at'["intr"] = "get"
  BY <1>2, HandlerStep, Zenon
<1>4. TypeDev'
  BY <1>1, <1>2, <1>3, Zenon DEF TypeDev, ConsLocked
<1>5. Echoes' = Echoes
  BY <1>2, <1>3, Zenon DEF Echoes
<1>6. DeviceRoom'
  BY <1>1, <1>2, <1>3, <1>5, Zenon DEF DeviceRoom
<1>. QED BY <1>3, <1>4, <1>6, Whole, Zenon

\* A character is fetched from the device.
LEMMA uartgetc_IInv ==
  ASSUME IInv, uartgetc, UNCHANGED scene
  PROVE  IInv'
<1>1. TypeDev /\ DeviceRoom /\ TypeIn /\ InRing
  BY Parts, Zenon
<1>2. /\ at["intr"] \in {"user", "get", "echo", "thr_sync"} /\ "echo" \in {"get", "echo", "thr_sync"}
      /\ Goto("intr", "echo") /\ UNCHANGED <<scene, cons, ring, txlock, reads, todo>>
      /\ at["intr"] = "get" /\ rhr # "none" /\ key' = rhr /\ rhr' = "none" /\ echo' = Echo(rhr)
      /\ fifo' = fifo /\ overrun' = overrun
  BY Zenon DEF uartgetc
<1>3. /\ TypeIn' /\ TypeReads' /\ InRing' /\ ReadsLeft' /\ ReadersWait' /\ TypeAt' /\ TypeOut'
      /\ OutRing' /\ WritesLeft' /\ WritersWait' /\ Sending' /\ Writes' = Writes /\ at'["intr"] = "echo"
  BY <1>2, HandlerStep, Zenon
<1>4. Editing \in Nat
  <2>1. InFacts
    BY <1>1, InHold, Zenon DEF TypeIn, InRing
  <2>. QED BY <2>1, Zenon DEF InFacts, Editing
<1>5. Echo(rhr) \in Nat
  <2>1. 3 * Editing \in Nat /\ 0 \in Nat /\ 1 \in Nat /\ 3 \in Nat
    BY <1>4, SMTT(40)
  <2>2. \/ Echo(rhr) = 1 \/ Echo(rhr) = 3 * Editing \/ Echo(rhr) = 3 \/ Echo(rhr) = 0
    BY Zenon DEF Echo
  <2>. QED BY <2>1, <2>2, Zenon
<1>6. TypeDev'
  BY <1>1, <1>2, <1>3, <1>5, ZenonT(40) DEF TypeDev, ConsLocked
<1>7. Echoes' = Echoes
  BY <1>2, <1>3, Zenon DEF Echoes
<1>8. DeviceRoom'
  BY <1>1, <1>2, <1>3, <1>7, Zenon DEF DeviceRoom
<1>. QED BY <1>3, <1>6, <1>8, Whole, ZenonT(40)

\* The echo finds the device idle.
LEMMA uartputc_sync_IInv ==
  ASSUME IInv, uartputc_sync, UNCHANGED scene
  PROVE  IInv'
<1>1. TypeDev /\ DeviceRoom
  BY Parts, Zenon
<1>2. /\ at["intr"] \in {"user", "get", "echo", "thr_sync"} /\ "thr_sync" \in {"get", "echo", "thr_sync"}
      /\ Goto("intr", "thr_sync") /\ UNCHANGED <<scene, cons, ring, txlock, reads, todo>>
      /\ at["intr"] = "echo" /\ echo > 0 /\ fifo = 0
      /\ rhr' = rhr /\ fifo' = fifo /\ overrun' = overrun /\ echo' = echo /\ key' = key
  BY Zenon DEF uartputc_sync, intr, device, Idle
<1>3. /\ TypeIn' /\ TypeReads' /\ InRing' /\ ReadsLeft' /\ ReadersWait' /\ TypeAt' /\ TypeOut'
      /\ OutRing' /\ WritesLeft' /\ WritersWait' /\ Sending' /\ Writes' = Writes /\ at'["intr"] = "thr_sync"
  BY <1>2, HandlerStep, Zenon
<1>4. TypeDev'
  BY <1>1, <1>2, <1>3, Zenon DEF TypeDev, ConsLocked
<1>5. Writes \in {0, 1} /\ Echoes' = 1
  BY <1>3, Zenon DEF Writes, Echoes
<1>6. fifo' + Writes' + Echoes' <= 2
  BY <1>2, <1>3, <1>5, SMTT(40)
<1>7. DeviceRoom'
  BY <1>1, <1>2, <1>6, Zenon DEF DeviceRoom
<1>. QED BY <1>3, <1>4, <1>7, Whole, Zenon

\* The echo writes to the device, which has room for it.
LEMMA uartputc_sync_thr_IInv ==
  ASSUME IInv, uartputc_sync_thr, UNCHANGED scene
  PROVE  IInv'
<1>1. TypeDev /\ DeviceRoom
  BY Parts, Zenon
<1>2. /\ at["intr"] \in {"user", "get", "echo", "thr_sync"} /\ "echo" \in {"get", "echo", "thr_sync"}
      /\ Goto("intr", "echo") /\ UNCHANGED <<scene, cons, ring, txlock, reads, todo>>
      /\ at["intr"] = "thr_sync" /\ THR /\ echo' = echo - 1 /\ rhr' = rhr /\ key' = key
  BY Zenon DEF uartputc_sync_thr
<1>3. /\ TypeIn' /\ TypeReads' /\ InRing' /\ ReadsLeft' /\ ReadersWait' /\ TypeAt' /\ TypeOut'
      /\ OutRing' /\ WritesLeft' /\ WritersWait' /\ Sending' /\ Writes' = Writes /\ at'["intr"] = "echo"
  BY <1>2, HandlerStep, Zenon
<1>4. DeviceRoom' /\ fifo' \in Nat
  <2>1. Writes \in {0, 1} /\ Echoes = 1 /\ Echoes' = 0
    BY <1>2, <1>3, Zenon DEF Writes, Echoes
  <2>2. Writes + 0 + 1 = Writes + Echoes /\ 0 \in {0, 1}
    BY <2>1, SMTT(40)
  <2>. QED BY <1>1, <1>2, <1>3, <2>1, <2>2, THR_Room, ZenonT(40)
<1>5. TypeDev'
  BY <1>1, <1>2, <1>3, <1>4, SMTT(40) DEF TypeDev, ConsLocked
<1>. QED BY <1>3, <1>4, <1>5, Whole, Zenon

\* The handler takes uart_tx_lock.
LEMMA uartintr_send_IInv ==
  ASSUME IInv, uartintr_send, UNCHANGED scene
  PROVE  IInv'
<1>1. TypeDev /\ WritesLeft /\ WritersWait /\ Sending /\ DeviceRoom
  BY Parts, Zenon
<1>2. /\ "intr" \in Thread /\ Writer \subseteq Thread /\ "none" \notin Thread /\ "intr" \notin Writer
      /\ ("intr" \in Writer => "start" \in WriterAt) /\ ("intr" = "intr" => "start" \in HandlerAt)
  BY Ids, Zenon DEF Thread, WriterAt, HandlerAt
<1>3. /\ at["intr"] = "get" /\ Goto("intr", "start") /\ txlock = "none" /\ txlock' = "intr"
      /\ UNCHANGED <<scene, cons, reads>> /\ UNCHANGED ring /\ key' = key /\ echo' = echo /\ rhr' = rhr
      /\ fifo' = fifo /\ overrun' = overrun /\ todo' = todo /\ tx_w' = tx_w /\ tx_r' = tx_r
  BY Zenon DEF uartintr_send, intr, device, ring
<1>4. /\ TypeIn' /\ TypeReads' /\ InRing' /\ ReadsLeft' /\ ReadersWait'
      /\ TypeAt' /\ at'["intr"] = "start" /\ \A q \in Thread : q # "intr" => at'[q] = at[q]
  BY <1>2, <1>3, ThreadMoves, Zenon
<1>5. TypeOut' /\ OutRing' /\ TxLen' = TxLen
  BY <1>3, SameOut, Zenon
<1>6. \A q \in Thread : at[q] \notin {"start", "thr"}
  BY <1>1, <1>2, <1>3, Zenon DEF Sending
<1>7. Sending'
  BY <1>2, <1>3, <1>4, <1>6, ZenonT(40) DEF Sending, Thread
<1>8. TypeDev' /\ DeviceRoom'
  <2>1. \A t \in Thread : at'[t] = "thr" <=> at[t] = "thr"
    BY <1>3, <1>4, Zenon
  <2>2. Writes' = Writes
    BY <2>1, SameWrites, Zenon
  <2>3. Echoes' = Echoes
    BY <1>3, <1>4, Zenon DEF Echoes
  <2>4. TypeDev'
    BY <1>1, <1>3, <1>4, ZenonT(40) DEF TypeDev, ConsLocked
  <2>5. DeviceRoom'
    BY <1>1, <1>3, <2>2, <2>3, Zenon DEF DeviceRoom
  <2>. QED BY <2>4, <2>5, Zenon
<1>9. \A q \in Writer : at'[q] = at[q]
  BY <1>2, <1>4, Zenon
<1>10. WritersWait'
  BY <1>1, <1>5, <1>9, Zenon DEF WritersWait, NOut
<1>11. WritesLeft'
  BY <1>1, <1>3, <1>9, Zenon DEF WritesLeft
<1>. QED BY <1>4, <1>5, <1>7, <1>8, <1>10, <1>11, Whole, ZenonT(40)

\* A character comes in, or goes out.
LEMMA Device_IInv ==
  ASSUME IInv, Receive \/ Transmit, UNCHANGED scene
  PROVE  IInv'
<1>1. TypeIn /\ TypeAt /\ TypeDev /\ WritesLeft /\ WritersWait /\ Sending /\ DeviceRoom
  BY Parts, Zenon
<1>2. /\ at' = at /\ txlock' = txlock /\ todo' = todo /\ key' = key /\ echo' = echo /\ overrun' = overrun
      /\ UNCHANGED <<scene, cons, reads>> /\ UNCHANGED ring /\ tx_w' = tx_w /\ tx_r' = tx_r
  BY Zenon DEF Receive, Transmit, intr, ring
<1>3. TypeIn' /\ TypeReads' /\ InRing' /\ ReadsLeft' /\ ReadersWait'
  BY <1>2, ReadersStay, Zenon
<1>4. TypeOut' /\ OutRing' /\ TxLen' = TxLen
  BY <1>2, SameOut, Zenon
<1>5. rhr' \in Key \cup {"none"} /\ fifo' \in Nat /\ fifo' <= fifo /\ fifo \in Nat
  <2>1. scene.keys \subseteq Key
    BY <1>1, Scenes, Zenon DEF TypeIn
  <2>2. CASE Receive
    BY <1>1, <2>1, <2>2, SMTT(40) DEF Receive, TypeDev
  <2>3. CASE Transmit
    BY <1>1, <2>3, SMTT(40) DEF Transmit, TypeDev
  <2>. QED BY <2>2, <2>3, Zenon
<1>6. TypeAt'
  BY <1>1, <1>2, Zenon DEF TypeAt, Proc
<1>7. Sending'
  BY <1>1, <1>2, Zenon DEF Sending, Thread
<1>8. TypeDev'
  BY <1>1, <1>2, <1>5, Zenon DEF TypeDev, ConsLocked
<1>9. DeviceRoom'
  <2>1. Writes' = Writes /\ Echoes' = Echoes
    BY <1>2, Zenon DEF Writes, Echoes, Thread
  <2>2. Writes \in {0, 1} /\ Echoes \in {0, 1} /\ fifo + Writes + Echoes <= 2 /\ overrun = FALSE
    BY <1>1, Zenon DEF Writes, Echoes, DeviceRoom
  <2>3. fifo' + Writes + Echoes <= 2
    BY <1>5, <2>2, RoomForTwo, Zenon
  <2>. QED BY <1>2, <2>1, <2>2, <2>3, Zenon DEF DeviceRoom
<1>10. WritesLeft'
  BY <1>1, <1>2, Zenon DEF WritesLeft
<1>11. WritersWait'
  BY <1>1, <1>2, <1>4, Zenon DEF WritersWait, NOut
<1>. QED BY <1>3, <1>4, <1>6, <1>7, <1>8, <1>9, <1>10, <1>11, Whole, ZenonT(40)

-----------------------------------------------------------------------------
(* consoleintr.                                                            *)

\* The character of Lines that is stored for a key.
Char == IF key = "cr" THEN "nl" ELSE key

\* It is one that can be stored.
LEMMA CharIs ==
  ASSUME key \in Key, key \notin {"P", "F", "U", "H", "nul"}
  PROVE  Char \in Stored /\ Char \in Thing
BY Zenon DEF Char, Stored, Thing

\* What consoleintr does when it is done: nothing to cons, ...
Ignores == UNCHANGED cons /\ Goto("intr", "get")

\* ... it shortens the line by z, ...
Shortens(z) ==
  e' = (e - z) % WRAP /\ Goto("intr", "get") /\ UNCHANGED <<buf, r, w>>

\* ... or stores a character.
Stores ==
  /\ buf' = [buf EXCEPT ![e % NIn] = Char] /\ e' = (e + 1) % WRAP /\ r' = r
  /\ w' = IF Ends(Char) THEN e' ELSE w
  /\ at' = [q \in DOMAIN at |-> IF q = "intr" THEN "get"
              ELSE IF at[q] = "rsleep" /\ Wakes(Char) THEN "read" ELSE at[q]]

\* There is no other way.
LEMMA KeyWays ==
  ASSUME IInv, consoleintr
  PROVE  /\ at["intr"] = "echo" /\ echo = 0 /\ key \in Key /\ given' = <<>> /\ sent' = <<>>
         /\ UNCHANGED <<ring, txlock, reads, todo, echo, device>>
         /\ \/ Ignores
            \/ key \in {"U", "H"} /\ Shortens(Erased(key))
            \/ /\ key \notin {"P", "F", "U", "H", "nul"} /\ Diff(e, r) < NIn /\ Stores
<1>1. /\ at["intr"] = "echo" /\ echo = 0 /\ given' = <<>> /\ sent' = <<>>
      /\ UNCHANGED <<ring, txlock, reads, todo, echo, device>>
  BY Zenon DEF consoleintr, Quiet
<1>2. TypeDev /\ TypeIn /\ InRing
  BY Parts, Zenon
<1>3. key \in Key
  BY <1>1, <1>2, Zenon DEF TypeDev, ConsLocked
<1>4. \/ Ignores
      \/ key \in {"U", "H"} /\ Shortens(Erased(key))
      \/ key \notin {"P", "F", "U", "H", "nul"} /\ ~Full /\ Stores
  BY Zenon DEF consoleintr, Ignores, Shortens, Stores, Char, Inc, NIn
<1>5. ~Full => Diff(e, r) < NIn
  <2>1. InFacts
    BY <1>2, InHold, Zenon DEF TypeIn, InRing
  <2>2. Diff(w, r) \in Nat /\ Diff(e, w) \in Nat /\ Diff(e, r) = Diff(w, r) + Diff(e, w) /\ NIn \in Nat
    BY <2>1, Sizes, Zenon DEF InFacts
  <2>3. Full <=> Diff(e, r) >= NIn
    BY Zenon DEF Full, NIn
  <2>. QED BY <2>2, <2>3, SMTT(40)
<1>. QED BY <1>1, <1>3, <1>4, <1>5, Zenon

\* As many characters are erased as there are, at most.
LEMMA ErasedIs ==
  ASSUME IInv, key \in {"U", "H"}
  PROVE  /\ Erased(key) \in 0 .. Diff(e, w) /\ Diff(e, w) \in Nat
         /\ \/ Erased(key) = Diff(e, w)
            \/ Erased(key) = 1 /\ Diff(e, w) > 0
<1>1. TypeIn /\ InRing
  BY Parts, Zenon
<1>2. InFacts
  BY <1>1, InHold, Zenon DEF TypeIn, InRing
<1>3. Diff(e, w) \in Nat
  BY <1>2, Zenon DEF InFacts
<1>4. \/ Erased(key) = Diff(e, w)
      \/ Erased(key) = 1 /\ Diff(e, w) > 0
      \/ Erased(key) = 0 /\ ~(Diff(e, w) > 0)
  BY Zenon DEF Erased, Editing
<1>. QED BY <1>3, <1>4, SMTT(40)

\* What holds for all of the ways.
LEMMA KeyDone ==
  ASSUME IInv, consoleintr, UNCHANGED scene, TypeAt', at'["intr"] = "get", \A q \in Writer : at'[q] = at[q],
         TypeIn', InRing', ReadersWait'
  PROVE  IInv'
<1>1. TypeDev /\ DeviceRoom /\ TypeReads /\ ReadsLeft
  BY Parts, Zenon
<1>2. at["intr"] = "echo" /\ UNCHANGED <<ring, txlock, reads, todo, echo, device>>
  BY KeyWays, Zenon
<1>3. /\ at["intr"] \in {"user", "get", "echo", "thr_sync"} /\ at'["intr"] \in {"get", "echo", "thr_sync"}
      /\ UNCHANGED <<ring, txlock, todo>>
  BY <1>2, Zenon
<1>4. TypeOut' /\ OutRing' /\ WritesLeft' /\ WritersWait' /\ Sending' /\ Writes' = Writes
  BY <1>3, HandlerMoves, Zenon
<1>5. rhr' = rhr /\ fifo' = fifo /\ overrun' = overrun /\ echo' = echo /\ n' = n /\ target' = target
  BY <1>2, Zenon DEF device, reads
<1>6. TypeDev'
  BY <1>1, <1>5, Zenon DEF TypeDev, ConsLocked
<1>7. Echoes' = Echoes
  BY <1>2, Zenon DEF Echoes
<1>8. DeviceRoom'
  BY <1>1, <1>4, <1>5, <1>7, ZenonT(40) DEF DeviceRoom
<1>9. TypeReads' /\ ReadsLeft'
  BY <1>1, <1>5, Zenon DEF TypeReads, ReadsLeft
<1>. QED BY <1>4, <1>6, <1>8, <1>9, Whole, Zenon

\* The handler goes on for the next character, and nobody is woken up.
LEMMA NextKey ==
  ASSUME IInv, Goto("intr", "get")
  PROVE  TypeAt' /\ at'["intr"] = "get" /\ \A q \in Proc : at'[q] = at[q]
<1>1. TypeAt
  BY Parts, Zenon
<1>2. /\ "intr" \in Proc \cup {"intr"} /\ "intr" \notin Proc /\ ("intr" \in Reader => "get" \in ReaderAt)
      /\ ("intr" \in Writer => "get" \in WriterAt) /\ ("intr" = "intr" => "get" \in HandlerAt)
  BY Ids, Zenon DEF Proc, HandlerAt
<1>3. TypeAt' /\ at'["intr"] = "get" /\ \A q \in Proc \cup {"intr"} : q # "intr" => at'[q] = at[q]
  BY <1>1, <1>2, OneMoves, Zenon
<1>. QED BY <1>2, <1>3, Zenon

\* A character is stored and handed to the readers, if it ends the line or is
\* the last there is room for.
LEMMA Stores_IInv ==
  ASSUME IInv, consoleintr, UNCHANGED scene, key \in Key, key \notin {"P", "F", "U", "H", "nul"},
         Diff(e, r) < NIn, Stores
  PROVE  IInv'
<1>1. TypeIn /\ InRing /\ TypeAt /\ ReadersWait
  BY Parts, Zenon
<1>2. Char \in Thing
  BY CharIs, Zenon
<1>3. /\ buf' = [buf EXCEPT ![e % NIn] = Char] /\ e' = (e + 1) % WRAP /\ r' = r
      /\ w' = (IF Ends(Char) THEN e' ELSE w) /\ w' \in {w, e'}
  BY Zenon DEF Stores
<1>4. /\ buf' \in [InSlot -> Thing] /\ e' \in 0 .. WRAP - 1
      /\ Diff(e', r) = Diff(e, r) + 1 /\ Diff(e', w) = Diff(e, w) + 1 /\ Diff(e', e') = 0
  BY <1>1, <1>2, <1>3, Lengthened, ZenonT(40)
<1>5. InFacts
  BY <1>1, InHold, Zenon DEF TypeIn, InRing
<1>6. /\ Diff(w, r) \in Nat /\ Diff(e, w) \in Nat /\ Diff(e, r) = Diff(w, r) + Diff(e, w) /\ NIn \in Nat
  BY <1>5, Sizes, Zenon DEF InFacts
<1>7. TypeIn'
  <2>1. w' \in 0 .. WRAP - 1
    BY <1>1, <1>3, <1>4, Zenon DEF TypeIn
  <2>. QED BY <1>1, <1>3, <1>4, <2>1, ZenonT(40) DEF TypeIn, InSlot, Thing
<1>8. InRing'
  <2>1. Diff(w', r) + Diff(e', w') <= NIn
    <3>1. CASE w' = w
      BY <1>4, <1>6, <3>1, SMTT(40)
    <3>2. CASE w' = e'
      BY <1>4, <1>6, <3>2, SMTT(40)
    <3>. QED BY <1>3, <3>1, <3>2, Zenon
  <2>2. Diff(e', r) = NIn => w' = e'
    <3>1. Diff(e', r) = NIn => Ends(Char)
      BY <1>4, Zenon DEF Ends, NIn
    <3>. QED BY <1>3, <3>1, Zenon
  <2>. QED BY <1>3, <2>1, <2>2, ZenonT(40) DEF InRing, Diff
<1>9. at \in [Proc \cup {"intr"} -> ReaderAt \cup WriterAt \cup HandlerAt]
  BY <1>1, Zenon DEF TypeAt
<1>10. /\ at'["intr"] = "get"
       /\ \A q \in Proc : at'[q] = IF at[q] = "rsleep" /\ Ends(Char) THEN "read" ELSE at[q]
  <2>1. "intr" \notin Proc
    BY Ids, Zenon DEF Proc
  <2>. QED BY <1>9, <2>1, Zenon DEF Stores, Wakes
<1>11. \A q \in Writer : at'[q] = at[q]
  <2>1. \A q \in Writer : at[q] # "rsleep" /\ q \in Proc
    BY <1>1, Zenon DEF TypeAt, WriterAt, Proc
  <2>. QED BY <1>10, <2>1, Zenon
<1>12. \A q \in Reader : at'[q] \in ReaderAt
  BY <1>1, <1>10, Zenon DEF TypeAt, ReaderAt, Proc
<1>13. TypeAt'
  <2>1. \A q \in Proc \cup {"intr"} : at'[q] \in ReaderAt \cup WriterAt \cup HandlerAt
    BY <1>9, <1>10, Zenon DEF ReaderAt, HandlerAt
  <2>2. DOMAIN at = Proc \cup {"intr"}
    BY <1>9, Zenon
  <2>3. at' \in [Proc \cup {"intr"} -> ReaderAt \cup WriterAt \cup HandlerAt]
    BY <2>1, <2>2, Zenon DEF Stores
  <2>4. (\A q \in Writer : at'[q] \in WriterAt) /\ at'["intr"] \in HandlerAt
    BY <1>1, <1>10, <1>11, ZenonT(40) DEF TypeAt, HandlerAt
  <2>. QED BY <1>12, <2>3, <2>4, ZenonT(40) DEF TypeAt, Proc
<1>14. ReadersWait'
  <2>1. CASE Ends(Char)
    <3>1. \A q \in Reader : at'[q] # "rsleep"
      BY <1>10, <2>1, Zenon DEF Proc
    <3>. QED BY <3>1, Zenon DEF ReadersWait
  <2>2. CASE ~Ends(Char)
    <3>1. r' = r /\ w' = w /\ \A q \in Reader : at'[q] = at[q]
      BY <1>3, <1>10, <2>2, Zenon DEF Proc
    <3>. QED BY <1>1, <3>1, Zenon DEF ReadersWait
  <2>. QED BY <2>1, <2>2, Zenon
<1>. QED BY <1>7, <1>8, <1>10, <1>11, <1>13, <1>14, KeyDone, ZenonT(40)

\* Every way through consoleintr preserves the invariant.
LEMMA consoleintr_IInv ==
  ASSUME IInv, consoleintr, UNCHANGED scene
  PROVE  IInv'
<1>1. /\ key \in Key
      /\ \/ Ignores
         \/ key \in {"U", "H"} /\ Shortens(Erased(key))
         \/ /\ key \notin {"P", "F", "U", "H", "nul"} /\ Diff(e, r) < NIn /\ Stores
  BY KeyWays, Zenon
<1>2. TypeIn /\ InRing /\ ReadersWait
  BY Parts, Zenon
<1>3. CASE Ignores
  <2>1. UNCHANGED cons /\ Goto("intr", "get")
    BY <1>3, Zenon DEF Ignores
  <2>2. TypeAt' /\ at'["intr"] = "get" /\ \A q \in Proc : at'[q] = at[q]
    BY <2>1, NextKey, Zenon
  <2>3. /\ scene' = scene /\ buf' = buf /\ r' = r /\ w' = w /\ e' = e
        /\ (\A q \in Writer : at'[q] = at[q]) /\ (\A q \in Reader : at'[q] = at[q])
    BY <2>1, <2>2, Zenon DEF cons, Proc
  <2>4. TypeIn' /\ InRing' /\ ReadersWait'
    BY <1>2, <2>3, Zenon DEF TypeIn, InRing, ReadersWait, Diff, InSlot, Thing
  <2>. QED BY <2>2, <2>3, <2>4, KeyDone, ZenonT(40)
<1>4. CASE key \in {"U", "H"} /\ Shortens(Erased(key))
  <2>1. e' = (e - Erased(key)) % WRAP /\ Goto("intr", "get") /\ UNCHANGED <<buf, r, w>>
    BY <1>4, Zenon DEF Shortens
  <2>2. TypeAt' /\ at'["intr"] = "get" /\ \A q \in Proc : at'[q] = at[q]
    BY <2>1, NextKey, Zenon
  <2>3. Erased(key) \in 0 .. Diff(e, w) /\ Diff(e, w) \in Nat
    BY <1>4, ErasedIs, Zenon
  <2>4. PICK z \in 0 .. Diff(e, w) : z = Erased(key)
    BY <2>3, Zenon
  <2>5. e' \in 0 .. WRAP - 1 /\ Diff(e', w) = Diff(e, w) - z /\ Diff(e', r) = Diff(e, r) - z
    BY <1>2, <2>1, <2>4, Shortened, Zenon
  <2>6. InFacts
    BY <1>2, InHold, Zenon DEF TypeIn, InRing
  <2>7. /\ Diff(w, r) \in Nat /\ Diff(e, r) = Diff(w, r) + Diff(e, w) /\ NIn \in Nat \ {0}
        /\ Diff(w, r) + Diff(e, w) <= NIn /\ WRAP \in Nat \ {0}
    BY <2>6, Sizes, Zenon DEF InFacts
  <2>8. Diff(w, r) + Diff(e', w) <= NIn
    BY <2>3, <2>5, <2>7, SMTT(40)
  <2>9. ASSUME Diff(e', r) = NIn PROVE w = e'
    <3>1. z = 0 /\ Diff(e, r) = NIn
      BY <2>3, <2>5, <2>7, <2>9, SMTT(40)
    <3>2. e' = e
      <4>1. e \in 0 .. WRAP - 1
        BY <1>2, Zenon DEF TypeIn
      <4>2. (e - 0) % WRAP = e
        BY <2>7, <4>1, Still, Zenon
      <4>. QED BY <2>1, <2>4, <3>1, <4>2, ZenonT(40)
    <3>. QED BY <1>2, <3>1, <3>2, Zenon DEF InRing
  <2>10. InRing'
    BY <2>1, <2>8, <2>9, ZenonT(40) DEF InRing, Diff
  <2>11. TypeIn'
    BY <1>2, <2>1, <2>5, Zenon DEF TypeIn, InSlot, Thing
  <2>12. (\A q \in Writer : at'[q] = at[q]) /\ (\A q \in Reader : at'[q] = at[q])
    BY <2>2, Zenon DEF Proc
  <2>13. ReadersWait'
    BY <1>2, <2>1, <2>12, Zenon DEF ReadersWait
  <2>. QED BY <2>2, <2>10, <2>11, <2>12, <2>13, KeyDone, ZenonT(40)
<1>5. CASE key \notin {"P", "F", "U", "H", "nul"} /\ Diff(e, r) < NIn /\ Stores
  BY <1>1, <1>5, Stores_IInv, Zenon
<1>. QED BY <1>1, <1>3, <1>4, <1>5, Zenon

-----------------------------------------------------------------------------
(* The invariant holds.                                                    *)

\* After consoleinit and uartinit both rings are empty and nobody waits.
LEMMA Init_IInv == Init => IInv
<1> SUFFICES ASSUME Init PROVE IInv
  BY Zenon
<1>1. /\ NIn \in Nat \ {0} /\ NOut \in Nat \ {0} /\ WRAP \in Nat \ {0} /\ TX_WRAP \in Nat \ {0}
      /\ 0 \in 0 .. WRAP - 1 /\ 0 \in 0 .. TX_WRAP - 1 /\ 0 \in Nat /\ 0 + 0 <= NIn /\ 0 <= NOut /\ 0 # NIn
      /\ 0 <= 0 /\ 0 + 0 + 0 <= 2
  BY Sizes, SMTT(40)
<1>2. /\ scene \in Scene /\ r = 0 /\ w = 0 /\ e = 0 /\ tx_r = 0 /\ tx_w = 0 /\ txlock = "none"
      /\ buf = [i \in InSlot |-> "nul"] /\ tx = [i \in OutSlot |-> "nul"]
      /\ at = [t \in Proc \cup {"intr"} |-> "user"] /\ n = [p \in Reader |-> 0] /\ target = n
      /\ todo = [p \in Writer |-> <<>>] /\ echo = 0 /\ rhr = "none" /\ fifo = 0 /\ overrun = FALSE
  BY Zenon DEF Init
<1>3. Diff(w, r) = 0 /\ Diff(e, w) = 0 /\ Diff(e, r) = 0 /\ TxLen = 0
  BY <1>1, <1>2, Still, Zenon DEF Diff, TxLen
<1>4. \A t \in Proc \cup {"intr"} : at[t] = "user"
  BY <1>2, Zenon
<1>5. (\A p \in Reader : at[p] = "user") /\ (\A p \in Writer : at[p] = "user") /\ at["intr"] = "user"
  BY <1>4, Zenon DEF Proc
<1>6. \A t \in Thread : at[t] = "user" /\ t # "none"
  BY <1>5, Ids, Zenon DEF Thread
<1>7. TypeIn /\ TypeOut
  <2>1. "nul" \in Thing
    BY Zenon DEF Thing
  <2>2. "nul" \in Letter
    BY Zenon DEF Letter
  <2>. QED BY <1>1, <1>2, <2>1, <2>2, Zenon DEF TypeIn, TypeOut
<1>8. TypeReads /\ ReadsLeft
  BY <1>1, <1>2, Zenon DEF TypeReads, ReadsLeft
<1>9. TypeAt
  BY <1>2, <1>5, Zenon DEF TypeAt, ReaderAt, WriterAt, HandlerAt
<1>10. TypeDev
  BY <1>1, <1>2, <1>5, Zenon DEF TypeDev, ConsLocked
<1>11. InRing /\ OutRing
  BY <1>1, <1>3, Zenon DEF InRing, OutRing
<1>12. WritesLeft
  <2>1. <<>> \in Seq(Letter)
    BY NoBytes, Zenon
  <2>. QED BY <1>2, <1>5, <2>1, Zenon DEF WritesLeft
<1>13. ReadersWait /\ WritersWait
  BY <1>5, Zenon DEF ReadersWait, WritersWait
<1>14. Sending
  BY <1>2, <1>6, Zenon DEF Sending
<1>15. DeviceRoom
  <2>1. Writes = 0 /\ Echoes = 0
    BY <1>5, <1>6, Zenon DEF Writes, Echoes
  <2>. QED BY <1>1, <1>2, <2>1, Zenon DEF DeviceRoom
<1>. QED BY <1>7, <1>8, <1>9, <1>10, <1>11, <1>12, <1>13, <1>14, <1>15, ZenonT(40) DEF IInv, TypeOK

\* The writers and the handler take part in uartstart.
LEMMA Threads == "intr" \in Thread /\ \A p \in Writer : p \in Thread
BY Zenon DEF Thread

\* What a step is.
LEMMA Steps ==
  ASSUME Next
  PROVE  /\ UNCHANGED scene
         /\ \/ \E p \in Reader : sys_read(p) \/ consoleread(p) \/ kill(p)
            \/ \E p \in Writer : sys_write(p) \/ consolewrite_bad(p) \/ uartputc_full(p) \/ uartputc(p)
            \/ \E t \in Thread : uartstart_return(t) \/ uartstart(t) \/ uartstart_send(t)
            \/ uartintr \/ uartgetc \/ uartputc_sync \/ uartputc_sync_thr \/ consoleintr \/ uartintr_send
            \/ Receive \/ Transmit
BY Threads, Zenon DEF Next, ReaderStep, Put, Start, Handler

\* Nothing changes.
LEMMA Stutter_IInv ==
  ASSUME IInv, UNCHANGED <<scene, vars>>
  PROVE  IInv'
<1>1. /\ UNCHANGED <<scene, cons, reads>> /\ UNCHANGED ring /\ at' = at
      /\ UNCHANGED <<ring, txlock, todo, intr, device>>
  BY Zenon DEF vars
<1>2. /\ TypeIn' /\ TypeReads' /\ InRing' /\ ReadsLeft' /\ ReadersWait'
  BY <1>1, ReadersStay, Zenon
<1>3. TypeOut' /\ TypeDev' /\ OutRing' /\ WritesLeft' /\ WritersWait' /\ Sending' /\ DeviceRoom'
  BY <1>1, ThreadsStay, Zenon
<1>4. TypeAt
  BY Parts, Zenon
<1>5. TypeAt'
  BY <1>1, <1>4, Zenon DEF TypeAt, Proc
<1>. QED BY <1>2, <1>3, <1>5, Whole, Zenon

\* Every step preserves the invariant.
LEMMA Step_IInv == IInv /\ [Next]_<<scene, vars>> => IInv'
<1> SUFFICES ASSUME IInv, [Next]_<<scene, vars>> PROVE IInv'
  BY Zenon
<1>1. CASE UNCHANGED <<scene, vars>>
  BY <1>1, Stutter_IInv, Zenon
<1>2. CASE Next
  <2>1. /\ UNCHANGED scene
        /\ \/ \E p \in Reader : sys_read(p) \/ consoleread(p) \/ kill(p)
           \/ \E p \in Writer : sys_write(p) \/ consolewrite_bad(p) \/ uartputc_full(p) \/ uartputc(p)
           \/ \E t \in Thread : uartstart_return(t) \/ uartstart(t) \/ uartstart_send(t)
           \/ uartintr \/ uartgetc \/ uartputc_sync \/ uartputc_sync_thr \/ consoleintr \/ uartintr_send
           \/ Receive \/ Transmit
    BY <1>2, Steps, Zenon
  <2>2. CASE \E p \in Reader : sys_read(p) \/ consoleread(p) \/ kill(p)
    BY <2>1, <2>2, sys_read_IInv, consoleread_IInv, kill_IInv, ZenonT(40)
  <2>3. CASE \E p \in Writer : sys_write(p) \/ consolewrite_bad(p) \/ uartputc_full(p) \/ uartputc(p)
    BY <2>1, <2>3, sys_write_IInv, consolewrite_bad_IInv, uartputc_full_IInv, uartputc_IInv, ZenonT(40)
  <2>4. CASE \E t \in Thread : uartstart_return(t) \/ uartstart(t) \/ uartstart_send(t)
    BY <2>1, <2>4, uartstart_return_IInv, uartstart_IInv, uartstart_send_IInv, ZenonT(40)
  <2>5. CASE uartintr \/ uartgetc \/ uartputc_sync \/ uartputc_sync_thr \/ consoleintr \/ uartintr_send
    BY <2>1, <2>5, uartintr_IInv, uartgetc_IInv, uartputc_sync_IInv, uartputc_sync_thr_IInv, consoleintr_IInv,
       uartintr_send_IInv, ZenonT(40)
  <2>6. CASE Receive \/ Transmit
    BY <2>1, <2>6, Device_IInv, Zenon
  <2>. QED BY <2>1, <2>2, <2>3, <2>4, <2>5, <2>6, ZenonT(40)
<1>. QED BY <1>1, <1>2, Zenon

\* The rings hold what the counters say, in this order; a sleeper has something
\* to wait for; at most two characters are at the device or on their way to it.
THEOREM ConsoleInvariant == Spec => []IInv
BY Init_IInv, Step_IInv, PTL DEF Spec

\* No reader sleeps while there is a line for it, no writer while there is room,
\* and a full cons.buf has been handed to the readers.
THEOREM ConsoleNoLostWakeup == Spec => []NoLostWakeup
<1>1. IInv => NoLostWakeup
  BY Enough, Zenon
<1>. QED BY <1>1, ConsoleInvariant, PTL

\* Echo and uartstart, which do not exclude each other, never write to a full
\* device.
THEOREM ConsoleNoOverrun == Spec => []NoOverrun
<1>1. IInv => NoOverrun
  BY Enough, Zenon
<1>. QED BY <1>1, ConsoleInvariant, PTL

-----------------------------------------------------------------------------
(* cons.buf implements Lines.                                              *)

\* What the lines are made of.
LEMMA LinesAre ==
  ASSUME IInv
  PROVE  /\ Ready \in Seq(Thing) /\ Between(w, e) \in Seq(Thing)
         /\ Len(Ready) = Diff(w, r) /\ Len(Between(w, e)) = Diff(e, w)
         /\ Diff(w, r) \in Nat /\ Diff(e, w) \in Nat /\ Diff(e, r) = Diff(w, r) + Diff(e, w)
<1>1. TypeIn /\ InRing
  BY Parts, Zenon
<1>2. InFacts
  BY <1>1, InHold, Zenon DEF TypeIn, InRing
<1>. QED BY <1>2, Zenon DEF InFacts

\* Facts about sequences and numbers the steps of Lines need.
LEMMA NothingTaken ==
  ASSUME NEW T, NEW s \in Seq(T)
  PROVE  /\ Len(s) \in Nat /\ 0 \in 0 .. Len(s) /\ 0 + 0 <= Len(s) /\ 0 \in {0, 1} /\ 0 # 1 /\ (1 .. 0) = {}
         /\ <<>> = SubSeq(s, 1, 0) /\ s = SubSeq(s, 0 + 0 + 1, Len(s)) /\ s = SubSeq(s, 0 + 1, Len(s))
         /\ SubSeq(s, 1, Len(s) - Len(s)) = <<>> /\ s \o <<>> = s
OBVIOUS

\* One element more.
LEMMA OneMore ==
  ASSUME NEW T, NEW s \in Seq(T), NEW x \in T
  PROVE  Append(s, x) = s \o <<x>>
OBVIOUS

\* Nothing is between an index and itself.
LEMMA EmptyPart ==
  ASSUME NEW a, Diff(a, a) = 0
  PROVE  Between(a, a) = <<>>
<1>1. (1 .. 0) = {}
  BY SMTT(40)
<1>. QED BY <1>1, SMTT(40) DEF Between

\* A step that leaves cons alone is a read of Lines that takes nothing.
LEMMA IdleLines ==
  ASSUME IInv, UNCHANGED cons, given' = <<>>
  PROVE  L!LNext
<1>1. Ready \in Seq(Thing)
  BY LinesAre, Zenon
<1>2. buf' = buf /\ r' = r /\ w' = w /\ e' = e
  BY Zenon DEF cons
<1>3. Ready' = Ready /\ Between(w, e)' = Between(w, e)
  BY <1>2, Zenon DEF Ready, Between, Diff
<1>4. /\ 0 \in 0 .. Len(Ready) /\ 0 + 0 <= Len(Ready) /\ 0 \in {0, 1} /\ 0 # 1 /\ (1 .. 0) = {}
      /\ <<>> = SubSeq(Ready, 1, 0) /\ Ready = SubSeq(Ready, 0 + 0 + 1, Len(Ready))
  BY <1>1, NothingTaken, Zenon
<1>5. given' = SubSeq(Ready, 1, 0) /\ Ready' = SubSeq(Ready, 0 + 0 + 1, Len(Ready))
  BY <1>3, <1>4, Zenon
<1>6. L!LRead
  BY <1>3, <1>4, <1>5, ZenonT(40) DEF L!LRead
<1>. QED BY <1>6, Zenon DEF L!LNext

\* A read of the console is a read of Lines.
LEMMA ReadLines ==
  ASSUME IInv, NEW p \in Reader, consoleread(p)
  PROVE  L!LNext
<1>1. PICK k \in 0 .. Len(Ready), lost \in {0, 1}, l \in {"user", "rsleep"} :
        /\ k + lost <= Len(Ready) /\ k <= n[p] /\ (l = "rsleep" => k + lost = Len(Ready))
        /\ \A i \in 1 .. k : Ready[i] \in Enders => i = k /\ lost = 0 /\ Ready[i] = "nl"
        /\ lost = 1 /\ Ready[k + 1] = "D" => k = 0
        /\ Take(p, k + lost, k, l)
  BY ReadTakes, Zenon
<1>2. TypeIn /\ InRing
  BY Parts, Zenon
<1>3. Len(Ready) = Diff(w, r) /\ Diff(w, r) \in Nat
  BY LinesAre, Zenon
<1>4. k + lost \in 0 .. Diff(w, r)
  BY <1>1, <1>3, SMTT(40)
<1>5. r' = (r + (k + lost)) % WRAP /\ UNCHANGED <<buf, w, e>> /\ given' = SubSeq(Ready, 1, k)
  BY <1>1, Zenon DEF Take
<1>6. Ready' = SubSeq(Ready, k + lost + 1, Len(Ready)) /\ Between(w, e)' = Between(w, e)
  BY <1>2, <1>4, <1>5, Taken, ZenonT(40)
<1>7. \A i \in 1 .. k : Ready[i] \in L!Enders => i = k /\ lost = 0 /\ Ready[i] = "nl"
  BY <1>1, Zenon DEF L!Enders, Enders
<1>8. L!LRead
  BY <1>1, <1>5, <1>6, <1>7, Zenon DEF L!LRead
<1>. QED BY <1>8, Zenon DEF L!LNext

\* A character that is stored is one that Lines stores.
LEMMA StoreLines ==
  ASSUME IInv, key \in Key, key \notin {"P", "F", "U", "H", "nul"}, Diff(e, r) < NIn, Stores, given' = <<>>
  PROVE  L!LNext
<1>1. TypeIn /\ InRing
  BY Parts, Zenon
<1>2. Char \in Thing /\ Char \in Stored
  BY CharIs, Zenon
<1>3. /\ buf' = [buf EXCEPT ![e % NIn] = Char] /\ e' = (e + 1) % WRAP /\ r' = r
      /\ w' = (IF Ends(Char) THEN e' ELSE w) /\ w' \in {w, e'}
  BY Zenon DEF Stores
<1>4. /\ w' = w => Ready' = Ready /\ Between(w, e)' = Append(Between(w, e), Char)
      /\ w' = e' => Ready' = Append(Ready \o Between(w, e), Char) /\ Between(w, e)' = <<>>
  BY <1>1, <1>2, <1>3, Lengthened, ZenonT(40)
<1>5. /\ Ready \in Seq(Thing) /\ Between(w, e) \in Seq(Thing)
      /\ Diff(e, r) = Len(Ready) + Len(Between(w, e))
  BY LinesAre, Zenon
<1>6. Len(Ready) + Len(Between(w, e)) < INPUT_BUF_SIZE
  BY <1>5, Zenon DEF NIn
<1>7. Ends(Char) <=> Char \in L!Enders \/ Len(Ready) + Len(Between(w, e)) + 1 = INPUT_BUF_SIZE
  BY <1>5, Zenon DEF Ends, L!Enders, Enders
<1>8. L!LType(Char)
  <2>1. CASE Ends(Char)
    <3>1. Ready \o Between(w, e) \in Seq(Thing)
      BY <1>5, BothParts, Zenon
    <3>2. Append(Ready \o Between(w, e), Char) = Ready \o Between(w, e) \o <<Char>>
      BY <1>2, <3>1, OneMore, Zenon
    <3>3. Ready' = Ready \o Between(w, e) \o <<Char>> /\ Between(w, e)' = <<>>
      BY <1>3, <1>4, <2>1, <3>2, ZenonT(40)
    <3>. QED BY <1>6, <1>7, <2>1, <3>3, ZenonT(40) DEF L!LType
  <2>2. CASE ~Ends(Char)
    <3>1. Ready' = Ready /\ Between(w, e)' = Append(Between(w, e), Char)
      BY <1>3, <1>4, <2>2, Zenon
    <3>. QED BY <1>6, <1>7, <2>2, <3>1, ZenonT(40) DEF L!LType
  <2>. QED BY <2>1, <2>2, Zenon
<1>. QED BY <1>2, <1>8, Zenon DEF L!LNext

\* What a key does is what Lines allows.
LEMMA KeyLines ==
  ASSUME IInv, consoleintr
  PROVE  L!LNext
<1>1. /\ key \in Key /\ given' = <<>>
      /\ \/ Ignores
         \/ key \in {"U", "H"} /\ Shortens(Erased(key))
         \/ /\ key \notin {"P", "F", "U", "H", "nul"} /\ Diff(e, r) < NIn /\ Stores
  BY KeyWays, Zenon
<1>2. TypeIn /\ InRing
  BY Parts, Zenon
<1>3. CASE Ignores
  BY <1>1, <1>3, IdleLines, Zenon DEF Ignores
<1>4. CASE key \in {"U", "H"} /\ Shortens(Erased(key))
  <2>1. e' = (e - Erased(key)) % WRAP /\ UNCHANGED <<buf, r, w>>
    BY <1>4, Zenon DEF Shortens
  <2>2. /\ Erased(key) \in 0 .. Diff(e, w)
        /\ \/ Erased(key) = Diff(e, w)
           \/ Erased(key) = 1 /\ Diff(e, w) > 0
    BY <1>4, ErasedIs, Zenon
  <2>3. Ready' = Ready /\ Between(w, e)' = SubSeq(Between(w, e), 1, Len(Between(w, e)) - Erased(key))
    BY <1>2, <2>1, <2>2, Shortened, ZenonT(40)
  <2>4. Between(w, e) \in Seq(Thing) /\ Len(Between(w, e)) = Diff(e, w) /\ Diff(e, w) \in Nat
    BY LinesAre, Zenon
  <2>5. CASE Erased(key) = Diff(e, w)
    <3>1. SubSeq(Between(w, e), 1, Len(Between(w, e)) - Len(Between(w, e))) = <<>>
      BY <2>4, NothingTaken, Zenon
    <3>2. Between(w, e)' = <<>>
      BY <2>3, <2>4, <2>5, <3>1, ZenonT(40)
    <3>3. L!LKill
      BY <1>1, <2>3, <3>2, Zenon DEF L!LKill
    <3>. QED BY <3>3, Zenon DEF L!LNext
  <2>6. CASE Erased(key) = 1 /\ Diff(e, w) > 0
    <3>1. Between(w, e) # <<>>
      <4>1. Len(<<>>) = 0 /\ ~(0 > 0)
        BY SMTT(40)
      <4>. QED BY <2>4, <2>6, <4>1, Zenon
    <3>2. L!LErase
      BY <1>1, <2>3, <2>6, <3>1, ZenonT(40) DEF L!LErase
    <3>. QED BY <3>2, Zenon DEF L!LNext
  <2>. QED BY <2>2, <2>5, <2>6, Zenon
<1>5. CASE key \notin {"P", "F", "U", "H", "nul"} /\ Diff(e, r) < NIn /\ Stores
  BY <1>1, <1>5, StoreLines, Zenon
<1>. QED BY <1>1, <1>3, <1>4, <1>5, ZenonT(40)

\* The steps other than consoleread and consoleintr leave cons alone.
LEMMA OtherLines ==
  ASSUME \/ \E p \in Reader : sys_read(p) \/ kill(p)
         \/ \E p \in Writer : sys_write(p) \/ consolewrite_bad(p) \/ uartputc_full(p) \/ uartputc(p)
         \/ \E t \in Thread : uartstart_return(t) \/ uartstart(t) \/ uartstart_send(t)
         \/ uartintr \/ uartgetc \/ uartputc_sync \/ uartputc_sync_thr \/ uartintr_send
         \/ Receive \/ Transmit
  PROVE  UNCHANGED cons /\ given' = <<>>
<1>1. ASSUME \E p \in Reader : sys_read(p) \/ kill(p) PROVE UNCHANGED cons /\ given' = <<>>
  BY <1>1, Zenon DEF sys_read, kill, Quiet
<1>2. ASSUME \E p \in Writer : sys_write(p) \/ consolewrite_bad(p) \/ uartputc_full(p) \/ uartputc(p)
      PROVE  UNCHANGED cons /\ given' = <<>>
  BY <1>2, Zenon DEF sys_write, consolewrite_bad, uartputc_full, uartputc, Quiet
<1>3. ASSUME \E t \in Thread : uartstart_return(t) \/ uartstart(t) \/ uartstart_send(t)
      PROVE  UNCHANGED cons /\ given' = <<>>
  BY <1>3, Zenon DEF uartstart_return, uartstart, uartstart_send, Quiet
<1>4. ASSUME uartintr \/ uartgetc \/ uartputc_sync \/ uartputc_sync_thr \/ uartintr_send
      PROVE  UNCHANGED cons /\ given' = <<>>
  BY <1>4, Zenon DEF uartintr, uartgetc, uartputc_sync, uartputc_sync_thr, uartintr_send, Quiet
<1>5. ASSUME Receive \/ Transmit PROVE UNCHANGED cons /\ given' = <<>>
  BY <1>5, Zenon DEF Receive, Transmit, Quiet
<1>. QED BY <1>1, <1>2, <1>3, <1>4, <1>5, ZenonT(40)

\* Every step of the console is a step of Lines or changes nothing that Lines
\* speaks of.
LEMMA LinesStep == IInv /\ [Next]_<<scene, vars>> => [L!LNext]_(L!lvars)
<1> SUFFICES ASSUME IInv, [Next]_<<scene, vars>> PROVE [L!LNext]_(L!lvars)
  BY Zenon
<1>1. CASE UNCHANGED <<scene, vars>>
  <2>1. buf' = buf /\ r' = r /\ w' = w /\ e' = e /\ given' = given
    BY <1>1, Zenon DEF vars, cons
  <2>2. Ready' = Ready /\ Between(w, e)' = Between(w, e)
    BY <2>1, Zenon DEF Ready, Between, Diff
  <2>. QED BY <2>1, <2>2, Zenon DEF L!lvars
<1>2. CASE Next
  <2>1. CASE \E p \in Reader : consoleread(p)
    BY <2>1, ReadLines, Zenon
  <2>2. CASE consoleintr
    BY <2>2, KeyLines, Zenon
  <2>3. CASE UNCHANGED cons /\ given' = <<>>
    BY <2>3, IdleLines, Zenon
  <2>. QED BY <1>2, <2>1, <2>2, <2>3, Steps, OtherLines, ZenonT(40)
<1>. QED BY <1>1, <1>2, Zenon

\* cons.buf implements the line discipline of module Lines: lines are edited
\* until they are ended, and read in order, one at most by each read.
THEOREM ConsoleImplementsLines == Spec => LineDiscipline
<1>1. Init => L!LInit
  <2>. SUFFICES ASSUME Init PROVE L!LInit
    BY Zenon
  <2>1. r = 0 /\ w = 0 /\ e = 0 /\ given = <<>>
    BY Zenon DEF Init
  <2>2. Diff(0, 0) = 0
    <3>1. WRAP \in Nat \ {0} /\ 0 \in 0 .. WRAP - 1
      BY Sizes, SMTT(40)
    <3>. QED BY <3>1, Still, Zenon DEF Diff
  <2>3. Ready = <<>> /\ Between(w, e) = <<>>
    BY <2>1, <2>2, EmptyPart, Zenon DEF Ready
  <2>. QED BY <2>1, <2>3, Zenon DEF L!LInit
<1>. QED BY <1>1, LinesStep, ConsoleInvariant, PTL DEF Spec, LineDiscipline, L!LSpec

-----------------------------------------------------------------------------
(* uart_tx_buf implements Stream.                                          *)

\* What the queue is made of.
LEMMA QueueIs ==
  ASSUME IInv
  PROVE  TypeOut /\ OutRing /\ TxQueue \in Seq(Letter) /\ Len(TxQueue) = TxLen /\ TxLen \in Nat
<1>1. TypeOut /\ OutRing
  BY Parts, Zenon
<1>2. OutFacts
  BY <1>1, OutHold, Zenon DEF TypeOut, OutRing
<1>. QED BY <1>1, <1>2, Zenon DEF OutFacts

\* A step that leaves the ring and the writers alone is a read of Stream that
\* takes nothing.
LEMMA IdleStream ==
  ASSUME IInv, UNCHANGED <<ring, todo>>, sent' = <<>>
  PROVE  S!SNext
<1>1. TxQueue \in Seq(Letter)
  BY QueueIs, Zenon
<1>2. TxQueue' = TxQueue /\ todo' = todo
  BY SameOut, Zenon
<1>3. /\ 0 \in 0 .. Len(TxQueue) /\ 0 + 0 <= Len(TxQueue) /\ 0 \in {0}
      /\ <<>> = SubSeq(TxQueue, 1, 0) /\ TxQueue = SubSeq(TxQueue, 0 + 0 + 1, Len(TxQueue))
  BY <1>1, NothingTaken, Zenon
<1>4. sent' = S!Take(TxQueue, 0) /\ TxQueue' = S!Drop(TxQueue, 0 + 0)
  BY <1>2, <1>3, Zenon DEF S!Take, S!Drop
<1>5. S!SRead
  BY <1>2, <1>3, <1>4, Zenon DEF S!SRead
<1>. QED BY <1>5, Zenon DEF S!SNext

\* A write begins.
LEMMA StartStream ==
  ASSUME IInv, scene \in Scene, NEW p \in Writer, sys_write(p)
  PROVE  S!SNext
<1>1. TxQueue' = TxQueue /\ sent' = <<>> /\ at[p] = "user"
  BY SameOut, Zenon DEF sys_write, Quiet
<1>2. todo[p] = <<>>
  BY <1>1, Parts, Zenon DEF WritesLeft
<1>3. \E m \in Message : todo' = [todo EXCEPT ![p] = m]
  BY Scenes, Zenon DEF sys_write
<1>4. S!SStart(p)
  BY <1>1, <1>2, <1>3, Zenon DEF S!SStart
<1>. QED BY <1>4, Zenon DEF S!SNext

\* Numbers and sequences of a write.
LEMMA PutNothing ==
  ASSUME NEW T, NEW s \in Seq(T), NEW q \in Seq(T), NEW c \in Nat, Len(q) <= c
  PROVE  0 \in 0 .. Len(s) /\ Len(q) + 0 <= c /\ q = q \o SubSeq(s, 1, 0)
OBVIOUS

\* Numbers of a write of one character.
LEMMA PutOneFits ==
  ASSUME NEW m \in Nat, NEW l \in Nat, NEW c \in Nat, l < c, m # 0
  PROVE  1 \in 0 .. m /\ l + 1 <= c /\ 1 + 1 = 2
OBVIOUS

\* A write gives up.
LEMMA BadStream ==
  ASSUME IInv, NEW p \in Writer, consolewrite_bad(p)
  PROVE  S!SNext
<1>1. TxQueue' = TxQueue /\ sent' = <<>> /\ todo' = [todo EXCEPT ![p] = <<>>]
  BY SameOut, Zenon DEF consolewrite_bad, Quiet
<1>2. TxQueue \in Seq(Letter) /\ Len(TxQueue) <= NOut /\ NOut \in Nat
  BY QueueIs, Sizes, Zenon DEF OutRing
<1>3. todo[p] \in Seq(Letter)
  BY Parts, Zenon DEF WritesLeft
<1>4. 0 \in 0 .. Len(todo[p]) /\ Len(TxQueue) + 0 <= NOut /\ TxQueue = TxQueue \o SubSeq(todo[p], 1, 0)
  BY <1>2, <1>3, PutNothing, Zenon
<1>5. S!SWrite(p)
  <2>1. Len(TxQueue) + 0 <= UART_TX_BUF_SIZE /\ TxQueue' = TxQueue \o S!Take(todo[p], 0)
    BY <1>1, <1>4, Zenon DEF NOut, S!Take
  <2>2. \E rest \in {S!Drop(todo[p], 0), <<>>} : todo' = [todo EXCEPT ![p] = rest]
    BY <1>1, Zenon
  <2>. QED BY <1>1, <1>4, <2>1, <2>2, ZenonT(40) DEF S!SWrite
<1>. QED BY <1>5, Zenon DEF S!SNext

\* A character of a write is put into the ring.
LEMMA PutStream ==
  ASSUME IInv, NEW p \in Writer, uartputc(p)
  PROVE  S!SNext
<1>1. /\ at[p] = "put" /\ ~TxFull /\ tx' = [tx EXCEPT ![tx_w % UART_TX_BUF_SIZE] = Head(todo[p])]
      /\ tx_w' = (tx_w + 1) % TX_WRAP /\ tx_r' = tx_r
      /\ todo' = [todo EXCEPT ![p] = Tail(todo[p])] /\ sent' = <<>>
  BY Zenon DEF uartputc, Quiet
<1>2. todo[p] \in Seq(Letter) /\ todo[p] # <<>>
  BY <1>1, Parts, Zenon DEF WritesLeft
<1>3. Head(todo[p]) \in Letter /\ Len(todo[p]) # 0
  BY <1>2, FrontOf, Zenon
<1>4. /\ SubSeq(todo[p], 1, 1) = <<Head(todo[p])>>
      /\ Tail(todo[p]) = SubSeq(todo[p], 2, Len(todo[p])) /\ Len(todo[p]) \in Nat
  BY <1>2, <1>3, OneOf, NoneAndAll, ZenonT(40)
<1>5. TypeOut /\ OutRing /\ TxLen # NOut
  BY <1>1, Parts, Zenon DEF TxFull, NOut
<1>6. TxLen < NOut /\ TxQueue' = Append(TxQueue, Head(todo[p]))
  BY <1>1, <1>3, <1>5, PutIn, ZenonT(40) DEF NOut
<1>7. TxQueue \in Seq(Letter) /\ Len(TxQueue) = TxLen /\ TxLen \in Nat /\ NOut \in Nat
  BY QueueIs, Sizes, Zenon
<1>8. TxQueue' = TxQueue \o <<Head(todo[p])>>
  BY <1>3, <1>6, <1>7, OneMore, ZenonT(40)
<1>9. 1 \in 0 .. Len(todo[p]) /\ TxLen + 1 <= NOut /\ 1 + 1 = 2
  BY <1>3, <1>4, <1>6, <1>7, PutOneFits, ZenonT(40)
<1>10. S!SWrite(p)
  <2>1. Len(TxQueue) + 1 <= UART_TX_BUF_SIZE /\ TxQueue' = TxQueue \o S!Take(todo[p], 1)
    BY <1>4, <1>7, <1>8, <1>9, ZenonT(40) DEF NOut, S!Take
  <2>2. Tail(todo[p]) = S!Drop(todo[p], 1)
    BY <1>4, <1>9, Zenon DEF S!Drop
  <2>3. \E rest \in {S!Drop(todo[p], 1), <<>>} : todo' = [todo EXCEPT ![p] = rest]
    BY <1>1, <2>2, Zenon
  <2>. QED BY <1>1, <1>9, <2>1, <2>3, ZenonT(40) DEF S!SWrite
<1>. QED BY <1>10, Zenon DEF S!SNext

\* Numbers of a read of one character.
LEMMA TakeOneFits ==
  /\ 0 \in {0} /\ 1 + 0 + 1 = 2
  /\ \A m \in Nat : 1 \in 0 .. m => 1 + 0 <= m
OBVIOUS

\* A character goes to the device.
LEMMA SendStream ==
  ASSUME IInv, NEW t \in Thread, uartstart_send(t)
  PROVE  S!SNext
<1>1. /\ at[t] = "thr" /\ sent' = <<tx[tx_r % UART_TX_BUF_SIZE]>> /\ tx_r' = (tx_r + 1) % TX_WRAP
      /\ UNCHANGED <<tx, tx_w>> /\ todo' = todo
  BY Zenon DEF uartstart_send
<1>2. TypeOut /\ OutRing /\ tx_w # tx_r
  BY <1>1, Parts, Zenon DEF Sending
<1>3. /\ 1 \in 0 .. Len(TxQueue) /\ TxQueue' = SubSeq(TxQueue, 2, Len(TxQueue))
      /\ <<tx[tx_r % NOut]>> = SubSeq(TxQueue, 1, 1)
  BY <1>1, <1>2, TakenOut, Zenon
<1>4. Len(TxQueue) \in Nat
  BY QueueIs, Zenon
<1>5. 0 \in {0} /\ 1 + 0 <= Len(TxQueue) /\ 1 + 0 + 1 = 2
  BY <1>3, <1>4, TakeOneFits, Zenon
<1>6. sent' = S!Take(TxQueue, 1) /\ TxQueue' = S!Drop(TxQueue, 1 + 0)
  BY <1>1, <1>3, <1>5, Zenon DEF NOut, S!Take, S!Drop
<1>7. S!SRead
  BY <1>1, <1>3, <1>5, <1>6, Zenon DEF S!SRead
<1>. QED BY <1>7, Zenon DEF S!SNext

\* The other steps leave the ring and the writers alone.
LEMMA OtherStream ==
  ASSUME \/ \E p \in Reader : sys_read(p) \/ consoleread(p) \/ kill(p)
         \/ \E p \in Writer : uartputc_full(p)
         \/ \E t \in Thread : uartstart_return(t) \/ uartstart(t)
         \/ uartintr \/ uartgetc \/ uartputc_sync \/ uartputc_sync_thr \/ consoleintr \/ uartintr_send
         \/ Receive \/ Transmit
  PROVE  UNCHANGED <<ring, todo>> /\ sent' = <<>>
<1>1. ASSUME \E p \in Reader : sys_read(p) \/ kill(p) PROVE UNCHANGED <<ring, todo>> /\ sent' = <<>>
  BY <1>1, Zenon DEF sys_read, kill, Quiet
<1>2. ASSUME \E p \in Reader : consoleread(p) PROVE UNCHANGED <<ring, todo>> /\ sent' = <<>>
  <2>1. \E p, taken, got, l : Take(p, taken, got, l)
    BY <1>2, Zenon DEF consoleread
  <2>. QED BY <2>1, Zenon DEF Take
<1>3. ASSUME \E p \in Writer : uartputc_full(p) PROVE UNCHANGED <<ring, todo>> /\ sent' = <<>>
  BY <1>3, Zenon DEF uartputc_full, Quiet
<1>4. ASSUME \E t \in Thread : uartstart_return(t) \/ uartstart(t)
      PROVE  UNCHANGED <<ring, todo>> /\ sent' = <<>>
  BY <1>4, Zenon DEF uartstart_return, uartstart, Quiet
<1>5. ASSUME uartintr \/ uartgetc \/ uartputc_sync \/ uartputc_sync_thr \/ uartintr_send
      PROVE  UNCHANGED <<ring, todo>> /\ sent' = <<>>
  BY <1>5, Zenon DEF uartintr, uartgetc, uartputc_sync, uartputc_sync_thr, uartintr_send, Quiet
<1>6. ASSUME consoleintr PROVE UNCHANGED <<ring, todo>> /\ sent' = <<>>
  BY <1>6, Zenon DEF consoleintr, Quiet
<1>7. ASSUME Receive \/ Transmit PROVE UNCHANGED <<ring, todo>> /\ sent' = <<>>
  BY <1>7, Zenon DEF Receive, Transmit, Quiet
<1>. QED BY <1>1, <1>2, <1>3, <1>4, <1>5, <1>6, <1>7, ZenonT(40)

\* Every step of the console is a step of Stream or changes nothing that
\* Stream speaks of.
LEMMA StreamStep == scene \in Scene /\ IInv /\ [Next]_<<scene, vars>> => [S!SNext]_(S!svars)
<1> SUFFICES ASSUME scene \in Scene, IInv, [Next]_<<scene, vars>> PROVE [S!SNext]_(S!svars)
  BY Zenon
<1>1. CASE UNCHANGED <<scene, vars>>
  <2>1. UNCHANGED ring /\ todo' = todo /\ sent' = sent
    BY <1>1, Zenon DEF vars
  <2>2. TxQueue' = TxQueue
    BY <2>1, SameOut, Zenon
  <2>. QED BY <2>1, <2>2, Zenon DEF S!svars
<1>2. CASE Next
  <2>1. CASE \E p \in Writer : sys_write(p)
    BY <2>1, StartStream, Zenon
  <2>2. CASE \E p \in Writer : consolewrite_bad(p)
    BY <2>2, BadStream, Zenon
  <2>3. CASE \E p \in Writer : uartputc(p)
    BY <2>3, PutStream, Zenon
  <2>4. CASE \E t \in Thread : uartstart_send(t)
    BY <2>4, SendStream, Zenon
  <2>5. CASE UNCHANGED <<ring, todo>> /\ sent' = <<>>
    BY <2>5, IdleStream, Zenon
  <2>. QED BY <1>2, <2>1, <2>2, <2>3, <2>4, <2>5, Steps, OtherStream, ZenonT(40)
<1>. QED BY <1>1, <1>2, Zenon

\* The scene is one of Scene and stays.
LEMMA SceneStays == Spec => [](scene \in Scene)
<1>1. Init => scene \in Scene
  BY Zenon DEF Init
<1>2. scene \in Scene /\ [Next]_<<scene, vars>> => (scene \in Scene)'
  BY Steps, Zenon
<1>. QED BY <1>1, <1>2, PTL DEF Spec

\* uart_tx_buf implements the queue of module Stream: each character that
\* consolewrite puts into it goes to the device once, in the order of the writes.
THEOREM ConsoleImplementsStream == Spec => OutputInOrder
<1>1. Init => S!SInit
  <2>. SUFFICES ASSUME Init PROVE S!SInit
    BY Zenon
  <2>1. tx_r = 0 /\ tx_w = 0 /\ todo = [p \in Writer |-> <<>>] /\ sent = <<>>
    BY Zenon DEF Init
  <2>2. UART_TX_BUF_SIZE \in Nat
    BY Sizes, Zenon DEF NOut
  <2>3. TxLen = 0
    <3>1. TX_WRAP \in Nat \ {0} /\ 0 \in 0 .. TX_WRAP - 1
      BY Sizes, SMTT(40)
    <3>. QED BY <2>1, <3>1, Still, Zenon DEF TxLen
  <2>4. TxQueue = <<>>
    <3>1. (1 .. 0) = {}
      OBVIOUS
    <3>. QED BY <2>3, <3>1, SMTT(40) DEF TxQueue
  <2>. QED BY <2>1, <2>2, <2>4, ZenonT(40) DEF S!SInit
<1>. QED BY <1>1, StreamStep, SceneStays, ConsoleInvariant, PTL DEF Spec, OutputInOrder, S!SSpec

=============================================================================
