------------------------------ MODULE PipeProofs ------------------------------
(***************************************************************************)
(* Proofs about the pipe (module Pipe), for any number of processes, every *)
(* size of the ring and every width of its counters.                       *)
(*                                                                         *)
(* First what pipewrite and piperead do to the counters, to the slots and  *)
(* to the queue of bytes in the ring.  Then the inductive invariant, and   *)
(* that every step preserves it.  Then the theorems.                       *)
(*                                                                         *)
(* A page is freed when both ends are closed, so that it must be known who *)
(* uses an end: those that have it open, and the one that has closed it    *)
(* last and is yet to call pipeclose (OneCloser).  A system call keeps its *)
(* file open (CallKeepsEnd), so the pipe is there as long as somebody      *)
(* reads or writes; and nobody has bytes to write once the pipe is gone    *)
(* (TodoInWrite).                                                          *)
(***************************************************************************)
EXTENDS Pipe, RingLemmas, FiniteSetTheorems

-----------------------------------------------------------------------------
(* Finite sets: the processes that have a file open.                       *)

\* Nobody, or one process, has a file open.
LEMMA FewReferences == Cardinality({}) = 0 /\ \A x : Cardinality({x}) = 1
BY FS_EmptySet, FS_Singleton, Zenon

\* Those who have a file open are finitely many.
LEMMA FiniteReferences ==
  ASSUME NEW X, NEW Y, IsFiniteSet(Y), X \subseteq Y
  PROVE  IsFiniteSet(X)
BY FS_Subset, Zenon

\* filedup: x is one more.
LEMMA OneMoreReference ==
  ASSUME NEW X, IsFiniteSet(X), NEW x, x \notin X
  PROVE  Cardinality(X) \in Nat /\ Cardinality(X \cup {x}) = Cardinality(X) + 1
BY FS_CardinalityType, FS_AddElement, Zenon

\* fileclose: what f->ref says of a file is whether the close of x is the last.
LEMMA LastReference ==
  ASSUME NEW X, IsFiniteSet(X), NEW x \in X
  PROVE  /\ Cardinality(X) \in Nat /\ Cardinality(X \ {x}) \in Nat
         /\ Cardinality(X \ {x}) = Cardinality(X) - 1
         /\ Cardinality(X) > 1 <=> X \ {x} # {}
<1>1. Cardinality(X) \in Nat /\ IsFiniteSet(X \ {x}) /\ Cardinality(X \ {x}) = Cardinality(X) - 1
  BY FS_CardinalityType, FS_RemoveElement, Zenon
<1>2. Cardinality(X \ {x}) = 0 <=> X \ {x} = {}
  BY <1>1, FS_EmptySet, Zenon
<1>3. Cardinality(X \ {x}) \in Nat
  BY <1>1, FS_CardinalityType, Zenon
<1>. QED BY <1>1, <1>2, <1>3, SMTT(40)

-----------------------------------------------------------------------------
(* The ring.                                                               *)

\* What the assumptions say of the scene that is played.
LEMMA SceneFacts ==
  ASSUME scene \in Scene
  PROVE  /\ PIPESIZE \in Nat \ {0} /\ WRAP \in Nat \ {0} /\ PIPESIZE < WRAP
         /\ WRAP % PIPESIZE = 0
         /\ scene.procs \subseteq Proc
         /\ scene.want \subseteq Nat /\ scene.message \subseteq Message
<1>1. SceneOK(scene)
  BY PipeAssumption, Zenon
<1>. QED BY <1>1, SMTT(40) DEF SceneOK, PIPESIZE, WRAP

\* The counters nread and nwrite in terms of module RingLemmas.
LEMMA RingFacts ==
  ASSUME TypeOK
  PROVE  /\ Avail \in 0 .. PIPESIZE /\ Room = PIPESIZE - Avail
         /\ \A k \in 0 .. Room :
              (nwrite + k) % WRAP \in 0 .. WRAP - 1 /\ (((nwrite + k) % WRAP) - nread) % WRAP = Avail + k
         /\ \A k \in 0 .. Avail :
              (nread + k) % WRAP \in 0 .. WRAP - 1 /\ (nwrite - ((nread + k) % WRAP)) % WRAP = Avail - k
         /\ (nread + Avail) % WRAP = nwrite
<1>1. /\ nread \in 0 .. WRAP - 1 /\ nwrite \in 0 .. WRAP - 1
      /\ (nwrite - nread) % WRAP <= PIPESIZE
      /\ WRAP \in Nat \ {0} /\ PIPESIZE \in Nat \ {0} /\ PIPESIZE < WRAP
  BY SceneFacts, Zenon DEF TypeOK, Avail
<1>2. CountersAgree(WRAP, PIPESIZE, nread, nwrite)
  BY <1>1, Counters, Zenon
<1>. QED BY <1>2, Zenon DEF Avail, Room, CountersAgree

\* What is free (pipewrite) and what is stored (piperead) add up to PIPESIZE.
LEMMA RoomFacts ==
  ASSUME TypeOK
  PROVE  /\ PIPESIZE \in Nat \ {0} /\ Avail \in 0 .. PIPESIZE
         /\ Room = PIPESIZE - Avail /\ Room \in 0 .. PIPESIZE
<1>1. PIPESIZE \in Nat \ {0} /\ Avail \in 0 .. PIPESIZE /\ Room = PIPESIZE - Avail
  BY RingFacts, SceneFacts, Zenon DEF TypeOK
<1>. QED BY <1>1

\* The bytes of the pipe, numbered from the next one to be read, have slots of
\* their own, and the next one to be written comes after the last of them.
LEMMA SlotFacts ==
  ASSUME TypeOK
  PROVE  /\ \A i \in 0 .. PIPESIZE : Slot(nread + i) \in Index
         /\ \A i, j \in 0 .. PIPESIZE - 1 : i # j => Slot(nread + i) # Slot(nread + j)
         /\ \A n \in 0 .. PIPESIZE : \A i \in 0 .. PIPESIZE - n :
              Slot(((nread + n) % WRAP) + i) = Slot(nread + n + i)
<1>1. /\ nread \in 0 .. WRAP - 1
      /\ WRAP \in Nat \ {0} /\ PIPESIZE \in Nat \ {0} /\ PIPESIZE < WRAP /\ WRAP % PIPESIZE = 0
  BY SceneFacts, Zenon DEF TypeOK
<1>2. \A c : Slot(c) = SlotIn(WRAP, PIPESIZE, c)
  BY Zenon DEF Slot, SlotIn
<1>3. ASSUME NEW i \in 0 .. PIPESIZE PROVE Slot(nread + i) \in Index
  <2>1. nread + i \in 0 .. 2 * WRAP - 1
    BY <1>1, SMTT(40)
  <2>2. SlotIn(WRAP, PIPESIZE, nread + i) \in 0 .. PIPESIZE - 1
    BY <1>1, <2>1, SlotOf, Zenon
  <2>. QED BY <1>2, <2>2, Zenon DEF Index
<1>4. ASSUME NEW i \in 0 .. PIPESIZE - 1, NEW j \in 0 .. PIPESIZE - 1, i # j
      PROVE  Slot(nread + i) # Slot(nread + j)
  <2>1. SlotIn(WRAP, PIPESIZE, nread + i) # SlotIn(WRAP, PIPESIZE, nread + j)
    BY <1>1, <1>4, OwnSlots, ZenonT(30)
  <2>. QED BY <1>2, <2>1, Zenon
<1>5. ASSUME NEW n \in 0 .. PIPESIZE, NEW i \in 0 .. PIPESIZE - n
      PROVE  Slot(((nread + n) % WRAP) + i) = Slot(nread + n + i)
  <2>1. SlotsMove(WRAP, PIPESIZE, nread, n)
    BY <1>1, SlotMoves, Zenon
  <2>. QED BY <1>2, <2>1, Zenon DEF SlotsMove
<1>. QED BY <1>3, <1>4, <1>5, ZenonT(30)

\* pipewrite's loop: k bytes are stored behind those that are there.
LEMMA StoreAppends ==
  ASSUME TypeOK, NEW p \in Proc, NEW k \in 0 .. Room, k <= Len(todo[p]),
         Store(p, k), UNCHANGED scene
  PROVE  /\ nwrite' \in 0 .. WRAP - 1 /\ Avail' = Avail + k /\ Room' = Room - k
         /\ data' \in [Index -> Byte]
         /\ \A i \in 1 .. Avail : data'[Slot(nread + i - 1)] = data[Slot(nread + i - 1)]
         /\ \A i \in 1 .. k : data'[Slot(nread + (Avail + i - 1))] = todo[p][i]
<1>1. /\ Avail \in 0 .. PIPESIZE /\ Room = PIPESIZE - Avail /\ PIPESIZE \in Nat \ {0}
      /\ PIPESIZE' = PIPESIZE /\ WRAP' = WRAP
  BY RingFacts, SceneFacts, Zenon DEF TypeOK, PIPESIZE, WRAP
<1>2. nwrite' \in 0 .. WRAP - 1 /\ Avail' = Avail + k
  BY <1>1, RingFacts, Zenon DEF Store, Avail
<1>3. Room' = Room - k
  <2>. DEFINE v == nwrite'
  <2>1. (v - nread) % WRAP <= PIPESIZE /\ v \in 0 .. WRAP - 1
    BY <1>1, <1>2, SMTT(40) DEF Store, Avail
  <2>2. CountersAgree(WRAP, PIPESIZE, nread, v)
    BY <1>1, <2>1, SceneFacts, Counters, Zenon DEF TypeOK
  <2>3. Room' = PIPESIZE - Avail'
    BY <1>1, <2>2, Zenon DEF CountersAgree, Room, Avail, Store
  <2>. QED BY <1>1, <1>2, <2>3, SMTT(40)
<1>. DEFINE Z(j) == {i \in 1 .. k : Slot(nwrite + i - 1) = j}
<1>4. \A j \in Index :
        data'[j] = IF Z(j) = {} THEN data[j]
                   ELSE todo[p][CHOOSE i \in Z(j) : \A h \in Z(j) : h <= i]
  BY Zenon DEF Store
<1>5. ASSUME NEW i \in 1 .. k PROVE Slot(nwrite + i - 1) = Slot(nread + (Avail + i - 1))
  <2>. DEFINE n == i - 1
  <2>1. /\ n \in 0 .. PIPESIZE - Avail /\ Avail \in 0 .. PIPESIZE
        /\ nwrite + i - 1 = nwrite + n /\ nread + Avail + n = nread + (Avail + i - 1)
    BY <1>1, SMTT(40) DEF TypeOK
  <2>. HIDE DEF n
  <2>2. Slot(((nread + Avail) % WRAP) + n) = Slot(nread + Avail + n)
    BY <2>1, SlotFacts, Zenon
  <2>3. (nread + Avail) % WRAP = nwrite
    BY RingFacts, Zenon
  <2>. QED BY <2>1, <2>2, <2>3, Zenon
<1>6. ASSUME NEW j \in Index, NEW m \in Z(j) PROVE data'[j] = todo[p][m]
  <2>1. Z(j) = {m}
    <3>. SUFFICES ASSUME NEW i \in Z(j), i # m PROVE FALSE
      BY Zenon
    <3>1. Slot(nread + (Avail + i - 1)) = Slot(nread + (Avail + m - 1))
      BY <1>5, Zenon
    <3>2. /\ Avail + i - 1 \in 0 .. PIPESIZE - 1 /\ Avail + m - 1 \in 0 .. PIPESIZE - 1
          /\ Avail + i - 1 # Avail + m - 1
      BY <1>1, SMTT(40)
    <3>. QED BY <3>1, <3>2, SlotFacts, Zenon
  <2>2. (CHOOSE i \in Z(j) : \A h \in Z(j) : h <= i) = m
    <3>1. m <= m
      OBVIOUS
    <3>. QED BY <2>1, <3>1, Zenon
  <2>. QED BY <1>4, <2>1, <2>2, Zenon
<1>7. data' \in [Index -> Byte]
  <2>1. ASSUME NEW j \in Index PROVE data'[j] \in Byte
    <3>1. CASE Z(j) = {}
      BY <1>4, <3>1, Zenon DEF TypeOK
    <3>2. CASE Z(j) # {}
      <4>1. PICK m \in Z(j) : TRUE
        BY <3>2, Zenon
      <4>2. m \in 1 .. Len(todo[p]) /\ todo[p] \in Seq(Byte)
        BY <1>1, SMTT(40) DEF TypeOK
      <4>. QED BY <1>6, <4>1, <4>2, SMTT(40)
    <3>. QED BY <3>1, <3>2, Zenon
  <2>. HIDE DEF Z
  <2>. QED BY <2>1, Zenon DEF Store
<1>8. ASSUME NEW i \in 1 .. Avail
      PROVE  data'[Slot(nread + i - 1)] = data[Slot(nread + i - 1)]
  <2>. DEFINE n == i - 1
  <2>1. n \in 0 .. PIPESIZE - 1 /\ n \in 0 .. PIPESIZE /\ nread + i - 1 = nread + n
    BY <1>1, SMTT(40) DEF TypeOK
  <2>. HIDE DEF n
  <2>2. Z(Slot(nread + n)) = {}
    <3>. SUFFICES ASSUME NEW m \in Z(Slot(nread + n)) PROVE FALSE
      BY Zenon
    <3>1. Slot(nread + (Avail + m - 1)) = Slot(nread + n)
      BY <1>5, Zenon
    <3>2. Avail + m - 1 \in 0 .. PIPESIZE - 1 /\ Avail + m - 1 # n
      BY <1>1, SMTT(40) DEF n
    <3>. QED BY <2>1, <3>1, <3>2, SlotFacts, Zenon
  <2>3. Slot(nread + n) \in Index
    BY <2>1, SlotFacts, Zenon
  <2>. HIDE DEF Z
  <2>. QED BY <1>4, <2>1, <2>2, <2>3, Zenon
<1>9. ASSUME NEW i \in 1 .. k
      PROVE  data'[Slot(nread + (Avail + i - 1))] = todo[p][i]
  <2>1. Avail + i - 1 \in 0 .. PIPESIZE
    BY <1>1, SMTT(40)
  <2>2. Slot(nread + (Avail + i - 1)) \in Index
    BY <2>1, SlotFacts, Zenon
  <2>3. i \in Z(Slot(nread + (Avail + i - 1)))
    BY <1>5, Zenon
  <2>. QED BY <1>6, <2>2, <2>3, Zenon
<1>. QED BY <1>2, <1>3, <1>7, <1>8, <1>9, Zenon

\* piperead's loop: n bytes are taken off the front.
LEMMA ReadTakes ==
  ASSUME TypeOK, NEW n \in 0 .. Avail, nread' = (nread + n) % WRAP, UNCHANGED <<scene, nwrite>>
  PROVE  /\ nread' \in 0 .. WRAP - 1 /\ Avail' = Avail - n /\ Room' = Room + n
         /\ \A i \in 0 .. Avail - n : Slot(nread' + i) = Slot(nread + n + i)
<1>1. /\ Avail \in 0 .. PIPESIZE /\ Room = PIPESIZE - Avail /\ PIPESIZE \in Nat \ {0}
      /\ PIPESIZE' = PIPESIZE /\ WRAP' = WRAP
  BY RingFacts, SceneFacts, Zenon DEF TypeOK, PIPESIZE, WRAP
<1>2. nread' \in 0 .. WRAP - 1 /\ Avail' = Avail - n
  BY <1>1, RingFacts, Zenon DEF Avail
<1>3. Room' = Room + n
  <2>. DEFINE v == nread'
  <2>1. (nwrite - v) % WRAP <= PIPESIZE /\ v \in 0 .. WRAP - 1
    BY <1>1, <1>2, SMTT(40) DEF Avail
  <2>2. CountersAgree(WRAP, PIPESIZE, v, nwrite)
    BY <1>1, <2>1, SceneFacts, Counters, Zenon DEF TypeOK
  <2>3. Room' = PIPESIZE - Avail'
    BY <1>1, <2>2, Zenon DEF CountersAgree, Room, Avail
  <2>. QED BY <1>1, <1>2, <2>3, SMTT(40)
<1>4. ASSUME NEW i \in 0 .. Avail - n PROVE Slot(nread' + i) = Slot(nread + n + i)
  <2>1. n \in 0 .. PIPESIZE /\ i \in 0 .. PIPESIZE - n
    BY <1>1, SMTT(40)
  <2>. QED BY <2>1, SlotFacts, Zenon
<1>. QED BY <1>2, <1>3, <1>4, Zenon

\* Nothing else moves the counters.
LEMMA SameRing ==
  ASSUME UNCHANGED <<scene, nread, nwrite>>
  PROVE  /\ Avail' = Avail /\ Room' = Room /\ PIPESIZE' = PIPESIZE /\ WRAP' = WRAP
         /\ Index' = Index
BY Zenon DEF Avail, Room, PIPESIZE, WRAP, Index

-----------------------------------------------------------------------------
(* The pipe is a queue.                                                    *)

QueueOK ==
  /\ Queue \in Seq(Byte)
  /\ ~freed => /\ Len(Queue) = Avail
               /\ \A i \in 1 .. Avail : Queue[i] = data[Slot(nread + i - 1)]

\* The bytes in the ring are a sequence as long as the counters say.
LEMMA QueueFacts == TypeOK => QueueOK
<1>. SUFFICES ASSUME TypeOK PROVE QueueOK
  BY Zenon
<1>. USE DEF QueueOK
<1>1. CASE freed
  BY <1>1, NoBytes, Zenon DEF Queue
<1>2. CASE ~freed
  <2>1. Avail \in Nat /\ Avail <= PIPESIZE
    BY RoomFacts, SMTT(40)
  <2>2. ASSUME NEW i \in 1 .. Avail PROVE data[Slot(nread + i - 1)] \in Byte
    <3>. DEFINE n == i - 1
    <3>1. n \in 0 .. PIPESIZE /\ nread + i - 1 = nread + n
      BY RoomFacts, SceneFacts, SMTT(40) DEF TypeOK
    <3>. HIDE DEF n
    <3>2. Slot(nread + n) \in Index
      BY <3>1, SlotFacts, Zenon
    <3>. QED BY <3>1, <3>2, Zenon DEF TypeOK
  <2>3. Queue \in [1 .. Avail -> Byte]
    BY <1>2, <2>2, Zenon DEF Queue
  <2>4. Queue \in Seq(Byte) /\ Len(Queue) = Avail
    BY <2>1, <2>3, SMTT(40)
  <2>. QED BY <1>2, <2>4, Zenon DEF Queue
<1>. QED BY <1>1, <1>2, Zenon

\* The same, of the next state.
LEMMA QueueFactsNext == TypeOK' => QueueOK'
BY QueueFacts, PTL

\* The slots of the ring do not depend on the step.
LEMMA SameSlots ==
  ASSUME UNCHANGED scene, NEW c
  PROVE  Slot(c)' = Slot(c)
BY Zenon DEF Slot, PIPESIZE, WRAP

\* Storing k bytes appends them to the queue.
LEMMA StoredQueue ==
  ASSUME TypeOK, TypeOK', ~freed, NEW p \in Proc, NEW k \in 0 .. Room, k <= Len(todo[p]),
         Store(p, k), UNCHANGED scene
  PROVE  Queue' = Queue \o SubSeq(todo[p], 1, k) /\ Len(Queue) + k <= PIPESIZE
<1>. DEFINE new == SubSeq(todo[p], 1, k)
<1>1. /\ PIPESIZE \in Nat \ {0} /\ Avail \in 0 .. PIPESIZE /\ Room = PIPESIZE - Avail
      /\ ~freed' /\ nread' = nread
  BY RoomFacts, Zenon DEF Store
<1>2. /\ Queue \in Seq(Byte) /\ Len(Queue) = Avail
      /\ \A i \in 1 .. Avail : Queue[i] = data[Slot(nread + i - 1)]
  BY QueueFacts, Zenon DEF QueueOK
<1>3. /\ Avail' = Avail + k
      /\ \A i \in 1 .. Avail : data'[Slot(nread + i - 1)] = data[Slot(nread + i - 1)]
      /\ \A i \in 1 .. k : data'[Slot(nread + (Avail + i - 1))] = todo[p][i]
  BY StoreAppends, Zenon
<1>4. /\ Queue' \in Seq(Byte) /\ Len(Queue') = Avail + k
      /\ \A i \in 1 .. Avail + k : Queue'[i] = data'[Slot(nread + i - 1)]
  BY <1>1, <1>3, QueueFactsNext, SameSlots, ZenonT(40) DEF QueueOK
<1>5. new \in Seq(Byte) /\ Len(new) = k /\ \A i \in 1 .. k : new[i] = todo[p][i]
  <2>1. todo[p] \in Seq(Byte)
    BY Zenon DEF TypeOK
  <2>2. k \in 0 .. Len(todo[p])
    BY <1>1, <2>1, NoneAndAll, SMTT(40)
  <2>. QED BY <2>1, <2>2, FirstPart, Zenon
<1>. HIDE DEF new
<1>6. /\ Queue \o new \in Seq(Byte) /\ Len(Queue \o new) = Avail + k
      /\ \A i \in 1 .. Avail : (Queue \o new)[i] = Queue[i]
      /\ \A i \in 1 .. k : (Queue \o new)[Avail + i] = new[i]
  <2>1. /\ Queue \o new \in Seq(Byte) /\ Len(Queue \o new) = Len(Queue) + Len(new)
        /\ \A i \in 1 .. Len(Queue) : (Queue \o new)[i] = Queue[i]
        /\ \A i \in 1 .. Len(new) : (Queue \o new)[Len(Queue) + i] = new[i]
    <3>1. Queue \in Seq(Byte) /\ new \in Seq(Byte)
      BY <1>2, <1>5, Zenon
    <3>. QED BY <3>1, BothParts, SMTT(40)
  <2>. QED BY <1>2, <1>5, <2>1, Zenon
<1>7. ASSUME NEW i \in 1 .. Avail + k PROVE Queue'[i] = (Queue \o new)[i]
  <2>1. CASE i <= Avail
    <3>1. i \in 1 .. Avail
      BY <1>1, <2>1, SMTT(40)
    <3>2. Queue'[i] = Queue[i]
      BY <1>2, <1>3, <1>4, <3>1, Zenon
    <3>3. (Queue \o new)[i] = Queue[i]
      BY <1>6, <3>1, Zenon
    <3>. QED BY <3>2, <3>3, Zenon
  <2>2. CASE i > Avail
    <3>. DEFINE j == i - Avail
    <3>1. j \in 1 .. k /\ i = Avail + j /\ nread + i - 1 = nread + (Avail + j - 1)
      BY <1>1, <2>2, SceneFacts, SMTT(40) DEF TypeOK
    <3>2. Queue'[i] = new[j]
      BY <1>3, <1>4, <1>5, <3>1, ZenonT(40)
    <3>3. (Queue \o new)[i] = new[j]
      BY <1>6, <3>1, Zenon
    <3>. QED BY <3>2, <3>3, Zenon
  <2>3. i <= Avail \/ i > Avail
    BY <1>1, SMTT(40)
  <2>. QED BY <2>1, <2>2, <2>3, Zenon
<1>8. Queue' = Queue \o new
  BY <1>4, <1>6, <1>7, SameElements, ZenonT(40)
<1>. QED BY <1>1, <1>2, <1>8, SMTT(40) DEF new

\* Moving nread by n takes n bytes off the front of the queue.
LEMMA TakenQueue ==
  ASSUME TypeOK, TypeOK', ~freed, NEW n \in 0 .. Avail, nread' = (nread + n) % WRAP,
         UNCHANGED <<scene, nwrite, data, freed>>
  PROVE  Queue' = SubSeq(Queue, n + 1, Len(Queue))
<1>. DEFINE rest == SubSeq(Queue, n + 1, Len(Queue))
<1>1. PIPESIZE \in Nat \ {0} /\ Avail \in 0 .. PIPESIZE /\ nread \in Nat /\ nread' \in Nat
  BY RoomFacts, SceneFacts, SMTT(40) DEF TypeOK, WRAP
<1>2. /\ Queue \in Seq(Byte) /\ Len(Queue) = Avail
      /\ \A i \in 1 .. Avail : Queue[i] = data[Slot(nread + i - 1)]
  BY QueueFacts, Zenon DEF QueueOK
<1>3. Avail' = Avail - n /\ \A i \in 0 .. Avail - n : Slot(nread' + i) = Slot(nread + n + i)
  BY ReadTakes, Zenon
<1>4. /\ Queue' \in Seq(Byte) /\ Len(Queue') = Avail - n
      /\ \A i \in 1 .. Avail - n : Queue'[i] = data[Slot(nread' + i - 1)]
  BY <1>3, QueueFactsNext, SameSlots, Zenon DEF QueueOK
<1>5. /\ rest \in Seq(Byte) /\ Len(rest) = Avail - n
      /\ \A i \in 1 .. Avail - n : rest[i] = Queue[n + i]
  BY <1>2, LastPart, Zenon
<1>. HIDE DEF rest
<1>6. ASSUME NEW i \in 1 .. Avail - n PROVE Queue'[i] = rest[i]
  <2>. DEFINE j == i - 1
  <2>1. /\ j \in 0 .. Avail - n /\ n + i \in 1 .. Avail
        /\ nread' + i - 1 = nread' + j /\ nread + (n + i) - 1 = nread + n + j
    BY <1>1
  <2>. HIDE DEF j
  <2>2. Slot(nread' + i - 1) = Slot(nread + (n + i) - 1)
    BY <1>3, <2>1, Zenon
  <2>. QED BY <1>2, <1>4, <1>5, <2>1, <2>2, ZenonT(40)
<1>7. Queue' = rest
  BY <1>4, <1>5, <1>6, SameElements, Zenon
<1>. QED BY <1>7, Zenon DEF rest

\* Every other step leaves the queue alone.
LEMMA SameQueue ==
  ASSUME UNCHANGED <<scene, data, nread, nwrite, freed>>
  PROVE  Queue' = Queue
BY SameRing, SameSlots, Zenon DEF Queue

-----------------------------------------------------------------------------
(* The inductive invariant, and the files.                                 *)

\* A system call keeps its file: a process in piperead has the read end open,
\* one in pipewrite the write end.
CallKeepsEnd ==
  \A p \in Proc : /\ at[p] \in {"read", "rsleep"} => "r" \in fd[p]
                  /\ at[p] \in {"write", "wsleep"} => "w" \in fd[p]

\* Where p is when it has closed end e last and is yet to tell the pipe.
Closing(e) == IF e = "r" THEN "closer" ELSE "closew"
Uses(p, e) == e \in fd[p] \/ at[p] = Closing(e)
Open(e) == IF e = "r" THEN readopen ELSE writeopen

\* An end is open exactly if somebody uses it, and the page is free if neither is.
OpenWhileUsed ==
  /\ \A e \in Ends : Open(e) <=> \E p \in Proc : Uses(p, e)
  /\ freed <=> ~readopen /\ ~writeopen

\* Whoever calls pipeclose for an end is the only one to use it.
OneCloser ==
  \A p, q \in Proc, e \in Ends :
    at[p] = Closing(e) /\ Uses(q, e) => e \notin fd[p] /\ q = p

\* Only a process in pipewrite has bytes to write.
TodoInWrite == \A p \in Proc : todo[p] # <<>> => at[p] \in {"write", "wsleep"}

IInv ==
  TypeOK /\ CallKeepsEnd /\ OpenWhileUsed /\ OneCloser /\ TodoInWrite /\ NoLostWakeup

-----------------------------------------------------------------------------
(* Every action keeps IInv.                                                *)

\* The part of IInv about files only looks at files and places.
LEMMA SameFiles ==
  ASSUME IInv, UNCHANGED fd
  PROVE  \A e \in Ends : Holders(e)' = Holders(e)
BY Zenon DEF Holders

\* A write starts with the write end open.
LEMMA sys_write_IInv ==
  ASSUME IInv, NEW p \in scene.procs, sys_write(p), UNCHANGED scene
  PROVE  IInv'
<1>. USE DEF IInv, sys_write, Goto, pipe, files
<1>1. p \in Proc /\ scene.message \subseteq Seq(Byte)
  BY SceneFacts, PipeAssumption, Zenon DEF TypeOK
<1>2. TypeOK'
  BY <1>1, SameRing, SameFiles, ZenonT(40) DEF TypeOK
<1>3. CallKeepsEnd' /\ TodoInWrite'
  BY <1>1, Zenon DEF TypeOK, CallKeepsEnd, TodoInWrite
<1>4. OpenWhileUsed' /\ OneCloser'
  BY <1>1, SMTT(40) DEF TypeOK, OpenWhileUsed, OneCloser, Uses, Open, Closing, Ends
<1>5. NoLostWakeup'
  BY <1>1, SameRing, Zenon DEF TypeOK, NoLostWakeup
<1>. QED BY <1>2, <1>3, <1>4, <1>5, ZenonT(40)

\* A read starts with the read end open.
LEMMA sys_read_IInv ==
  ASSUME IInv, NEW p \in scene.procs, sys_read(p), UNCHANGED scene
  PROVE  IInv'
<1>. USE DEF IInv, sys_read, Goto, pipe, files
<1>1. p \in Proc
  BY SceneFacts, Zenon DEF TypeOK
<1>2. TypeOK'
  BY <1>1, SameRing, SameFiles, ZenonT(40) DEF TypeOK
<1>3. CallKeepsEnd' /\ TodoInWrite'
  BY <1>1, Zenon DEF TypeOK, CallKeepsEnd, TodoInWrite
<1>4. OpenWhileUsed' /\ OneCloser'
  BY <1>1, SMTT(40) DEF TypeOK, OpenWhileUsed, OneCloser, Uses, Open, Closing, Ends
<1>5. NoLostWakeup'
  BY <1>1, SameRing, Zenon DEF TypeOK, NoLostWakeup
<1>. QED BY <1>2, <1>3, <1>4, <1>5, Zenon

\* A killed sleeper goes back into the loop it sleeps in.
LEMMA kill_IInv ==
  ASSUME IInv, NEW p \in scene.procs, kill(p), UNCHANGED scene
  PROVE  IInv'
<1>. USE DEF IInv, kill, Goto, pipe, files
<1>1. p \in Proc
  BY SceneFacts, Zenon DEF TypeOK
<1>2. TypeOK'
  BY <1>1, SameRing, SameFiles, Zenon DEF TypeOK
<1>3. CallKeepsEnd' /\ TodoInWrite'
  BY <1>1, Zenon DEF TypeOK, CallKeepsEnd, TodoInWrite
<1>4. OpenWhileUsed' /\ OneCloser'
  BY <1>1, SMTT(40) DEF TypeOK, OpenWhileUsed, OneCloser, Uses, Open, Closing, Ends
<1>5. NoLostWakeup'
  BY <1>1, SameRing, Zenon DEF TypeOK, NoLostWakeup
<1>. QED BY <1>2, <1>3, <1>4, <1>5, Zenon

\* A pipe is made when nobody uses the old one.
LEMMA pipealloc_IInv ==
  ASSUME IInv, NEW p \in scene.procs, pipealloc(p), UNCHANGED scene
  PROVE  IInv'
<1>. USE DEF IInv, pipealloc
<1>1. p \in Proc /\ Avail' = 0 /\ Index' = Index /\ PIPESIZE' = PIPESIZE /\ WRAP' = WRAP
  <2>1. 0 \in 0 .. WRAP - 1 /\ WRAP \in Nat \ {0} /\ 0 \in Int /\ 0 - 0 = 0
    BY SceneFacts, SMTT(40) DEF TypeOK
  <2>2. 0 % WRAP = 0
    BY <2>1, ModIs, Zenon
  <2>. QED BY <2>1, <2>2, SceneFacts, Zenon DEF TypeOK, Avail, Index, PIPESIZE, WRAP
<1>2. \A q \in Proc : fd[q] = {} /\ at[q] = "user"
  BY SMTT(40) DEF TypeOK, CallKeepsEnd, OpenWhileUsed, Uses, Open, Closing, Ends
<1>3. \A e \in Ends : Cardinality(Holders(e)') = 1
  <2>1. \A e \in Ends : Holders(e)' = {p}
    BY <1>1, <1>2 DEF TypeOK, Holders
  <2>. QED BY <2>1, FewReferences, Zenon
<1>4. TypeOK'
  <2>1. data' \in [Index -> Byte] /\ nread' \in 0 .. WRAP - 1 /\ nwrite' \in 0 .. WRAP - 1
    BY SceneFacts, SMTT(40) DEF TypeOK, Byte
  <2>2. fd' \in [Proc -> SUBSET Ends]
    BY <1>1, Zenon DEF TypeOK
  <2>3. ref' \in [Ends -> Nat] /\ \A e \in Ends : ref'[e] = Cardinality(Holders(e)')
    BY <1>3, Zenon
  <2>4. Avail' <= PIPESIZE
    BY <1>1, SceneFacts, SMTT(40) DEF TypeOK
  <2>. QED BY <1>1, <2>1, <2>2, <2>3, <2>4, ZenonT(30) DEF TypeOK
<1>5. CallKeepsEnd' /\ TodoInWrite'
  BY <1>1, <1>2, Zenon DEF TypeOK, CallKeepsEnd, TodoInWrite
<1>6. OpenWhileUsed' /\ OneCloser'
  BY <1>1, <1>2, SMTT(40) DEF TypeOK, OpenWhileUsed, OneCloser, Uses, Open, Closing, Ends
<1>7. NoLostWakeup'
  BY <1>1, <1>2, Zenon DEF TypeOK, NoLostWakeup
<1>. QED BY <1>4, <1>5, <1>6, <1>7, Zenon

\* The new process uses the ends that the old one has open.
LEMMA filedup_IInv ==
  ASSUME IInv, NEW p \in scene.procs, NEW q \in scene.procs, filedup(p, q), UNCHANGED scene
  PROVE  IInv'
<1>. USE DEF IInv, filedup, pipe
<1>1. p \in Proc /\ q \in Proc
  BY SceneFacts, Zenon DEF TypeOK
<1>2. \A e \in Ends : ref'[e] = Cardinality(Holders(e)') /\ ref'[e] \in Nat
  <2>. SUFFICES ASSUME NEW e \in Ends
                PROVE  ref'[e] = Cardinality(Holders(e)') /\ ref'[e] \in Nat
    BY Zenon
  <2>1. IsFiniteSet(Holders(e)) /\ q \notin Holders(e)
    BY PipeAssumption, FiniteReferences, Zenon DEF Holders
  <2>2. Holders(e)' = IF e \in fd[p] THEN Holders(e) \cup {q} ELSE Holders(e)
    BY <1>1, Zenon DEF TypeOK, Holders
  <2>3. Cardinality(Holders(e) \cup {q}) = Cardinality(Holders(e)) + 1
    BY <2>1, OneMoreReference, ZenonT(40)
  <2>. QED BY <2>2, <2>3, SMTT(40) DEF TypeOK
<1>3. TypeOK'
  BY <1>1, <1>2, SameRing, Zenon DEF TypeOK
<1>4. CallKeepsEnd' /\ TodoInWrite'
  BY <1>1, Zenon DEF TypeOK, CallKeepsEnd, TodoInWrite
<1>5. OpenWhileUsed' /\ OneCloser'
  BY <1>1, SMTT(40) DEF TypeOK, OpenWhileUsed, OneCloser, Uses, Open, Closing, Ends
<1>6. NoLostWakeup'
  BY <1>1, SameRing, Zenon DEF TypeOK, NoLostWakeup
<1>. QED BY <1>3, <1>4, <1>5, <1>6, ZenonT(40)

\* The last to close an end, and no other, goes on to pipeclose.
LEMMA fileclose_IInv ==
  ASSUME IInv, NEW p \in scene.procs, NEW e \in Ends, fileclose(p, e), UNCHANGED scene
  PROVE  IInv'
<1>. USE DEF IInv, fileclose, Goto, pipe
<1>1. p \in Proc /\ p \in Holders(e) /\ IsFiniteSet(Holders(e))
  BY SceneFacts, PipeAssumption, FiniteReferences, Zenon DEF TypeOK, Holders
<1>2. Holders(e)' = Holders(e) \ {p} /\ \A d \in Ends \ {e} : Holders(d)' = Holders(d)
  BY <1>1, Zenon DEF TypeOK, Holders
<1>3. /\ ref[e] \in Nat /\ ref[e] = Cardinality(Holders(e))
      /\ Cardinality(Holders(e) \ {p}) = ref[e] - 1 /\ Cardinality(Holders(e) \ {p}) \in Nat
      /\ ref[e] > 1 <=> Holders(e) \ {p} # {}
  <2>1. /\ Cardinality(Holders(e)) \in Nat
        /\ Cardinality(Holders(e) \ {p}) = Cardinality(Holders(e)) - 1
        /\ Cardinality(Holders(e)) > 1 <=> Holders(e) \ {p} # {}
        /\ Cardinality(Holders(e) \ {p}) \in Nat
    BY <1>1, LastReference, Zenon
  <2>. QED BY <2>1, Zenon DEF TypeOK
<1>4. TypeOK'
  BY <1>1, <1>2, <1>3, SameRing, ZenonT(30) DEF TypeOK
<1>5. CallKeepsEnd' /\ TodoInWrite'
  BY <1>1, Zenon DEF TypeOK, CallKeepsEnd, TodoInWrite
<1>6. OpenWhileUsed'
  <2>1. Uses(p, e) /\ \A q \in Proc, d \in Ends \ {e} : Uses(q, d)' = Uses(q, d)
    BY <1>1, Zenon DEF TypeOK, Uses, Closing, Ends
  <2>2. \E q \in Proc : Uses(q, e)'
    <3>1. CASE ref[e] > 1
      <4>1. PICK q \in Proc : q # p /\ e \in fd[q]
        BY <1>3, <3>1, Zenon DEF Holders
      <4>. QED BY <1>1, <4>1, ZenonT(40) DEF TypeOK, Uses
    <3>2. CASE ~(ref[e] > 1)
      BY <1>1, <3>2, Zenon DEF TypeOK, Uses, Closing, Ends
    <3>. QED BY <3>1, <3>2, ZenonT(40)
  <2>3. \A d \in Ends : Open(d)' = Open(d)
    BY Zenon DEF Open
  <2>. QED BY <1>1, <2>1, <2>2, <2>3, ZenonT(40) DEF OpenWhileUsed
<1>7. OneCloser'
  BY <1>1, <1>3, SMTT(40) DEF TypeOK, OneCloser, Uses, Closing, Ends, Holders
<1>8. NoLostWakeup'
  BY <1>1, SameRing, Zenon DEF TypeOK, NoLostWakeup
<1>. QED BY <1>4, <1>5, <1>6, <1>7, <1>8, Zenon

\* The end that pipeclose closes is used by its caller only.
LEMMA pipeclose_IInv ==
  ASSUME IInv, NEW p \in scene.procs, pipeclose(p), UNCHANGED scene
  PROVE  IInv'
<1>. USE DEF IInv, pipeclose, Wakeup, files
<1>1. p \in Proc
  BY SceneFacts, Zenon DEF TypeOK
<1>2. TypeOK'
  BY <1>1, SameRing, SameFiles, ZenonT(30) DEF TypeOK
<1>3. CallKeepsEnd'
  <2>1. \A q \in Proc : at'[q] \in {"read", "rsleep"} => at[q] \in {"read", "rsleep"}
    BY <1>1, Zenon DEF TypeOK
  <2>2. \A q \in Proc : at'[q] \in {"write", "wsleep"} => at[q] \in {"write", "wsleep"}
    BY <1>1, Zenon DEF TypeOK
  <2>. QED BY <2>1, <2>2, Zenon DEF CallKeepsEnd
<1>4. TodoInWrite'
  BY <1>1, ZenonT(40) DEF TypeOK, TodoInWrite
<1>5. OpenWhileUsed'
  <2>1. PICK e \in Ends : at[p] = Closing(e) /\ Open(e)' = FALSE
                          /\ \A d \in Ends \ {e} : Open(d)' = Open(d)
    BY Zenon DEF Closing, Ends, Open, TypeOK
  <2>2. \A q \in Proc : \A d \in Ends : Uses(q, d)' <=> Uses(q, d) /\ ~(q = p /\ d = e)
    BY <1>1, <2>1, SMTT(40) DEF TypeOK, Uses, Closing, Ends, OneCloser
  <2>3. \A q \in Proc : Uses(q, e) => q = p
    BY <1>1, <2>1, Zenon DEF OneCloser
  <2>4. freed' <=> ~readopen' /\ ~writeopen'
    BY Zenon
  <2>. QED BY <1>1, <2>1, <2>2, <2>3, <2>4, Zenon DEF OpenWhileUsed
<1>6. OneCloser'
  <2>1. \A q \in Proc, e \in Ends : at'[q] = Closing(e) => at[q] = Closing(e)
    BY <1>1, ZenonT(40) DEF TypeOK, Closing
  <2>2. fd' = fd
    BY Zenon
  <2>. QED BY <2>1, <2>2, Zenon DEF OneCloser, Uses
<1>7. NoLostWakeup'
  BY <1>1, SameRing, Zenon DEF TypeOK, NoLostWakeup
<1>. QED BY <1>2, <1>3, <1>4, <1>5, <1>6, <1>7, ZenonT(40)

\* What all rounds of pipewrite have in common: p stores k bytes and goes on to
\* l, either with a wakeup or leaving it to others.
LEMMA StoreStep ==
  ASSUME IInv, NEW p \in Proc, at[p] = "write",
         NEW k \in 0 .. Room, k <= Len(todo[p]), Store(p, k), UNCHANGED <<scene, files, want>>,
         NEW l \in {"user", "wsleep"}, NEW t \in Seq(Byte), todo' = [todo EXCEPT ![p] = t],
         l = "user" => t = <<>>, l = "wsleep" => k = Room /\ readopen,
         \/ at' = Wakeup("rsleep", p, l) /\ hushed' = FALSE
         \/ Goto(p, l) /\ hushed' = (hushed \/ k > 0),
         killed' \in [Proc -> BOOLEAN]
  PROVE  IInv'
<1>. USE DEF IInv, Wakeup, Goto, files
<1>1. /\ nwrite' \in 0 .. WRAP - 1 /\ Avail' = Avail + k /\ Room' = Room - k
      /\ data' \in [Index -> Byte]
  BY StoreAppends, Zenon DEF TypeOK
<1>2. /\ Avail \in 0 .. PIPESIZE /\ Room = PIPESIZE - Avail /\ PIPESIZE \in Nat \ {0}
      /\ PIPESIZE' = PIPESIZE /\ WRAP' = WRAP /\ Index' = Index
  BY RingFacts, SceneFacts, ZenonT(40) DEF TypeOK, PIPESIZE, WRAP, Index
<1>3. /\ at' \in [Proc -> {"user", "read", "rsleep", "write", "wsleep", "closer", "closew"}]
      /\ at'[p] = l
      /\ \A q \in Proc \ {p} : at'[q] = at[q] \/ (at[q] = "rsleep" /\ at'[q] = "read")
  BY Zenon DEF TypeOK
<1>4. TypeOK'
  <2>1. Avail' <= PIPESIZE
    BY <1>1, <1>2, SMTT(40)
  <2>. QED BY <1>1, <1>2, <1>3, <2>1, SameFiles, ZenonT(40) DEF TypeOK, Store
<1>5. CallKeepsEnd' /\ TodoInWrite'
  BY <1>3, ZenonT(40) DEF TypeOK, CallKeepsEnd, TodoInWrite
<1>6. OpenWhileUsed' /\ OneCloser'
  <2>1. \A q \in Proc, e \in Ends : (at'[q] = Closing(e) <=> at[q] = Closing(e))
    BY <1>3, Zenon DEF Closing
  <2>. QED BY <2>1, ZenonT(40) DEF OpenWhileUsed, OneCloser, Uses, Open, Store
<1>7. NoLostWakeup'
  <2>1. ASSUME NEW q \in Proc, at'[q] = "wsleep" PROVE Room' = 0 /\ readopen'
    BY <1>1, <1>2, <1>3, <2>1, SMTT(40) DEF NoLostWakeup, Store
  <2>2. ASSUME NEW q \in Proc, at'[q] = "rsleep" PROVE (Avail' = 0 \/ hushed') /\ writeopen'
    <3>1. at[q] = "rsleep" /\ hushed' = (hushed \/ k > 0)
      BY <2>2, Zenon DEF TypeOK
    <3>2. (Avail = 0 \/ hushed) /\ writeopen'
      BY <3>1, Zenon DEF NoLostWakeup, Store
    <3>3. k > 0 \/ Avail' = Avail
      BY <1>1, <1>2, SMTT(40)
    <3>. QED BY <3>1, <3>2, <3>3, ZenonT(40)
  <2>. QED BY <2>1, <2>2, Zenon DEF NoLostWakeup
<1>. QED BY <1>4, <1>5, <1>6, <1>7, Zenon

\* Every way through a round of pipewrite.
LEMMA pipewrite_IInv ==
  ASSUME IInv, NEW p \in scene.procs, pipewrite(p), UNCHANGED scene
  PROVE  IInv'
<1>. DEFINE n == Len(todo[p])  most == Least(n, Room)
<1>1. /\ p \in Proc /\ todo[p] \in Seq(Byte) /\ n \in Nat /\ <<>> \in Seq(Byte)
      /\ killed \in [Proc -> BOOLEAN] /\ scene \in Scene
  BY SceneFacts, NoBytes, NoneAndAll, ZenonT(40) DEF IInv, TypeOK
<1>2. /\ Room \in Nat /\ \A k \in 0 .. most : k \in 0 .. Room /\ k <= n
  <2>1. Room \in Nat
    BY RoomFacts, SMTT(40) DEF IInv
  <2>. QED BY <1>1, <2>1, SMTT(40) DEF Least
<1>3. at[p] = "write" /\ UNCHANGED <<scene, files, want>>
  BY Zenon DEF pipewrite
<1>4. CASE pipewrite_closed(p)
  <2>1. at' \in [Proc -> {"user", "read", "rsleep", "write", "wsleep", "closer", "closew"}]
    BY <1>1, <1>4, ZenonT(40) DEF IInv, TypeOK, pipewrite_closed, Goto
  <2>2. TypeOK'
    BY <1>1, <1>3, <1>4, <2>1, SameRing, SameFiles, ZenonT(30)
    DEF IInv, TypeOK, pipewrite_closed, pipe, files
  <2>3. CallKeepsEnd' /\ TodoInWrite'
    BY <1>1, <1>3, <1>4, ZenonT(40)
       DEF IInv, TypeOK, CallKeepsEnd, TodoInWrite, pipewrite_closed, Goto, files
  <2>4. OpenWhileUsed' /\ OneCloser'
    <3>1. \A q \in Proc, e \in Ends : (at'[q] = Closing(e) <=> at[q] = Closing(e))
      BY <1>1, <1>3, <1>4, Zenon DEF IInv, TypeOK, Closing, pipewrite_closed, Goto
    <3>. QED BY <1>3, <1>4, <3>1, ZenonT(40)
         DEF IInv, OpenWhileUsed, OneCloser, Uses, Open, pipewrite_closed, pipe, files
  <2>5. NoLostWakeup'
    BY <1>1, <1>3, <1>4, SameRing, ZenonT(40) DEF IInv, TypeOK, NoLostWakeup, pipewrite_closed, Goto, pipe
  <2>. QED BY <2>2, <2>3, <2>4, <2>5, ZenonT(40) DEF IInv
<1>5. ASSUME NEW k \in 0 .. most, pipewrite_killed(p, k) PROVE IInv'
  BY <1>1, <1>2, <1>3, <1>5, StoreStep, ZenonT(40) DEF pipewrite_killed
<1>6. ASSUME NEW k \in 0 .. most, pipewrite_done(p, k) PROVE IInv'
  BY <1>1, <1>2, <1>3, <1>6, StoreStep, ZenonT(40) DEF pipewrite_done
<1>7. ASSUME readopen, Room < n, pipewrite_full(p, Room) PROVE IInv'
  <2>1. Rest(todo[p], Room) \in Seq(Byte)
    BY <1>1, <1>2, <1>7, LastPart, SMTT(40) DEF Rest
  <2>2. killed' \in [Proc -> BOOLEAN] /\ Room \in 0 .. Room /\ Room <= n
    BY <1>1, <1>2, <1>7, SMTT(40) DEF pipewrite_full
  <2>. QED BY <1>1, <1>3, <1>7, <2>1, <2>2, StoreStep, ZenonT(40) DEF pipewrite_full
<1>8. 0 \in 0 .. most /\ (Room >= n => n \in 0 .. most)
  BY <1>1, <1>2, SMTT(40) DEF Least
<1>. QED BY <1>2, <1>4, <1>5, <1>6, <1>7, <1>8, ZenonT(40) DEF pipewrite

\* Every way through piperead; taking bytes wakes the writers up.
LEMMA piperead_IInv ==
  ASSUME IInv, NEW p \in scene.procs, piperead(p), UNCHANGED scene
  PROVE  IInv'
<1>. USE DEF IInv, piperead, files
<1>1. /\ p \in Proc /\ scene \in Scene /\ want[p] \in Nat /\ WRAP \in Nat /\ nread \in Int
      /\ Avail \in 0 .. PIPESIZE /\ Room = PIPESIZE - Avail /\ PIPESIZE \in Nat \ {0}
      /\ PIPESIZE' = PIPESIZE /\ WRAP' = WRAP /\ Index' = Index
  <2>1. scene \in Scene /\ nread \in 0 .. WRAP - 1 /\ want \in [Proc -> scene.want \cup {0}]
    BY Zenon DEF TypeOK
  <2>2. p \in Proc /\ scene.want \subseteq Nat /\ WRAP \in Nat
    BY <2>1, SceneFacts, Zenon
  <2>3. want[p] \in Nat /\ nread \in Int
    BY <2>1, <2>2, SMTT(40)
  <2>. QED BY <2>1, <2>2, <2>3, RoomFacts, ZenonT(40) DEF PIPESIZE, WRAP, Index
<1>2. CASE Avail = 0 /\ writeopen /\ piperead_empty(p)
  <2>. USE DEF piperead_empty, Goto
  <2>1. /\ at' \in [Proc -> {"user", "read", "rsleep", "write", "wsleep", "closer", "closew"}]
        /\ at'[p] \in {"user", "rsleep"} /\ at[p] = "read"
        /\ \A q \in Proc \ {p} : at'[q] = at[q]
    <3>1. PICK l \in {"user", "rsleep"} : at' = [at EXCEPT ![p] = l]
      BY <1>2, Zenon
    <3>. QED BY <1>1, <3>1, Zenon DEF TypeOK
  <2>2. TypeOK'
    <3>1. killed' \in [Proc -> BOOLEAN] /\ want' \in [Proc -> scene.want \cup {0}]
      BY <1>1, <1>2, ZenonT(30) DEF TypeOK
    <3>. QED BY <1>2, <2>1, <3>1, SameRing, SameFiles, ZenonT(40) DEF TypeOK
  <2>3. CallKeepsEnd' /\ TodoInWrite'
    BY <1>1, <2>1, Zenon DEF TypeOK, CallKeepsEnd, TodoInWrite
  <2>4. OpenWhileUsed' /\ OneCloser'
    <3>1. \A q \in Proc, e \in Ends : (at'[q] = Closing(e) <=> at[q] = Closing(e))
      BY <2>1, Zenon DEF Closing
    <3>. QED BY <3>1, ZenonT(40) DEF OpenWhileUsed, OneCloser, Uses, Open
  <2>5. NoLostWakeup'
    BY <1>1, <1>2, <2>1, SameRing, Zenon DEF NoLostWakeup
  <2>. QED BY <2>2, <2>3, <2>4, <2>5, ZenonT(40)
<1>3. ASSUME NEW k \in 0 .. Avail, NEW lost \in {0, 1}, k + lost <= Avail, piperead_copy(p, k, lost)
      PROVE  IInv'
  <2>. USE DEF piperead_copy, Wakeup
  <2>1. /\ at' \in [Proc -> {"user", "read", "rsleep", "write", "wsleep", "closer", "closew"}]
        /\ at'[p] = "user" /\ at[p] = "read"
        /\ \A q \in Proc \ {p} : at'[q] = at[q] \/ (at[q] = "wsleep" /\ at'[q] = "write")
        /\ \A q \in Proc : at'[q] # "wsleep"
    BY <1>1, <1>3, ZenonT(40) DEF TypeOK
  <2>2. nread' \in 0 .. WRAP - 1 /\ Avail' = Avail - (k + lost)
    <3>1. k + lost \in 0 .. Avail /\ nread' = (nread + (k + lost)) % WRAP
      <4>1. nread + k + lost = nread + (k + lost) /\ k + lost \in 0 .. Avail
        BY <1>1, <1>3, SMTT(40)
      <4>. QED BY <1>3, <4>1, ZenonT(40)
    <3>. QED BY <3>1, ReadTakes, Zenon
  <2>3. TypeOK'
    <3>1. want' \in [Proc -> scene.want \cup {0}]
      BY <1>1, <1>3, ZenonT(30) DEF TypeOK
    <3>2. Avail' <= PIPESIZE
      BY <1>1, <1>3, <2>2, SMTT(40)
    <3>. QED BY <1>1, <1>3, <2>1, <2>2, <3>1, <3>2, SameFiles, ZenonT(30) DEF TypeOK
  <2>4. CallKeepsEnd' /\ TodoInWrite'
    BY <1>1, <2>1, ZenonT(30) DEF TypeOK, CallKeepsEnd, TodoInWrite
  <2>5. OpenWhileUsed' /\ OneCloser'
    <3>1. \A q \in Proc, e \in Ends : (at'[q] = Closing(e) <=> at[q] = Closing(e))
      BY <2>1, Zenon DEF Closing
    <3>. QED BY <3>1, SMTT(40) DEF OpenWhileUsed, OneCloser, Uses, Open
  <2>6. NoLostWakeup'
    <3>. HIDE DEF IInv, piperead, piperead_copy, files, Wakeup
    <3>1. Avail = 0 => Avail' = 0
      BY <1>3, <2>2, SMTT(40)
    <3>. QED BY <2>1, <3>1, Zenon DEF NoLostWakeup, piperead, IInv
  <2>. QED BY <2>3, <2>4, <2>5, <2>6, ZenonT(40)
<1>. QED BY <1>1, <1>2, <1>3, SMTT(40) DEF Least

-----------------------------------------------------------------------------
(* The invariants.                                                         *)

\* IInv holds in every state: see the comment at the top.
THEOREM InductiveInvariant == Spec => []IInv
<1>1. Init => IInv
  <2>. SUFFICES ASSUME Init PROVE IInv
    BY Zenon
  <2>. USE DEF Init
  <2>1. PIPESIZE \in Nat \ {0} /\ WRAP \in Nat \ {0} /\ PIPESIZE < WRAP
    BY SceneFacts, Zenon
  <2>2. Avail = 0
    <3>1. 0 \in 0 .. WRAP - 1 /\ 0 \in Int /\ 0 - 0 = 0
      BY <2>1, SMTT(40)
    <3>2. 0 % WRAP = 0
      BY <2>1, <3>1, ModIs, Zenon
    <3>. QED BY <3>1, <3>2, Zenon DEF Avail
  <2>3. \A e \in Ends : Cardinality(Holders(e)) = 0
    <3>1. \A e \in Ends : Holders(e) = {}
      BY Zenon DEF Holders
    <3>. QED BY <3>1, FewReferences, Zenon
  <2>4. TypeOK
    <3>1. /\ 0 \in 0 .. WRAP - 1 /\ Avail <= PIPESIZE /\ data \in [Index -> Byte]
      BY <2>1, <2>2, SMTT(40) DEF Byte
    <3>2. ref \in [Ends -> Nat] /\ \A e \in Ends : ref[e] = Cardinality(Holders(e))
      BY <2>3, Zenon
    <3>3. todo \in [Proc -> Seq(Byte)]
      BY NoBytes, Zenon
    <3>. QED BY <3>1, <3>2, <3>3, ZenonT(40) DEF TypeOK
  <2>5. CallKeepsEnd /\ OpenWhileUsed /\ OneCloser /\ TodoInWrite /\ NoLostWakeup
    BY Zenon DEF CallKeepsEnd, OpenWhileUsed, OneCloser, TodoInWrite, NoLostWakeup, Uses, Open,
           Closing, Ends
  <2>. QED BY <2>4, <2>5, Zenon DEF IInv
<1>2. IInv /\ [Next]_<<scene, vars>> => IInv'
  <2>. SUFFICES ASSUME IInv, [Next]_<<scene, vars>> PROVE IInv'
    BY Zenon
  <2>1. CASE Next
    BY <2>1, pipealloc_IInv, filedup_IInv, fileclose_IInv, pipeclose_IInv, sys_write_IInv,
       pipewrite_IInv, sys_read_IInv, piperead_IInv, kill_IInv, ZenonT(40) DEF Next
  <2>2. CASE UNCHANGED <<scene, vars>>
    <3>. USE <2>2 DEF vars, pipe, files
    <3>1. TypeOK'
      BY SameRing, SameFiles, ZenonT(40) DEF IInv, TypeOK
    <3>2. NoLostWakeup'
      BY SameRing, Zenon DEF IInv, NoLostWakeup
    <3>3. CallKeepsEnd' /\ OpenWhileUsed' /\ OneCloser' /\ TodoInWrite'
      BY Zenon DEF IInv, CallKeepsEnd, OpenWhileUsed, OneCloser, TodoInWrite, Uses, Open
    <3>. QED BY <3>1, <3>2, <3>3, ZenonT(40) DEF IInv
  <2>. QED BY <2>1, <2>2, Zenon
<1>. QED BY <1>1, <1>2, PTL DEF Spec

\* Whoever has an end open or is in a call finds the page in place.
LEMMA Unused ==
  ASSUME IInv
  PROVE  FreedUnused
<1>. USE DEF IInv, OpenWhileUsed, Uses, Open, Closing, Ends
<1>1. \A p \in Proc : /\ "r" \in fd[p] \/ at[p] = "closer" => readopen /\ ~freed
                      /\ "w" \in fd[p] \/ at[p] = "closew" => writeopen /\ ~freed
  BY Zenon
<1>2. ASSUME freed, NEW p \in Proc PROVE fd[p] = {} /\ at[p] = "user"
  <2>1. "r" \notin fd[p] /\ "w" \notin fd[p] /\ at[p] \notin {"closer", "closew"}
    BY <1>1, <1>2, Zenon
  <2>2. fd[p] = {}
    <3>1. fd[p] \in SUBSET {"r", "w"}
      BY Zenon DEF TypeOK
    <3>. QED BY <2>1, <3>1, Zenon
  <2>3. at[p] = "user"
    BY <2>1, Zenon DEF TypeOK, CallKeepsEnd
  <2>. QED BY <2>2, <2>3, Zenon
<1>3. ASSUME \A p \in Proc : fd[p] = {} /\ at[p] = "user" PROVE freed
  BY <1>3, Zenon
<1>. QED BY <1>1, <1>2, <1>3, Zenon DEF FreedUnused

\* The page of the pipe is free exactly if nobody can get at the pipe, however
\* many processes share it.
THEOREM FreedWhenUnused == Spec => []FreedUnused
<1>. QED BY Unused, InductiveInvariant, PTL

\* No reader and no writer sleeps through what it waits for, for any size of
\* the ring and wherever its counters wrap.
THEOREM SleepersWait == Spec => []NoLostWakeup
<1>1. IInv => NoLostWakeup
  BY Zenon DEF IInv
<1>. QED BY <1>1, InductiveInvariant, PTL

-----------------------------------------------------------------------------
(* The pipe implements the queue of bytes of module Stream.  A step of the *)
(* pipe that moves no bytes is an empty read of the queue.                 *)

\* A step that neither moves bytes nor starts a write is an empty read.
LEMMA IdleStep ==
  ASSUME TypeOK, Queue' = Queue, got' = <<>>, ~freed, UNCHANGED <<scene, freed, todo>>
  PROVE  S!SNext
<1>1. Queue \in Seq(Byte) /\ Len(Queue) \in Nat
  BY QueueFacts, SMTT(40) DEF QueueOK
<1>2. SubSeq(Queue, 1, 0) = <<>> /\ SubSeq(Queue, 0 + 0 + 1, Len(Queue)) = Queue
  BY <1>1, NoneAndAll, SMTT(40)
<1>3. S!SRead
  <2>1. 0 \in 0 .. Len(Queue) /\ 0 \in {0, 1} /\ 0 + 0 <= Len(Queue)
    BY <1>1, SMTT(40)
  <2>. QED BY <1>2, <2>1, Zenon DEF S!SRead, S!Take, S!Drop
<1>. QED BY <1>3, Zenon DEF S!SNext, PIPESIZE

\* A round of pipewrite appends k bytes; what is left to write is dropped if the
\* call returns.
LEMMA WriteStep ==
  ASSUME IInv, IInv', NEW p \in Proc, at[p] = "write",
         NEW k \in 0 .. Room, k <= Len(todo[p]), Store(p, k), UNCHANGED scene,
         todo' = [todo EXCEPT ![p] = <<>>] \/ todo' = [todo EXCEPT ![p] = Rest(@, k)],
         got' = <<>>
  PROVE  S!SNext
<1>1. ~freed
  BY Zenon DEF IInv, CallKeepsEnd, OpenWhileUsed, Uses, Open, Ends
<1>2. Queue' = Queue \o SubSeq(todo[p], 1, k) /\ Len(Queue) + k <= PIPESIZE
  BY <1>1, StoredQueue, Zenon DEF IInv
<1>3. k \in 0 .. Len(todo[p])
  <2>1. Len(todo[p]) \in Nat /\ Room \in Nat
    BY RoomFacts, NoneAndAll, SMTT(40) DEF IInv, TypeOK
  <2>. QED BY <2>1, SMTT(40)
<1>4. \E rest \in {SubSeq(todo[p], k + 1, Len(todo[p])), <<>>} :
        todo' = [todo EXCEPT ![p] = rest]
  BY Zenon DEF Rest
<1>5. S!SWrite(p)
  BY <1>1, <1>2, <1>3, <1>4, Zenon DEF S!SWrite, S!Take, S!Drop, Store
<1>. QED BY <1>5, Zenon DEF S!SNext, PIPESIZE

\* piperead delivers the first k bytes, and may lose one more.
LEMMA ReadStep ==
  ASSUME IInv, IInv', NEW p \in Proc, at[p] = "read",
         NEW k \in 0 .. Avail, NEW lost \in {0, 1}, k + lost <= Avail,
         piperead_copy(p, k, lost), UNCHANGED <<scene, nwrite, freed, todo>>
  PROVE  S!SNext
<1>1. ~freed
  BY Zenon DEF IInv, CallKeepsEnd, OpenWhileUsed, Uses, Open, Ends
<1>2. /\ Queue \in Seq(Byte) /\ Len(Queue) = Avail /\ Avail \in Nat /\ nread \in Nat
      /\ \A i \in 1 .. Avail : Queue[i] = data[Slot(nread + i - 1)]
  <2>1. TypeOK /\ QueueOK
    BY QueueFacts, Zenon DEF IInv
  <2>2. Avail \in Nat
    BY <2>1, RoomFacts, SMTT(40)
  <2>3. nread \in Nat
    BY <2>1, SceneFacts, SMTT(40) DEF TypeOK
  <2>. QED BY <1>1, <2>1, <2>2, <2>3, Zenon DEF QueueOK
<1>3. Queue' = SubSeq(Queue, k + lost + 1, Len(Queue))
  <2>1. k + lost \in 0 .. Avail /\ nread + k + lost = nread + (k + lost)
    BY <1>2, SMTT(40)
  <2>2. nread' = (nread + (k + lost)) % WRAP /\ UNCHANGED <<scene, nwrite, data, freed>>
    BY <2>1, Zenon DEF piperead_copy
  <2>. QED BY <1>1, <2>1, <2>2, TakenQueue, ZenonT(40) DEF IInv
<1>4. got' = SubSeq(Queue, 1, k)
  <2>1. got' = [i \in 1 .. k |-> Queue[i]]
    <3>1. \A i \in 1 .. k : i \in 1 .. Avail
      BY <1>2, SMTT(40)
    <3>2. \A i \in 1 .. k : data[Slot(nread + i - 1)] = Queue[i]
      BY <1>2, <3>1, Zenon
    <3>. QED BY <3>2, Zenon DEF piperead_copy
  <2>. QED BY <1>2, <2>1, SMTT(40)
<1>5. S!SRead
  BY <1>1, <1>2, <1>3, <1>4, Zenon DEF S!SRead, S!Take, S!Drop
<1>. QED BY <1>5, Zenon DEF S!SNext, PIPESIZE

\* The last pipeclose gives up what is in the pipe; nobody is writing then.
LEMMA CloseStep ==
  ASSUME IInv, IInv', NEW p \in Proc, pipeclose(p), UNCHANGED scene
  PROVE  S!SNext
<1>0. ~freed
  BY Unused, Zenon DEF FreedUnused, pipeclose
<1>1. CASE freed'
  <2>1. \A q \in Proc : todo'[q] = <<>>
    BY <1>1, Zenon DEF IInv, TodoInWrite, CallKeepsEnd, OpenWhileUsed, Uses, Open, Ends
  <2>2. Queue' = <<>>
    BY <1>1, Zenon DEF Queue
  <2>3. S!SClose
    BY <1>0, <1>1, <2>1, <2>2, Zenon DEF S!SClose, pipeclose, IInv, TypeOK
  <2>. QED BY <2>3, Zenon DEF S!SNext, PIPESIZE
<1>2. CASE ~freed'
  <2>1. freed' = freed
    BY <1>0, <1>2, Zenon DEF IInv, TypeOK
  <2>2. Queue' = Queue
    BY <2>1, SameQueue, ZenonT(30) DEF pipeclose
  <2>. QED BY <1>0, <2>1, <2>2, IdleStep, ZenonT(40) DEF IInv, pipeclose
<1>. QED BY <1>1, <1>2, Zenon

\* Every step of the pipe is a step of the queue, or leaves it alone.
LEMMA StreamStep ==
  ASSUME IInv, IInv', [Next]_<<scene, vars>>
  PROVE  [S!SNext]_(S!svars)
<1>. USE DEF IInv
<1>0. /\ scene \in Scene /\ scene.procs \subseteq Proc
      /\ scene.message \subseteq Message
  BY SceneFacts, Zenon DEF TypeOK
<1>. HIDE DEF IInv
<1>used. \A p \in Proc : fd[p] # {} \/ at[p] # "user" => ~freed
  BY Unused, Zenon DEF FreedUnused
<1>. USE DEF IInv
<1>1. ASSUME NEW p \in Proc, pipealloc(p), UNCHANGED scene PROVE S!SNext
  <2>1. Queue = <<>>
    BY <1>1, Zenon DEF pipealloc, Queue
  <2>2. Queue' = <<>>
    <3>1. Avail' = 0
      <4>1. 0 \in 0 .. WRAP - 1 /\ WRAP \in Nat \ {0} /\ 0 \in Int /\ 0 - 0 = 0
        BY SceneFacts, SMTT(40) DEF TypeOK
      <4>2. 0 % WRAP = 0
        BY <4>1, ModIs, Zenon
      <4>. QED BY <1>1, <4>1, <4>2, ZenonT(40) DEF pipealloc, Avail, WRAP
    <3>2. Len(Queue') = 0 /\ Queue' \in Seq(Byte)
      BY <1>1, <3>1, QueueFactsNext, Zenon DEF QueueOK, pipealloc
    <3>. QED BY <3>2, NoBytes, Zenon
  <2>3. S!SOpen
    BY <1>1, <2>1, <2>2, Zenon DEF S!SOpen, pipealloc, TypeOK
  <2>. QED BY <1>1, <2>3, Zenon DEF S!SNext, PIPESIZE
<1>2. ASSUME NEW p \in Proc, sys_write(p), p \in scene.procs, UNCHANGED scene PROVE S!SNext
  <2>1. todo[p] = <<>> /\ Queue' = Queue
    BY <1>2, SameQueue, Zenon DEF TodoInWrite, sys_write, pipe
  <2>2. S!SStart(p)
    BY <1>0, <1>used, <1>2, <2>1, ZenonT(30) DEF S!SStart, sys_write, pipe
  <2>. QED BY <1>2, <2>2, Zenon DEF S!SNext, PIPESIZE
<1>3. ASSUME NEW p \in Proc, kill(p) \/ sys_read(p), UNCHANGED scene PROVE S!SNext
  <2>1. ~freed
    BY <1>used, <1>3, Zenon DEF kill, sys_read
  <2>. QED BY <1>3, <2>1, SameQueue, IdleStep, ZenonT(40) DEF kill, sys_read, pipe
<1>4. ASSUME NEW p \in Proc, (\E e \in Ends : fileclose(p, e)) \/ (\E q \in Proc : filedup(p, q)),
             UNCHANGED scene
      PROVE  S!SNext
  <2>1. ~freed
    BY <1>used, <1>4, Zenon DEF fileclose, filedup
  <2>. QED BY <1>4, <2>1, SameQueue, IdleStep, ZenonT(40) DEF fileclose, filedup, pipe
<1>5. ASSUME NEW p \in Proc, pipewrite(p), UNCHANGED scene PROVE S!SNext
  <2>. DEFINE n == Len(todo[p])  most == Least(n, Room)
  <2>1. n \in Nat /\ Room \in Nat /\ at[p] = "write" /\ got' = <<>>
    <3>1. at[p] = "write" /\ got' = <<>>
      BY <1>5, Zenon DEF pipewrite
    <3>2. todo[p] \in Seq(Byte)
      BY Zenon DEF TypeOK
    <3>3. n \in Nat
      BY <3>2, NoneAndAll, Zenon
    <3>4. Room \in 0 .. PIPESIZE
      BY RoomFacts, Zenon
    <3>5. Room \in Nat
      BY <3>4, SMTT(40)
    <3>. QED BY <3>1, <3>3, <3>5, Zenon
  <2>2. /\ \A k \in 0 .. most : k \in 0 .. Room /\ k <= n
        /\ 0 \in 0 .. most /\ (Room >= n => n \in 0 .. most)
    BY <2>1, SMTT(40) DEF Least
  <2>3. ASSUME NEW k \in 0 .. most, pipewrite_killed(p, k) \/ pipewrite_done(p, k)
        PROVE  S!SNext
    BY <1>5, <2>1, <2>2, <2>3, WriteStep, ZenonT(40) DEF pipewrite_killed, pipewrite_done
  <2>4. ASSUME Room < n, pipewrite_full(p, Room) PROVE S!SNext
    <3>1. Room \in 0 .. Room /\ Room <= n
      BY <2>1, <2>4, SMTT(40)
    <3>. QED BY <1>5, <2>1, <2>4, <3>1, WriteStep, ZenonT(30) DEF pipewrite_full
  <2>5. CASE pipewrite_closed(p)
    <3>1. Queue' = Queue
      BY <1>5, <2>5, SameQueue, ZenonT(40) DEF pipewrite_closed, pipe
    <3>2. Queue \in Seq(Byte) /\ todo[p] \in Seq(Byte)
      BY QueueFacts, Zenon DEF QueueOK, TypeOK
    <3>3. /\ SubSeq(todo[p], 1, 0) = <<>> /\ Queue \o <<>> = Queue
          /\ Len(Queue) + 0 <= PIPESIZE /\ 0 \in 0 .. n
      <4>1. Len(Queue) <= PIPESIZE /\ Len(Queue) \in Nat
        <5>1. CASE freed
          BY <5>1, RoomFacts, SMTT(40) DEF Queue
        <5>2. CASE ~freed
          BY <5>2, QueueFacts, RoomFacts, SMTT(40) DEF QueueOK
        <5>. QED BY <5>1, <5>2, Zenon
      <4>. QED BY <2>1, <3>2, <4>1, NoneAndAll, SMTT(40)
    <3>4. S!SWrite(p)
      <4>1. ~freed /\ freed' = freed
        BY <1>used, <2>1, <2>5, Zenon DEF pipewrite_closed, pipe
      <4>. QED BY <2>1, <2>5, <3>1, <3>3, <4>1, ZenonT(30)
               DEF S!SWrite, S!Take, S!Drop, pipewrite_closed
    <3>. QED BY <1>5, <3>4, Zenon DEF S!SNext, PIPESIZE
  <2>. QED BY <1>5, <2>2, <2>3, <2>4, <2>5, ZenonT(40) DEF pipewrite
<1>6. ASSUME NEW p \in Proc, piperead(p), UNCHANGED scene PROVE S!SNext
  <2>. DEFINE most == Least(want[p], Avail)
  <2>1. Avail \in Nat /\ want[p] \in Nat /\ at[p] = "read"
    BY <1>6, RoomFacts, SceneFacts, SMTT(40) DEF TypeOK, piperead
  <2>2. /\ most \in 0 .. Avail /\ most + 0 <= Avail /\ 0 \in {0, 1} /\ 1 \in {0, 1}
        /\ \A k \in 0 .. most - 1 : k \in 0 .. Avail /\ k + 1 <= Avail
    BY <2>1, SMTT(40) DEF Least
  <2>3. UNCHANGED <<scene, nwrite, freed, todo>>
    BY <1>6, Zenon DEF piperead
  <2>4. CASE piperead_copy(p, most, 0)
    BY <2>1, <2>2, <2>3, <2>4, ReadStep, Zenon
  <2>5. ASSUME NEW k \in 0 .. most - 1, piperead_copy(p, k, 1) PROVE S!SNext
    BY <2>1, <2>2, <2>3, <2>5, ReadStep, Zenon
  <2>6. CASE piperead_empty(p)
    <3>1. ~freed
      BY <1>used, <2>1, Zenon
    <3>. QED BY <2>3, <2>6, <3>1, SameQueue, IdleStep, ZenonT(40) DEF piperead_empty
  <2>. QED BY <1>6, <2>4, <2>5, <2>6, ZenonT(40) DEF piperead
<1>7. CASE Next
  BY <1>0, <1>1, <1>2, <1>3, <1>4, <1>5, <1>6, <1>7, CloseStep, ZenonT(40) DEF Next
<1>8. CASE UNCHANGED <<scene, vars>>
  BY <1>8, SameQueue, Zenon DEF S!svars, vars, pipe, PIPESIZE
<1>. QED BY <1>7, <1>8, Zenon

\* The pipe implements the queue of bytes of module Stream: for every size of
\* the ring, every width of the counters and any number of readers and writers.
THEOREM ImplementsStream == Spec => Fifo
<1>1. Init => S!SInit
  <2>. SUFFICES ASSUME Init PROVE S!SInit
    BY Zenon
  <2>1. Queue = <<>> /\ PIPESIZE \in Nat /\ freed \in BOOLEAN
    BY SceneFacts, Zenon DEF Init, Queue
  <2>. QED BY <2>1, Zenon DEF S!SInit, Init
<1>2. IInv /\ IInv' /\ [Next]_<<scene, vars>> => [S!SNext]_(S!svars)
  BY StreamStep, Zenon
<1>. QED BY <1>1, <1>2, InductiveInvariant, PTL DEF Spec, Fifo, S!SSpec
=============================================================================
