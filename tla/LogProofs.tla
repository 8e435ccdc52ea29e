------------------------------ MODULE LogProofs ------------------------------
(***************************************************************************)
(* Proofs about the log (module Log): its inductive invariant, that it     *)
(* never panics, and that it makes operations atomic with respect to       *)
(* crashes.                                                                *)
(*                                                                         *)
(* IInv says, for each phase of commit and of recovery, which buffers are  *)
(* pinned, which log blocks are copies of buffers and which home blocks    *)
(* are copies of log blocks.  It says of a kernel that has panicked only   *)
(* that the header on disk is a log, which is what recovery needs.         *)
(***************************************************************************)
EXTENDS Log, FiniteSetTheorems, SequenceTheorems, TLAPS

Ops == {"none", "read_head", "write_log", "install_trans", "end_op"}

TypeOK ==
  /\ home \in [Block -> Val]
  /\ logblk \in [LogSlot -> Val]
  /\ head \in Seq(Block)
  /\ cache \in [Block -> Val \cup {NotCached}]
  /\ refcnt \in [Block -> Int]
  /\ lh \in Seq(Block)
  /\ outstanding \in Nat
  /\ committing \in BOOLEAN
  /\ pc \in [Proc -> {"user", "begin", "asleep", "op", "commit"}]
  /\ wrote \in [Proc -> SUBSET Block]
  /\ todo \in [op : Ops, tail : Nat]
  /\ panic \in {"none", "too_big_a_transaction", "log_write_outside_of_trans", "log.committing"}

\* A log: its blocks differ, and there is room for them on disk.
LogOK(s) ==
  /\ Len(s) < NLOG
  /\ \A i, j \in 1 .. Len(s) : s[i] = s[j] => i = j

\* The processes inside an operation.
Active == {p \in Proc : pc[p] = "op"}

\* The blocks that the log keeps in the cache: all that are logged and not yet
\* installed, but none that recovery installs.
Pinned ==
  {lh[i] : i \in {j \in 1 .. Len(lh) :
     ~Booting /\ (todo.op = "install_trans" => j >= todo.tail)}}

\* A logged block stays in the cache, pinned once; the buffer of any other block
\* is not pinned and no different from the disk.
CacheOK ==
  \A b \in Block :
    IF b \in Pinned THEN refcnt[b] = 1 /\ cache[b] # NotCached
    ELSE refcnt[b] = 0 /\ cache[b] \in {NotCached, home[b]}

\* The phases of commit and recovery, and what the two headers are in each.
Phase ==
  /\ committing => todo.op \in {"write_log", "install_trans", "end_op"}
  /\ todo.op \in {"write_log", "end_op"} => committing
  /\ todo.op \in {"read_head", "end_op"} => lh = <<>>
  /\ todo.op \in {"write_log", "install_trans"} => todo.tail \in 1 .. Len(lh) + 1
  /\ todo.op # "read_head" => head = IF todo.op = "install_trans" THEN lh ELSE <<>>

\* How far write_log and install_trans have got.
Copied ==
  \A i \in 1 .. Len(lh) :
    /\ todo.op = "write_log" /\ i < todo.tail => logblk[i] = cache[lh[i]]
    /\ todo.op = "install_trans" /\ committing /\ i >= todo.tail => logblk[i] = cache[lh[i]]
    /\ todo.op = "install_trans" /\ i < todo.tail => home[lh[i]] = logblk[i]

\* log.outstanding counts the operations under way; there are none while a commit
\* or recovery runs, and nothing is logged when there are none.
Counted ==
  /\ IsFiniteSet(Active) /\ outstanding = Cardinality(Active)
  /\ todo.op # "none" => Active = {}
  /\ todo.op = "none" /\ Active = {} => lh = <<>>

Running == LogOK(lh) /\ Phase /\ CacheOK /\ Copied /\ Counted

IInv == TypeOK /\ LogOK(head) /\ (panic = "none" => Running)

\* The scene is one of those that the constants allow.
SInv == scene \in Scene

\* The blocks that the operations under way may still log, as pairs of a process
\* and the ordinal number of its block.
Left == {w \in Active \X (1 .. OPMAX) : w[2] > Cardinality(wrote[w[1]])}

\* What begin_op has reserved: there is room in the log for all of these, and
\* for one block more, since operations log less than begin_op reserves for them.
Room ==
  /\ \A p \in Proc : /\ IsFiniteSet(wrote[p]) /\ wrote[p] \subseteq Members(lh)
                     /\ pc[p] # "op" => wrote[p] = {}
  /\ Active # {} => Len(lh) + Cardinality(Left) <= LOGSIZE - 2

\* What the assumptions say of the constants.
LEMMA Const ==
  /\ InitVal \in Val /\ NotCached \notin Val
  /\ MAXOPBLOCKS \in Nat /\ MAXOPBLOCKS > 0
  /\ NLOG = 3 * MAXOPBLOCKS /\ LOGSIZE = NLOG
BY LogAssumption DEF NLOG, LOGSIZE, NotCached

\* What a scene says: an operation has a bound, and writes are of processes,
\* blocks and contents.
LEMMA Staged ==
  ASSUME SInv
  PROVE  /\ OPMAX \in Nat /\ Operating \subseteq Proc
         /\ \A w \in scene.writes : w[1] \in Proc /\ w[2] \in Block /\ w[3] \in Val
<1>1. scene \in [writes : SUBSET (Proc \X Block \X Val), opmax : 0 .. MAXOPBLOCKS]
  BY LogAssumption, Zenon DEF SInv
<1>2. scene.opmax \in 0 .. MAXOPBLOCKS /\ scene.writes \subseteq Proc \X Block \X Val
  BY <1>1, SMTT(40)
<1>3. \A w \in scene.writes : w[1] \in Proc /\ w[2] \in Block /\ w[3] \in Val
  BY <1>2, SMTT(40)
<1>. QED BY <1>2, <1>3, Const, SMTT(40) DEF OPMAX, Operating

\* The scene never changes.
LEMMA Scene_fixed == SInv /\ [Next]_vars => SInv' /\ UNCHANGED scene
BY Zenon DEF SInv, Next, LogStep, begin_op, end_op, log_write, Recycle, write_log, write_head,
             read_head, install_trans, clear_head, committed, Crash, kernel, vars

\* The two headers as sequences.
LEMMA Headers ==
  ASSUME TypeOK
  PROVE  /\ Len(lh) \in Nat /\ \A i \in 1 .. Len(lh) : lh[i] \in Block
         /\ Len(head) \in Nat /\ \A i \in 1 .. Len(head) : head[i] \in Block
<1>1. lh \in Seq(Block) /\ head \in Seq(Block)
  BY Zenon DEF TypeOK
<1>. QED BY <1>1, LenProperties, ElementOfSeq, Zenon

\* The empty log.
LEMMA NoBlocks ==
  <<>> \in Seq(Block) /\ Len(<<>>) = 0 /\ LogOK(<<>>) /\ Members(<<>>) = {}
<1>1. <<>> \in Seq(Block) /\ Len(<<>>) = 0
  BY EmptySeq, Zenon
<1>. QED BY <1>1, Const, SMTT(40) DEF LogOK, Members

\* initlog is about to run, and nothing is cached or logged.
LEMMA Init_IInv == Init => IInv
<1> SUFFICES ASSUME Init PROVE IInv
  BY Zenon
<1>1. TypeOK
  <2>1. lh \in Seq(Block) /\ head \in Seq(Block)
    BY NoBlocks, Zenon DEF Init
  <2>2. todo \in [op : Ops, tail : Nat]
    BY Zenon DEF Init, At, Ops
  <2>3. /\ home \in [Block -> Val] /\ logblk \in [LogSlot -> Val]
        /\ cache \in [Block -> Val \cup {NotCached}]
    BY Const, Zenon DEF Init
  <2>4. refcnt \in [Block -> Int]
    BY DEF Init
  <2>5. pc \in [Proc -> {"user", "begin", "asleep", "op", "commit"}] /\ wrote \in [Proc -> SUBSET Block]
    BY Zenon DEF Init
  <2>. QED BY <2>1, <2>2, <2>3, <2>4, <2>5, Zenon DEF Init, TypeOK
<1>2. Active = {} /\ Booting
  BY Zenon DEF Init, Active, Booting, At
<1>3. LogOK(<<>>)
  BY NoBlocks, Zenon
<1>4. Counted
  BY <1>2, FS_EmptySet, Zenon DEF Counted, Init, At
<1>5. CacheOK
  BY <1>2, Zenon DEF CacheOK, Pinned, Init, At
<1>. QED BY <1>1, <1>3, <1>4, <1>5, Zenon DEF IInv, Running, Phase, Copied, Init, At

\* A crash may come at any point, since the header on disk is always a log.
LEMMA Crash_IInv ==
  ASSUME IInv, Crash PROVE IInv'
<1>1. TypeOK'
  <2>1. lh' \in Seq(Block)
    BY NoBlocks, Zenon DEF Crash
  <2>2. todo' \in [op : Ops, tail : Nat]
    BY Zenon DEF Crash, At, Ops
  <2>3. cache' \in [Block -> Val \cup {NotCached}] /\ refcnt' \in [Block -> Int]
    BY DEF Crash
  <2>4. outstanding' \in Nat /\ committing' \in BOOLEAN
    BY Zenon DEF Crash
  <2>5. pc' \in [Proc -> {"user", "begin", "asleep", "op", "commit"}] /\ wrote' \in [Proc -> SUBSET Block]
    BY Zenon DEF Crash
  <2>. QED BY <2>1, <2>2, <2>3, <2>4, <2>5, Zenon DEF IInv, Crash, ondisk, TypeOK
<1>2. (Active = {} /\ Booting)'
  BY Zenon DEF Crash, Active, Booting, At
<1>3. LogOK(<<>>) /\ LogOK(head)'
  BY NoBlocks, Zenon DEF IInv, Crash, ondisk
<1>4. Counted'
  BY <1>2, FS_EmptySet, Zenon DEF Counted, Crash, At
<1>5. CacheOK'
  BY <1>2, Zenon DEF CacheOK, Pinned, Crash, At
<1>. QED BY <1>1, <1>3, <1>4, <1>5, Zenon DEF IInv, Running, Phase, Copied, Crash, At

\* bget never takes a buffer that the log still needs: those are pinned.
LEMMA Recycle_IInv ==
  ASSUME IInv, NEW b \in Block, Recycle(b) PROVE IInv'
<1>1. Running /\ panic = "none"
  BY Zenon DEF IInv, Recycle, Runs
<1>2. TypeOK'
  BY Zenon DEF IInv, Recycle, ondisk, TypeOK
<1>3. Active' = Active /\ Booting' = Booting /\ Pinned' = Pinned
  BY Zenon DEF Recycle, Active, Booting, Pinned
<1>4. b \notin Pinned
  BY <1>1, SMTT(40) DEF Running, CacheOK, Recycle
<1>5. CacheOK'
  <2> SUFFICES ASSUME NEW c \in Block
      PROVE IF c \in Pinned THEN refcnt[c] = 1 /\ cache'[c] # NotCached
            ELSE refcnt[c] = 0 /\ cache'[c] \in {NotCached, home[c]}
    BY <1>3, Zenon DEF CacheOK, Recycle, ondisk
  <2>1. cache'[c] = IF c = b THEN NotCached ELSE cache[c]
    BY Zenon DEF Recycle, IInv, TypeOK
  <2>. QED BY <1>1, <1>4, <2>1, Zenon DEF Running, CacheOK
<1>6. Counted'
  BY <1>1, <1>3, Zenon DEF Running, Counted, Recycle
<1>7. Copied'
  <2> SUFFICES ASSUME NEW i \in 1 .. Len(lh)
      PROVE /\ todo.op = "write_log" /\ i < todo.tail => logblk[i] = cache'[lh[i]]
            /\ todo.op = "install_trans" /\ committing /\ i >= todo.tail => logblk[i] = cache'[lh[i]]
            /\ todo.op = "install_trans" /\ i < todo.tail => home[lh[i]] = logblk[i]
    BY Zenon DEF Copied, Recycle, ondisk
  <2>1. lh[i] \in Block /\ todo.tail \in Nat /\ i \in Nat
    BY Headers, SMTT(40) DEF IInv, TypeOK
  <2>2. lh[i] # b => cache'[lh[i]] = cache[lh[i]]
    BY <2>1, Zenon DEF Recycle, IInv, TypeOK
  <2>3. lh[i] = b => todo.op = "install_trans" /\ (~Booting => i < todo.tail)
    BY <1>4, <2>1, SMTT(40) DEF Pinned, Recycle, Runs
  <2>. QED BY <1>1, <2>1, <2>2, <2>3, SMTT(40) DEF Running, Copied, Recycle, Runs
<1>. QED BY <1>1, <1>2, <1>5, <1>6, <1>7, Zenon DEF IInv, Running, Phase, Recycle, ondisk

\* begin_op counts the operations that it lets in.
LEMMA begin_op_IInv ==
  ASSUME IInv, NEW p \in Proc, begin_op(p) PROVE IInv'
<1>1. Running /\ panic = "none"
  BY Zenon DEF IInv, begin_op, Runs
<1>2. TypeOK'
  <2>1. outstanding + 1 \in Nat
    BY DEF IInv, TypeOK
  <2>. QED BY <2>1, Zenon DEF IInv, begin_op, ondisk, TypeOK
<1>3. Booting' = Booting /\ Pinned' = Pinned
  BY Zenon DEF begin_op, Booting, Pinned
<1>4. Counted'
  <2>1. CASE LogFull
    <3>1. Active' = Active
      BY <2>1, Zenon DEF Active, begin_op, IInv, TypeOK
    <3>. QED BY <3>1, <2>1, <1>1, Zenon DEF begin_op, Running, Counted
  <2>2. CASE ~LogFull
    <3>1. Active' = Active \cup {p} /\ p \notin Active
      BY <2>2, Zenon DEF Active, begin_op, IInv, TypeOK
    <3>2. IsFiniteSet(Active) /\ outstanding = Cardinality(Active)
      BY <1>1, Zenon DEF Running, Counted
    <3>3. IsFiniteSet(Active') /\ outstanding' = Cardinality(Active')
      BY <3>1, <3>2, FS_AddElement, <2>2, Zenon DEF begin_op
    <3>4. todo.op = "none"
      BY <2>2, Zenon DEF begin_op, LogFull, Runs, Booting
    <3>5. p \in Active' /\ UNCHANGED <<todo, lh>>
      BY <3>1, Zenon DEF begin_op
    <3>. QED BY <3>3, <3>4, <3>5, Zenon DEF Counted
  <2>. QED BY <2>1, <2>2, Zenon
<1>. QED BY <1>1, <1>2, <1>3, <1>4, SMTT(40)
  DEF IInv, Running, Phase, CacheOK, Copied, LogOK, begin_op, ondisk

\* An element at the end of a sequence.
LEMMA Appended ==
  ASSUME NEW S, NEW s \in Seq(S), NEW x \in S
  PROVE  /\ Append(s, x) \in Seq(S) /\ Len(Append(s, x)) = Len(s) + 1
         /\ \A i \in 1 .. Len(s) : Append(s, x)[i] = s[i]
         /\ Append(s, x)[Len(s) + 1] = x
         /\ Len(s) \in Nat
OBVIOUS

\* log_write pins a block that is new in the log, once.
LEMMA log_write_IInv ==
  ASSUME IInv, NEW p \in Proc, NEW b \in Block, NEW v \in Val, log_write(p, b, v) PROVE IInv'
<1>1. Running /\ panic = "none" /\ TypeOK
  BY Zenon DEF IInv, log_write, Runs
<1>2. TypeOK'
  <2>1. lh' \in Seq(Block)
    <3>1. lh \in Seq(Block) /\ Append(lh, b) \in Seq(Block)
      BY <1>1, Appended, Zenon DEF TypeOK
    <3>2. lh' = lh \/ lh' = Append(lh, b)
      BY Zenon DEF log_write
    <3>. QED BY <3>1, <3>2, Zenon
  <2>2. refcnt' \in [Block -> Int]
    <3>1. Pin(b) \in [Block -> Int]
      BY <1>1, SMTT(40) DEF Pin, TypeOK
    <3>2. refcnt' \in {refcnt, Pin(b)}
      BY Zenon DEF log_write
    <3>. QED BY <3>1, <3>2, <1>1, Zenon DEF TypeOK
  <2>3. wrote' \in [Proc -> SUBSET Block]
    <3>1. wrote' = wrote \/ wrote' = [wrote EXCEPT ![p] = wrote[p] \cup {b}]
      BY Zenon DEF log_write
    <3>2. wrote \in [Proc -> SUBSET Block] /\ wrote[p] \cup {b} \in SUBSET Block
      BY <1>1, Zenon DEF TypeOK
    <3>. QED BY <3>1, <3>2, Zenon
  <2>4. cache' \in [Block -> Val \cup {NotCached}]
    BY <1>1, Zenon DEF log_write, TypeOK
  <2>. QED BY <2>1, <2>2, <2>3, <2>4, <1>1, Zenon DEF log_write, ondisk, TypeOK
<1>3. CASE panic' # "none"
  BY <1>2, <1>3, Zenon DEF IInv, log_write, ondisk, LogOK
<1>4. CASE panic' = "none"
  <2>1. /\ Len(lh) < NLOG - 1
        /\ lh' = IF b \in Members(lh) THEN lh ELSE Append(lh, b)
        /\ refcnt' = Pin(b)
    BY <1>4, <1>1, Const, SMTT(40) DEF log_write, TypeOK
  <2>2. Active' = Active /\ Active # {} /\ todo.op = "none" /\ ~committing /\ ~Booting /\ ~Booting'
    BY <1>1, Zenon DEF Active, log_write, Running, Counted, Phase, Booting
  <2>3. Counted'
    BY <1>1, <2>2, Zenon DEF Running, Counted, log_write
  <2>4. Pinned = Members(lh) /\ Pinned' = Members(lh')
    BY <2>2, Zenon DEF Pinned, Members, log_write
  <2>5. LogOK(lh') /\ Members(lh') = Members(lh) \cup {b}
    <3>1. CASE b \in Members(lh)
      BY <3>1, <2>1, <1>1, Zenon DEF Running
    <3>2. CASE b \notin Members(lh)
      <4>1. /\ Len(lh') = Len(lh) + 1 /\ Len(lh) \in Nat
            /\ \A i \in 1 .. Len(lh) : lh'[i] = lh[i]
            /\ lh'[Len(lh) + 1] = b
        BY <2>1, <3>2, Appended, <1>1, SMTT(40) DEF TypeOK
      <4>2. \A i \in 1 .. Len(lh) : lh[i] # b
        BY <3>2, Zenon DEF Members
      <4>3. LogOK(lh')
        BY <4>1, <4>2, <2>1, <1>1, Const, SMTT(40) DEF LogOK, Running
      <4>4. Members(lh') = Members(lh) \cup {b}
        BY <4>1, SMTT(40) DEF Members
      <4>. QED BY <4>3, <4>4, Zenon
    <3>. QED BY <3>1, <3>2, Zenon
  <2>6. CacheOK'
    <3> SUFFICES ASSUME NEW c \in Block
        PROVE IF c \in Members(lh') THEN refcnt'[c] = 1 /\ cache'[c] # NotCached
              ELSE refcnt'[c] = 0 /\ cache'[c] \in {NotCached, home[c]}
      BY <2>4, Zenon DEF CacheOK, log_write, ondisk
    <3>1. CASE c = b
      BY <3>1, <2>1, <2>4, <2>5, <1>1, Const, SMTT(40) DEF Running, CacheOK, log_write, Pin, TypeOK
    <3>2. CASE c # b
      BY <3>2, <2>1, <2>4, <2>5, <1>1, Zenon DEF Running, CacheOK, log_write, Pin, TypeOK
    <3>. QED BY <3>1, <3>2, Zenon
  <2>7. Copied' /\ Phase'
    BY <2>2, <1>1, Zenon DEF Copied, Phase, log_write, ondisk, Running
  <2>. QED BY <1>1, <1>2, <2>3, <2>5, <2>6, <2>7, Zenon DEF IInv, Running, log_write, ondisk
<1>. QED BY <1>3, <1>4, Zenon

\* The last operation to end starts the commit.  It finds no other commit under
\* way, so that end_op does not panic.
LEMMA end_op_IInv ==
  ASSUME IInv, NEW p \in Proc, end_op(p) PROVE IInv' /\ panic' = "none"
<1>1. Running /\ panic = "none" /\ TypeOK
  BY Zenon DEF IInv, end_op, Runs
<1>2. p \in Active /\ Active # {} /\ todo.op = "none" /\ ~committing /\ ~Booting
  BY <1>1, Zenon DEF end_op, Active, Running, Counted, Phase, Booting
<1>3. Active' = Active \ {p}
  BY <1>1, Zenon DEF end_op, Active, TypeOK, Wakeup
<1>4. /\ IsFiniteSet(Active) /\ outstanding = Cardinality(Active)
      /\ IsFiniteSet(Active') /\ Cardinality(Active') = Cardinality(Active) - 1
      /\ Cardinality(Active) \in Nat /\ Cardinality(Active') \in Nat
  BY <1>1, <1>2, <1>3, FS_RemoveElement, FS_CardinalityType, Zenon DEF Running, Counted
<1>5. outstanding = 1 <=> Active' = {}
  BY <1>4, FS_EmptySet, SMTT(40)
<1>6. TypeOK'
  BY <1>1, <1>2, <1>4, Zenon DEF end_op, TypeOK, Wakeup, At, Ops, ondisk
<1>7. Counted'
  BY <1>2, <1>4, <1>5, Zenon DEF Counted, end_op, At
<1>8. ~Booting' /\ Pinned' = Pinned /\ todo'.op \in {"none", "write_log"}
  BY <1>2, Zenon DEF Booting, Pinned, end_op, At
<1>9. CacheOK'
  BY <1>1, <1>8, Zenon DEF Running, CacheOK, end_op, ondisk
<1>10. Phase' /\ Copied'
  <2>1. Len(lh) \in Nat /\ UNCHANGED <<lh, logblk, cache, home, head>>
    BY <1>1, Headers, Zenon DEF end_op, ondisk
  <2>2. \/ todo' = todo /\ ~committing'
        \/ todo' = [op |-> "write_log", tail |-> 1] /\ committing'
    BY <1>2, Zenon DEF end_op, At
  <2>3. Phase'
    BY <2>1, <2>2, <1>1, <1>2 DEF Phase, Running
  <2>4. Copied'
    BY <2>1, <2>2, <1>2 DEF Copied
  <2>. QED BY <2>3, <2>4, Zenon
<1>. QED BY <1>1, <1>2, <1>6, <1>7, <1>9, <1>10, ZenonT(40) DEF IInv, Running, end_op, ondisk

\* The bread of write_log finds its buffer in the cache, which bpin keeps there:
\* it copies the cached block to the log and leaves the cache as it is.
LEMMA write_log_copies ==
  ASSUME IInv, write_log
  PROVE  /\ Running /\ TypeOK /\ panic = "none" /\ committing
         /\ todo.tail \in 1 .. Len(lh) /\ todo.tail \in LogSlot /\ lh[todo.tail] \in Block
         /\ cache' = cache
         /\ logblk' = [logblk EXCEPT ![todo.tail] = cache[lh[todo.tail]]]
<1>1. Running /\ TypeOK /\ panic = "none" /\ todo.op = "write_log"
  BY Zenon DEF IInv, write_log
<1>2. committing /\ ~Booting /\ todo.tail \in 1 .. Len(lh) + 1 /\ todo.tail <= Len(lh)
  BY <1>1, Zenon DEF Running, Phase, Booting, write_log
<1>3. Len(lh) \in Nat /\ \A i \in 1 .. Len(lh) : lh[i] \in Block
  BY <1>1, Headers, Zenon
<1>4. todo.tail \in 1 .. Len(lh) /\ todo.tail \in LogSlot /\ lh[todo.tail] \in Block
  BY <1>1, <1>2, <1>3, Const, SMTT(40) DEF Running, LogOK, LogSlot
<1>5. lh[todo.tail] \in Pinned
  BY <1>1, <1>2, <1>4, Zenon DEF Pinned
<1>6. cache[lh[todo.tail]] # NotCached
  BY <1>1, <1>4, <1>5, Zenon DEF Running, CacheOK
<1>7. bread(lh[todo.tail]) = cache[lh[todo.tail]]
  BY <1>6, Zenon DEF bread
<1>8. cache' = [cache EXCEPT ![lh[todo.tail]] = cache[lh[todo.tail]]]
  BY <1>7, Zenon DEF write_log
<1>9. cache' = cache
  BY <1>8, <1>1, Zenon DEF TypeOK
<1>. QED BY <1>1, <1>2, <1>4, <1>7, <1>9, Zenon DEF write_log

\* One iteration of write_log.
LEMMA write_log_IInv ==
  ASSUME IInv, write_log PROVE IInv'
<1>1. /\ Running /\ TypeOK /\ panic = "none" /\ committing
      /\ todo.tail \in 1 .. Len(lh) /\ todo.tail \in LogSlot /\ lh[todo.tail] \in Block
      /\ cache' = cache
      /\ logblk' = [logblk EXCEPT ![todo.tail] = cache[lh[todo.tail]]]
  BY write_log_copies, Zenon
<1>2. /\ UNCHANGED <<home, head, refcnt, lh, outstanding, committing, pc, wrote, panic>>
      /\ todo.op = "write_log" /\ todo' = [op |-> "write_log", tail |-> todo.tail + 1]
  BY Zenon DEF write_log, kernel, At
<1>3. Len(lh) \in Nat /\ \A i \in 1 .. Len(lh) : lh[i] \in Block
  BY <1>1, Headers, Zenon
<1>4. lh[todo.tail] \in Pinned /\ Pinned' = Pinned
  BY <1>1, <1>2, Zenon DEF Pinned, Booting
<1>5. cache[lh[todo.tail]] \in Val
  BY <1>1, <1>4, ZenonT(40) DEF Running, CacheOK, TypeOK
<1>6. TypeOK'
  <2>1. todo' \in [op : Ops, tail : Nat]
    BY <1>1, <1>2, <1>3, SMTT(40) DEF Ops
  <2>2. logblk' \in [LogSlot -> Val]
    BY <1>1, <1>5, Zenon DEF TypeOK
  <2>. QED BY <1>1, <1>2, <2>1, <2>2, Zenon DEF TypeOK
<1>7. Phase'
  BY <1>1, <1>2, <1>3, SMTT(40) DEF Running, Phase
<1>8. CacheOK'
  BY <1>1, <1>2, <1>4, Zenon DEF Running, CacheOK
<1>9. Copied'
  <2> SUFFICES ASSUME NEW i \in 1 .. Len(lh), i < todo.tail + 1 PROVE logblk'[i] = cache[lh[i]]
    BY <1>1, <1>2, Zenon DEF Copied
  <2>1. i \in LogSlot
    BY <1>1, <1>3, Const, SMTT(40) DEF Running, LogOK, LogSlot
  <2>2. CASE i = todo.tail
    BY <1>1, <2>1, <2>2, Zenon DEF TypeOK
  <2>3. CASE i < todo.tail
    <3>1. logblk[i] = cache[lh[i]]
      BY <1>1, <1>2, <2>3, Zenon DEF Running, Copied
    <3>. QED BY <1>1, <2>1, <2>3, <3>1, Zenon DEF TypeOK
  <2>. QED BY <1>1, <1>3, <2>2, <2>3, SMTT(40)
<1>10. Counted'
  <2>1. Active' = Active
    BY <1>2, Zenon DEF Active
  <2>. QED BY <1>1, <1>2, <2>1, Zenon DEF Running, Counted
<1>. QED BY <1>1, <1>2, <1>6, <1>7, <1>8, <1>9, <1>10, ZenonT(40) DEF IInv, Running, LogOK

\* The commit point.
LEMMA write_head_IInv ==
  ASSUME IInv, write_head PROVE IInv'
<1>1. Running /\ TypeOK /\ panic = "none"
  BY Zenon DEF IInv, write_head
<1>2. /\ UNCHANGED <<home, logblk, cache, refcnt, lh, outstanding, committing, pc, wrote, panic>>
      /\ todo.op = "write_log" /\ todo' = [op |-> "install_trans", tail |-> 1] /\ head' = lh
      /\ todo.tail > Len(lh)
  BY Zenon DEF write_head, kernel, At
<1>3. Len(lh) \in Nat /\ todo.tail \in Nat /\ committing
  BY <1>1, <1>2, Headers, Zenon DEF TypeOK, Running, Phase
<1>4. TypeOK'
  <2>1. todo' \in [op : Ops, tail : Nat]
    BY <1>2, Zenon DEF Ops
  <2>. QED BY <1>1, <1>2, <2>1, Zenon DEF TypeOK
<1>5. Pinned' = Pinned
  BY <1>2, <1>3, SMTT(40) DEF Pinned, Booting
<1>6. CacheOK'
  BY <1>1, <1>2, <1>5, Zenon DEF Running, CacheOK
<1>7. Phase'
  BY <1>1, <1>2, <1>3, SMTT(40) DEF Running, Phase
<1>8. Copied'
  BY <1>1, <1>2, <1>3, SMTT(40) DEF Running, Copied
<1>9. Counted'
  <2>1. Active' = Active
    BY <1>2, Zenon DEF Active
  <2>. QED BY <1>1, <1>2, <2>1, Zenon DEF Running, Counted
<1>. QED BY <1>1, <1>2, <1>4, <1>6, <1>7, <1>8, <1>9, Zenon DEF IInv, Running, LogOK

\* The header is read back at boot.
LEMMA read_head_IInv ==
  ASSUME IInv, read_head PROVE IInv'
<1>1. TypeOK /\ LogOK(head)
  BY Zenon DEF IInv
<1>2. /\ UNCHANGED <<home, logblk, head, cache, refcnt, outstanding, committing, pc, wrote, panic>>
      /\ todo.op = "read_head" /\ todo' = [op |-> "install_trans", tail |-> 1] /\ lh' = head
  BY Zenon DEF read_head, kernel, At, ondisk
<1>3. TypeOK'
  <2>1. todo' \in [op : Ops, tail : Nat]
    BY <1>2, Zenon DEF Ops
  <2>. QED BY <1>1, <1>2, <2>1, Zenon DEF TypeOK
<1>4. ASSUME panic = "none" PROVE Running'
  <2>1. Running /\ ~committing
    BY <1>2, <1>4, Zenon DEF IInv, Running, Phase
  <2>2. Len(head) \in Nat
    BY <1>1, Headers, Zenon
  <2>3. Pinned' = {} /\ Pinned = {}
    BY <2>1, <1>2, Zenon DEF Pinned, Booting
  <2>4. CacheOK'
    BY <2>1, <1>2, <2>3, Zenon DEF Running, CacheOK
  <2>5. Phase'
    BY <2>1, <2>2, <1>2, SMTT(40) DEF Phase
  <2>6. Copied'
    BY <2>1, <2>2, <1>2, SMTT(40) DEF Copied
  <2>7. Counted'
    <3>1. Active' = Active
      BY <1>2, Zenon DEF Active
    <3>. QED BY <2>1, <1>2, <3>1, Zenon DEF Running, Counted
  <2>. QED BY <1>1, <1>2, <2>4, <2>5, <2>6, <2>7, Zenon DEF Running, LogOK
<1>. QED BY <1>1, <1>2, <1>3, <1>4, Zenon DEF IInv, LogOK

\* What one iteration of install_trans does to the block that it installs: its
\* home block and its buffer become the logged copy and it is unpinned, unless
\* recovery does it, when nothing was pinned.
LEMMA install_trans_block ==
  ASSUME IInv, install_trans
  PROVE  /\ Running /\ TypeOK /\ panic = "none" /\ head = lh
         /\ UNCHANGED <<logblk, head, lh, outstanding, committing, pc, wrote, panic>>
         /\ todo.op = "install_trans" /\ todo' = [op |-> "install_trans", tail |-> todo.tail + 1]
         /\ todo.tail \in 1 .. Len(lh) /\ lh[todo.tail] \in Block /\ logblk[todo.tail] \in Val
         /\ \A c \in Block :
              IF c = lh[todo.tail]
                THEN /\ home'[c] = logblk[todo.tail] /\ cache'[c] = logblk[todo.tail]
                     /\ refcnt'[c] = 0
                     /\ committing => cache[c] = logblk[todo.tail]
                ELSE home'[c] = home[c] /\ cache'[c] = cache[c] /\ refcnt'[c] = refcnt[c]
<1>1. Running /\ TypeOK /\ panic = "none" /\ todo.op = "install_trans"
  BY Zenon DEF IInv, install_trans
<1>2. /\ UNCHANGED <<logblk, head, lh, outstanding, committing, pc, wrote, panic>>
      /\ todo' = [op |-> "install_trans", tail |-> todo.tail + 1]
      /\ home' = [home EXCEPT ![lh[todo.tail]] = logblk[todo.tail]]
      /\ cache' = [cache EXCEPT ![lh[todo.tail]] = logblk[todo.tail]]
      /\ refcnt' = Unpin(lh[todo.tail])
  BY Zenon DEF install_trans, kernel, At
<1>3. head = lh /\ todo.tail \in 1 .. Len(lh) + 1 /\ todo.tail <= Len(lh)
  BY <1>1, Zenon DEF Running, Phase, install_trans
<1>4. Len(lh) \in Nat /\ \A i \in 1 .. Len(lh) : lh[i] \in Block
  BY <1>1, Headers, Zenon
<1>5. todo.tail \in 1 .. Len(lh) /\ todo.tail \in LogSlot /\ lh[todo.tail] \in Block
  BY <1>1, <1>3, <1>4, Const, SMTT(40) DEF Running, LogOK, LogSlot
<1>6. logblk[todo.tail] \in Val
  BY <1>1, <1>5, Zenon DEF TypeOK
<1>7. committing => cache[lh[todo.tail]] = logblk[todo.tail]
  BY <1>1, <1>5, SMTT(40) DEF Running, Copied
<1>8. refcnt'[lh[todo.tail]] = 0
  <2>1. CASE Booting
    <3>1. Pinned = {}
      BY <2>1, Zenon DEF Pinned
    <3>. QED BY <1>1, <1>2, <1>5, <2>1, <3>1, Zenon DEF Running, CacheOK, Unpin
  <2>2. CASE ~Booting
    <3>1. lh[todo.tail] \in Pinned
      BY <1>5, <2>2, SMTT(40) DEF Pinned
    <3>2. refcnt[lh[todo.tail]] = 1
      BY <1>1, <1>5, <3>1, Zenon DEF Running, CacheOK
    <3>3. refcnt' = [refcnt EXCEPT ![lh[todo.tail]] = refcnt[lh[todo.tail]] - 1]
      BY <1>2, <2>2, Zenon DEF Unpin
    <3>. QED BY <1>1, <1>5, <3>2, <3>3, SMTT(40) DEF TypeOK
  <2>. QED BY <2>1, <2>2, Zenon
<1>9. ASSUME NEW c \in Block, c # lh[todo.tail]
      PROVE home'[c] = home[c] /\ cache'[c] = cache[c] /\ refcnt'[c] = refcnt[c]
  <2>1. refcnt'[c] = refcnt[c]
    BY <1>1, <1>2, <1>5, <1>9, Zenon DEF TypeOK, Unpin
  <2>. QED BY <1>1, <1>2, <1>5, <1>9, <2>1, Zenon DEF TypeOK
<1>10. home'[lh[todo.tail]] = logblk[todo.tail] /\ cache'[lh[todo.tail]] = logblk[todo.tail]
  BY <1>1, <1>2, <1>5, Zenon DEF TypeOK
<1>. QED BY <1>1, <1>2, <1>3, <1>5, <1>6, <1>7, <1>8, <1>9, <1>10, ZenonT(40)

\* One iteration of install_trans.
LEMMA install_trans_IInv ==
  ASSUME IInv, install_trans PROVE IInv'
<1> DEFINE k == todo.tail
           b == lh[k]
<1>1. /\ Running /\ TypeOK /\ panic = "none" /\ head = lh
      /\ UNCHANGED <<logblk, head, lh, outstanding, committing, pc, wrote, panic>>
      /\ todo.op = "install_trans" /\ todo' = [op |-> "install_trans", tail |-> k + 1]
      /\ k \in 1 .. Len(lh) /\ b \in Block /\ logblk[k] \in Val
  BY install_trans_block, Zenon
<1>2. \A c \in Block :
        IF c = b
          THEN /\ home'[c] = logblk[k] /\ cache'[c] = logblk[k] /\ refcnt'[c] = 0
               /\ committing => cache[c] = logblk[k]
          ELSE home'[c] = home[c] /\ cache'[c] = cache[c] /\ refcnt'[c] = refcnt[c]
  BY install_trans_block, Zenon
<1>3. Len(lh) \in Nat /\ \A i \in 1 .. Len(lh) : lh[i] \in Block
  BY <1>1, Headers, Zenon
<1>4. \A i, j \in 1 .. Len(lh) : lh[i] = lh[j] => i = j
  BY <1>1, Zenon DEF Running, LogOK
<1>5. TypeOK'
  <2>1. todo' \in [op : Ops, tail : Nat]
    BY <1>1, <1>3, SMTT(40) DEF Ops
  <2>2. home' \in [Block -> Val] /\ cache' \in [Block -> Val \cup {NotCached}]
    BY <1>1, Zenon DEF install_trans, TypeOK
  <2>3. refcnt' \in [Block -> Int]
    BY <1>1, SMTT(40) DEF install_trans, Unpin, TypeOK
  <2>. QED BY <1>1, <2>1, <2>2, <2>3, Zenon DEF TypeOK
<1>6. Pinned' = Pinned \ {b}
  <2>1. Booting' <=> Booting
    BY <1>1, Zenon DEF Booting
  <2>2. CASE Booting
    BY <2>1, <2>2, Zenon DEF Pinned
  <2>3. CASE ~Booting
    <3>1. Pinned = {lh[i] : i \in {j \in 1 .. Len(lh) : j >= k}}
      BY <2>3, <1>1, Zenon DEF Pinned
    <3>2. Pinned' = {lh[i] : i \in {j \in 1 .. Len(lh) : j >= k + 1}}
      BY <2>3, <2>1, <1>1, Zenon DEF Pinned
    <3>. QED BY <3>1, <3>2, <1>1, <1>3, <1>4, SMTT(40)
  <2>. QED BY <2>2, <2>3, Zenon
<1>7. CacheOK'
  <2> SUFFICES ASSUME NEW c \in Block
      PROVE IF c \in Pinned \ {b} THEN refcnt'[c] = 1 /\ cache'[c] # NotCached
            ELSE refcnt'[c] = 0 /\ cache'[c] \in {NotCached, home'[c]}
    BY <1>6, Zenon DEF CacheOK
  <2>. QED BY <1>1, <1>2, Zenon DEF Running, CacheOK
<1>8. Phase'
  BY <1>1, <1>3, SMTT(40) DEF Running, Phase
<1>9. Copied'
  <2> SUFFICES ASSUME NEW i \in 1 .. Len(lh)
      PROVE /\ committing /\ i >= k + 1 => logblk[i] = cache'[lh[i]]
            /\ i < k + 1 => home'[lh[i]] = logblk[i]
    BY <1>1, Zenon DEF Copied
  <2>1. lh[i] \in Block /\ (lh[i] = b <=> i = k)
    BY <1>1, <1>3, <1>4, Zenon
  <2>2. /\ committing /\ i >= k => logblk[i] = cache[lh[i]]
        /\ i < k => home[lh[i]] = logblk[i]
    BY <1>1, Zenon DEF Running, Copied
  <2>3. i \in Nat /\ k \in Nat
    BY <1>1, <1>3, SMTT(40)
  <2>4. CASE i = k
    BY <1>2, <2>1, <2>3, <2>4, Zenon
  <2>5. CASE i # k
    <3>1. home'[lh[i]] = home[lh[i]] /\ cache'[lh[i]] = cache[lh[i]]
      BY <1>2, <2>1, <2>5, Zenon
    <3>. QED BY <2>2, <2>3, <2>5, <3>1, SMTT(40)
  <2>. QED BY <2>4, <2>5, Zenon
<1>10. Counted'
  <2>1. Active' = Active
    BY <1>1, Zenon DEF Active
  <2>. QED BY <1>1, <2>1, Zenon DEF Running, Counted
<1>. QED BY <1>1, <1>5, <1>7, <1>8, <1>9, <1>10, SMTT(40) DEF IInv, Running, LogOK

\* log.lh.n = 0 and the header erased, by commit or at the end of recovery.
LEMMA clear_head_IInv ==
  ASSUME IInv, clear_head PROVE IInv'
<1>1. Running /\ TypeOK /\ panic = "none" /\ todo.op = "install_trans" /\ todo.tail > Len(lh)
  BY Zenon DEF IInv, clear_head
<1>2. /\ UNCHANGED <<home, logblk, cache, refcnt, outstanding, committing, pc, wrote, panic>>
      /\ lh' = <<>> /\ head' = <<>>
      /\ todo' = [op |-> IF committing THEN "end_op" ELSE "none", tail |-> 0]
  BY Zenon DEF clear_head, kernel, At, Nothing
<1>3. Len(lh) \in Nat /\ todo.tail \in Nat
  BY <1>1, Headers, Zenon DEF TypeOK
<1>4. TypeOK'
  <2>1. todo' \in [op : Ops, tail : Nat]
    BY <1>2, Zenon DEF Ops
  <2>2. lh' \in Seq(Block) /\ head' \in Seq(Block)
    BY <1>2, NoBlocks, Zenon
  <2>. QED BY <1>1, <1>2, <2>1, <2>2, Zenon DEF TypeOK
<1>5. Pinned = {}
  BY <1>1, <1>3, SMTT(40) DEF Pinned
<1>6. Len(lh') = 0 /\ Pinned' = {}
  BY <1>2, NoBlocks, SMTT(40) DEF Pinned
<1>7. CacheOK'
  BY <1>1, <1>2, <1>5, <1>6, Zenon DEF Running, CacheOK
<1>8. Phase'
  BY <1>2, <1>6, Zenon DEF Phase
<1>9. Copied'
  BY <1>6, SMTT(40) DEF Copied
<1>10. Counted'
  <2>1. Active' = Active
    BY <1>2, Zenon DEF Active
  <2>. QED BY <1>1, <1>2, <2>1, Zenon DEF Running, Counted
<1>11. LogOK(lh') /\ LogOK(head')
  BY <1>2, NoBlocks, Zenon
<1>. QED BY <1>2, <1>4, <1>7, <1>8, <1>9, <1>10, <1>11, ZenonT(40) DEF IInv, Running, LogOK

\* The end of a commit: nothing is logged, and nobody is in an operation.
LEMMA committed_IInv ==
  ASSUME IInv, committed PROVE IInv'
<1>1. Running /\ TypeOK /\ panic = "none"
  BY Zenon DEF IInv, committed
<1>2. /\ UNCHANGED <<home, logblk, head, cache, refcnt, lh, outstanding, wrote, panic>>
      /\ todo.op \in {"end_op", "write_log"} /\ lh = <<>>
      /\ todo' = [op |-> "none", tail |-> 0] /\ ~committing' /\ committing' \in BOOLEAN
  BY <1>1, Zenon DEF committed, ondisk, Nothing, Running, Phase
<1>3. pc' \in [Proc -> {"user", "begin", "asleep", "op", "commit"}] /\ Active' = Active
  BY <1>1, Zenon DEF committed, Active, Wakeup, Committer, TypeOK
<1>4. TypeOK'
  <2>1. todo' \in [op : Ops, tail : Nat]
    BY <1>2, Zenon DEF Ops
  <2>. QED BY <1>1, <1>2, <1>3, <2>1, Zenon DEF TypeOK
<1>5. Len(lh) = 0 /\ Pinned' = {} /\ Pinned = {}
  BY <1>2, NoBlocks DEF Pinned
<1>6. CacheOK'
  BY <1>1, <1>2, <1>5, Zenon DEF Running, CacheOK
<1>7. Phase'
  BY <1>1, <1>2, <1>5, Zenon DEF Running, Phase
<1>8. Copied'
  BY <1>2, <1>5, Zenon DEF Copied
<1>9. Counted'
  BY <1>1, <1>2, <1>3, Zenon DEF Running, Counted
<1>. QED BY <1>1, <1>2, <1>4, <1>6, <1>7, <1>8, <1>9, SMTT(40) DEF IInv, Running, LogOK

\* A step that changes nothing.
LEMMA Stutter_IInv ==
  ASSUME IInv, UNCHANGED vars PROVE IInv'
BY SMTT(40) DEF vars, IInv, TypeOK, Running, LogOK, Phase, CacheOK, Copied, Counted, Pinned, Booting, Active

\* Every step of the log, of its clients and every crash preserve the invariant.
LEMMA Step_IInv == SInv /\ IInv /\ [Next]_vars => IInv'
<1> SUFFICES ASSUME SInv, IInv, [Next]_vars PROVE IInv'
  BY Zenon
<1>. QED
  BY Staged, begin_op_IInv, end_op_IInv, log_write_IInv, Recycle_IInv, write_log_IInv, write_head_IInv,
     read_head_IInv, install_trans_IInv, clear_head_IInv, committed_IInv, Crash_IInv, Stutter_IInv, Zenon
  DEF Next, LogStep

\* The inductive invariant of the log: through operations, commits, crashes and
\* recoveries, what is pinned, copied and installed is what the phase says.
THEOREM LogInvariant == Spec => []IInv
<1>1. Init => SInv
  BY Zenon DEF Init, SInv
<1>. QED BY <1>1, Scene_fixed, Init_IInv, Step_IInv, PTL DEF Spec

\* The reservation of each operation under way bounds what is left to log.
LEMMA LeftBound ==
  ASSUME NEW m \in Nat, NEW A, IsFiniteSet(A), NEW L, L \subseteq A \X (1 .. m)
  PROVE  IsFiniteSet(L) /\ Cardinality(L) \in Nat /\ Cardinality(L) <= Cardinality(A) * m
<1>1. IsFiniteSet(1 .. m) /\ Cardinality(1 .. m) = m
  BY FS_Interval, SMTT(40)
<1>2. /\ IsFiniteSet(A \X (1 .. m))
      /\ Cardinality(A \X (1 .. m)) = Cardinality(A) * m
  BY <1>1, FS_Product, Zenon
<1>. QED BY <1>2, FS_Subset, FS_CardinalityType, Zenon

\* begin_op reserves more than an operation logs, and it does so for each of at
\* least two operations.
LEMMA Reserved ==
  ASSUME NEW n \in Nat, n >= 2, NEW a \in Nat, NEW m \in Nat, a < m
  PROVE  n * a <= n * m - 2
<1>1. PICK d \in Nat : m = a + 1 + d
  <2>1. m - a - 1 \in Nat /\ m = a + 1 + (m - a - 1)
    OBVIOUS
  <2>. QED BY <2>1, Zenon
<1>2. n * m = n * a + n + n * d
  BY <1>1
<1>3. n * d \in Nat /\ n * a \in Nat
  OBVIOUS
<1>. QED BY <1>2, <1>3

\* The log, and who is in an operation, do not change.
LEMMA Same_Room ==
  ASSUME Room, UNCHANGED <<lh, pc, wrote, scene>> PROVE Room'
BY Zenon DEF Room, Active, Left, Members, OPMAX

\* Nobody is in an operation.
LEMMA Quiet_Room ==
  ASSUME Active' = {}, \A p \in Proc : wrote'[p] = {} PROVE Room'
BY FS_EmptySet, Zenon DEF Room

\* begin_op lets an operation in only if there is room for it.
LEMMA begin_op_Room ==
  ASSUME OPMAX < MAXOPBLOCKS, SInv, IInv, Room, NEW p \in Proc, begin_op(p) PROVE Room'
<1>1. Running /\ TypeOK /\ UNCHANGED <<lh, wrote>> /\ OPMAX' = OPMAX /\ OPMAX \in Nat
  BY Staged, Zenon DEF IInv, begin_op, Runs, OPMAX
<1>2. CASE LogFull
  <2>1. Active' = Active /\ \A q \in Proc : pc'[q] = "op" <=> pc[q] = "op"
    BY <1>1, <1>2, Zenon DEF begin_op, Active, TypeOK
  <2>. QED BY <1>1, <2>1, Zenon DEF Room, Left, Members
<1>3. CASE ~LogFull
  <2>1. Active' = Active \cup {p} /\ p \notin Active /\ \A q \in Proc : pc'[q] # "op" => pc[q] # "op"
    BY <1>1, <1>3, Zenon DEF begin_op, Active, TypeOK
  <2>2. /\ IsFiniteSet(Active) /\ outstanding = Cardinality(Active) /\ outstanding \in Nat
        /\ Active = {} => lh = <<>>
    BY <1>1, <1>3, Zenon DEF Running, Counted, TypeOK, begin_op, Runs, Booting, LogFull
  <2>3. IsFiniteSet(Active') /\ Cardinality(Active') = outstanding + 1
    BY <2>1, <2>2, FS_AddElement, Zenon
  <2>4. Cardinality(Left') \in Nat /\ Cardinality(Left') <= (outstanding + 1) * OPMAX
    <3>1. Left' \subseteq Active' \X (1 .. OPMAX)
      BY <1>1, Zenon DEF Left
    <3>. QED BY <1>1, <2>3, <3>1, LeftBound, Zenon
  <2>5. Len(lh) \in Nat /\ Len(lh) + (outstanding + 1) * MAXOPBLOCKS <= LOGSIZE
    BY <1>1, <1>3, Headers, Const, <2>2, SMTT(40) DEF LogFull
  <2>6. Len(lh) + Cardinality(Left') <= LOGSIZE - 2
    <3>1. CASE outstanding = 0
      <4>1. Len(lh) = 0
        BY <2>2, <3>1, FS_EmptySet, NoBlocks, Zenon
      <4>. QED BY <1>1, <4>1, <3>1, <2>4, Const, SMTT(40)
    <3>2. CASE outstanding # 0
      <4>1. (outstanding + 1) * OPMAX <= (outstanding + 1) * MAXOPBLOCKS - 2
        <5>1. outstanding + 1 \in Nat /\ outstanding + 1 >= 2
          BY <3>2, <2>2
        <5>. QED BY <1>1, <5>1, Const, Reserved, Zenon
      <4>2. (outstanding + 1) * OPMAX \in Nat /\ (outstanding + 1) * MAXOPBLOCKS \in Nat
        BY <1>1, <2>2, Const, SMTT(40)
      <4>. QED BY <4>1, <4>2, <2>4, <2>5, Const
    <3>. QED BY <3>1, <3>2, Zenon
  <2>. QED BY <1>1, <2>1, <2>6, SMTT(40) DEF Room, Members
<1>. QED BY <1>2, <1>3, Zenon

\* A block that is new in the log has been reserved, so log_write does not panic.
LEMMA log_write_Room ==
  ASSUME SInv, IInv, Room, NEW p \in Proc, NEW b \in Block, NEW v \in Val, log_write(p, b, v)
  PROVE  Room' /\ panic' = "none"
<1>0. OPMAX' = OPMAX /\ OPMAX \in Nat
  BY Staged, Zenon DEF log_write, OPMAX
<1>1. Running /\ TypeOK /\ panic = "none" /\ UNCHANGED pc /\ pc[p] = "op"
  BY Zenon DEF IInv, log_write, Runs
<1>2. p \in Active /\ Active' = Active
  BY <1>1, Zenon DEF Active
<1>3. /\ IsFiniteSet(Active) /\ outstanding = Cardinality(Active)
      /\ IsFiniteSet(Left) /\ Cardinality(Left) \in Nat
  <2>1. Left \subseteq Active \X (1 .. OPMAX)
    BY Zenon DEF Left
  <2>. QED BY <1>0, <1>1, <2>1, LeftBound, Zenon DEF Running, Counted
<1>4. outstanding >= 1
  BY <1>1, <1>2, <1>3, FS_EmptySet, SMTT(40) DEF TypeOK
<1>5. Len(lh) \in Nat /\ Len(lh) + Cardinality(Left) <= LOGSIZE - 2
  BY <1>1, <1>2, Headers, Zenon DEF Room
<1>6. ~(Len(lh) >= LOGSIZE \/ Len(lh) >= NLOG - 1) /\ ~(outstanding < 1)
  BY <1>1, <1>3, <1>4, <1>5, Const, SMTT(40) DEF TypeOK
<1>7. /\ lh' = IF b \in Members(lh) THEN lh ELSE Append(lh, b)
      /\ wrote' = [wrote EXCEPT ![p] = wrote[p] \cup {b}]
      /\ panic' = "none"
  BY <1>1, <1>6, Zenon DEF log_write
<1>8. Members(lh) \cup {b} \subseteq Members(lh') /\ Len(lh') \in Nat
  <2>1. CASE b \in Members(lh)
    BY <2>1, <1>5, <1>7, Zenon
  <2>2. CASE b \notin Members(lh)
    <3>1. /\ Len(lh') = Len(lh) + 1
          /\ \A i \in 1 .. Len(lh) : lh'[i] = lh[i]
          /\ lh'[Len(lh) + 1] = b
      BY <1>1, <1>7, <2>2, Appended, SMTT(40) DEF TypeOK
    <3>. QED BY <1>5, <3>1, SMTT(40) DEF Members
  <2>. QED BY <2>1, <2>2, Zenon
<1>9. /\ IsFiniteSet(wrote[p] \cup {b})
      /\ \A q \in Proc : wrote'[q] = IF q = p THEN wrote[p] \cup {b} ELSE wrote[q]
  BY <1>1, <1>7, FS_AddElement, Zenon DEF Room, TypeOK
<1>10. Len(lh') + Cardinality(Left') <= LOGSIZE - 2
  <2>1. CASE b \in wrote[p]
    <3>1. wrote[p] \cup {b} = wrote[p] /\ b \in Members(lh)
      BY <2>1, Zenon DEF Room
    <3>2. wrote' = wrote /\ lh' = lh
      BY <1>1, <1>7, <3>1, Zenon DEF TypeOK
    <3>3. Left' = Left
      BY <1>0, <1>2, <3>2, Zenon DEF Left
    <3>. QED BY <1>5, <3>2, <3>3, Zenon
  <2>2. CASE b \notin wrote[p]
    <3> DEFINE n == Cardinality(wrote[p])
    <3>1. n \in Nat /\ Cardinality(wrote[p] \cup {b}) = n + 1
      BY <2>2, FS_AddElement, FS_CardinalityType, Zenon DEF Room
    <3>2. n + 1 \in 1 .. OPMAX
      BY <1>0, <3>1 DEF log_write
    <3>3. <<p, n + 1>> \in Left
      BY <1>2, <3>1, <3>2 DEF Left
    <3>4. Left' \subseteq Left \ {<<p, n + 1>>}
      <4> SUFFICES ASSUME NEW q \in Active, NEW i \in 1 .. OPMAX, i > Cardinality(wrote'[q])
          PROVE i > Cardinality(wrote[q]) /\ <<q, i>> # <<p, n + 1>>
        BY <1>0, <1>2 DEF Left
      <4>1. q \in Proc
        BY Zenon DEF Active
      <4>2. CASE q = p
        <5>1. Cardinality(wrote'[q]) = n + 1
          BY <4>2, <1>9, <3>1, Zenon
        <5>. QED BY <4>2, <5>1, <3>1, SMTT(40)
      <4>3. CASE q # p
        BY <4>3, <4>1, <1>9, Zenon
      <4>. QED BY <4>2, <4>3, Zenon
    <3>5. IsFiniteSet(Left \ {<<p, n + 1>>}) /\ Cardinality(Left \ {<<p, n + 1>>}) = Cardinality(Left) - 1
      BY <1>3, <3>3, FS_RemoveElement, Zenon
    <3>6. Cardinality(Left') \in Nat /\ Cardinality(Left') <= Cardinality(Left) - 1
      BY <3>4, <3>5, FS_Subset, FS_CardinalityType
    <3>7. Len(lh') <= Len(lh) + 1
      BY <1>1, <1>5, <1>7, Appended, SMTT(40) DEF TypeOK
    <3>. QED BY <1>3, <1>5, <1>8, <3>6, <3>7, Const, SMTT(40)
  <2>. QED BY <2>1, <2>2, Zenon
<1>. QED BY <1>1, <1>7, <1>8, <1>9, <1>10, SMTT(40) DEF Room

\* The end of an operation gives up the rest of its reservation.
LEMMA end_op_Room ==
  ASSUME SInv, IInv, Room, NEW p \in Proc, end_op(p) PROVE Room'
<1>0. OPMAX' = OPMAX /\ OPMAX \in Nat
  BY Staged, Zenon DEF end_op, OPMAX
<1>1. Running /\ TypeOK /\ UNCHANGED lh
  BY Zenon DEF IInv, end_op, Runs
<1>2. Active' = Active \ {p} /\ p \in Active /\ \A q \in Proc : q # p => (pc'[q] = "op" <=> pc[q] = "op")
  BY <1>1, Zenon DEF end_op, Active, TypeOK, Wakeup
<1>3. \A q \in Proc : wrote'[q] = IF q = p THEN {} ELSE wrote[q]
  BY <1>1, Zenon DEF end_op, TypeOK
<1>4. IsFiniteSet(Left) /\ Cardinality(Left) \in Nat
  <2>1. Left \subseteq Active \X (1 .. OPMAX)
    BY Zenon DEF Left
  <2>. QED BY <1>0, <1>1, <2>1, LeftBound, Zenon DEF Running, Counted
<1>5. Left' \subseteq Left
  <2> SUFFICES ASSUME NEW q \in Active', NEW i \in 1 .. OPMAX, i > Cardinality(wrote'[q])
      PROVE q \in Active /\ i > Cardinality(wrote[q])
    BY <1>0, Zenon DEF Left
  <2>1. q \in Proc /\ q # p /\ q \in Active
    BY <1>2, Zenon DEF Active
  <2>. QED BY <2>1, <1>3, Zenon
<1>6. Cardinality(Left') \in Nat /\ Cardinality(Left') <= Cardinality(Left)
  BY <1>4, <1>5, FS_Subset, FS_CardinalityType, Zenon
<1>7. Len(lh) \in Nat /\ Len(lh) + Cardinality(Left) <= LOGSIZE - 2
  BY <1>1, <1>2, Headers, Zenon DEF Room
<1>8. Len(lh) + Cardinality(Left') <= LOGSIZE - 2
  BY <1>4, <1>6, <1>7, Const, SMTT(40)
<1>9. \A q \in Proc : /\ IsFiniteSet(wrote'[q]) /\ wrote'[q] \subseteq Members(lh)
                      /\ pc'[q] # "op" => wrote'[q] = {}
  BY <1>2, <1>3, FS_EmptySet, Zenon DEF Room
<1>. QED BY <1>1, <1>8, <1>9, Zenon DEF Room

\* Every step keeps the reservations of the operations under way.
LEMMA Step_Room ==
  OPMAX < MAXOPBLOCKS => (SInv /\ IInv /\ Room /\ NoPanic /\ [Next]_vars => Room' /\ NoPanic')
<1> SUFFICES ASSUME OPMAX < MAXOPBLOCKS, SInv, IInv, Room, NoPanic, [Next]_vars
    PROVE Room' /\ NoPanic'
  BY Zenon
<1>1. Running /\ TypeOK
  BY Zenon DEF IInv, NoPanic
<1>2. ASSUME NEW p \in Proc, begin_op(p) PROVE Room' /\ NoPanic'
  BY <1>2, begin_op_Room, Zenon DEF begin_op, NoPanic
<1>3. ASSUME NEW p \in Proc, end_op(p) PROVE Room' /\ NoPanic'
  BY <1>3, end_op_Room, end_op_IInv, Zenon DEF NoPanic
<1>4. ASSUME NEW p \in Proc, NEW b \in Block, NEW v \in Val, log_write(p, b, v) PROVE Room' /\ NoPanic'
  BY <1>4, log_write_Room, Zenon DEF NoPanic
<1>5. CASE (\E b \in Block : Recycle(b)) \/ write_log \/ write_head \/ install_trans \/ UNCHANGED vars
  BY <1>5, Same_Room, Zenon DEF NoPanic, Recycle, write_log, write_head, install_trans, kernel, vars
<1>6. CASE read_head \/ clear_head \/ committed
  <2>1. todo.op # "none" /\ NoPanic' /\ wrote' = wrote
    BY <1>6, Zenon DEF read_head, clear_head, committed, kernel, NoPanic
  <2>2. Active = {}
    BY <1>1, <2>1, Zenon DEF Running, Counted
  <2>3. Active' = {}
    BY <1>6, <1>1, <2>2, Zenon DEF Active, read_head, clear_head, committed, kernel, Wakeup, TypeOK
  <2>4. \A p \in Proc : wrote[p] = {}
    BY <2>2, Zenon DEF Room, Active
  <2>. QED BY <2>1, <2>3, <2>4, Quiet_Room, Zenon
<1>7. CASE Crash
  <2>1. Active' = {} /\ NoPanic' /\ \A p \in Proc : wrote'[p] = {}
    BY <1>7, Zenon DEF Crash, Active, NoPanic
  <2>. QED BY <2>1, Quiet_Room, Zenon
<1>. QED BY <1>2, <1>3, <1>4, <1>5, <1>6, <1>7, Staged, Zenon DEF Next, LogStep

\* If operations log fewer blocks than begin_op reserves for each (filewrite
\* splits its writes for this), then neither log_write nor end_op ever panics,
\* with any number of processes and of crashes.  An operation that logs as many
\* as are reserved can find the log full: its last block is the header.
THEOREM LogNeverPanics ==
  ASSUME \A s \in Scene : s.opmax < MAXOPBLOCKS PROVE Spec => []NoPanic
<1>1. Init => Room /\ NoPanic
  <2> SUFFICES ASSUME Init PROVE Room /\ NoPanic
    BY Zenon
  <2>1. Active = {} /\ \A p \in Proc : wrote[p] = {}
    BY Zenon DEF Init, Active
  <2>. QED BY <2>1, FS_EmptySet, Zenon DEF Room, NoPanic, Init
<1>2. SInv /\ IInv /\ Room /\ NoPanic /\ [Next]_vars => Room' /\ NoPanic'
  BY Step_Room, Zenon DEF SInv, OPMAX
<1>3. Init => SInv
  BY Zenon DEF Init, SInv
<1>. QED BY <1>1, <1>2, <1>3, Scene_fixed, Init_IInv, Step_IInv, PTL DEF Spec

\* The place of a block in a log.
LEMMA Found ==
  ASSUME NEW h, NEW b, b \in Members(h)
  PROVE  /\ (CHOOSE i \in 1 .. Len(h) : h[i] = b) \in 1 .. Len(h)
         /\ h[CHOOSE i \in 1 .. Len(h) : h[i] = b] = b
<1>1. \E i \in 1 .. Len(h) : h[i] = b
  BY Zenon DEF Members
<1>. QED BY <1>1, Zenon

\* mkfs leaves the initial blocks and an empty log.
LEMMA Init_Atomic == Init => Tx!TInit
<1> SUFFICES ASSUME Init PROVE Tx!TInit
  BY Zenon
<1>1. Booting /\ Members(head) = {} /\ panic = "none"
  BY NoBlocks, Zenon DEF Init, Booting, At
<1>2. Recovered = [b \in Block |-> InitVal]
  BY <1>1, Zenon DEF Recovered, Init
<1>3. InOperation = {} /\ Memory = Recovered
  BY <1>1, Zenon DEF InOperation, Memory, Init
<1>. QED BY <1>2, <1>3, Zenon DEF Tx!TInit

\* Nothing that Transactions speaks of changes.
LEMMA Unseen ==
  ASSUME Recovered' = Recovered, Memory' = Memory, InOperation' = InOperation
  PROVE  [Tx!TNext]_(Tx!tvars)
BY Zenon DEF Tx!tvars

\* begin_op begins an operation or goes to sleep.
LEMMA begin_op_Atomic ==
  ASSUME IInv, NEW p \in Proc, begin_op(p) PROVE [Tx!TNext]_(Tx!tvars)
<1>1. TypeOK /\ panic = "none" /\ ~Booting /\ ~Booting'
  BY Zenon DEF IInv, begin_op, Runs, Booting
<1>2. Recovered' = Recovered /\ Memory' = Memory
  BY <1>1, SMTT(40) DEF begin_op, ondisk, Recovered, Memory, bread
<1>3. p \notin InOperation /\ InOperation' \in {InOperation, InOperation \cup {p}}
  BY <1>1, ZenonT(40) DEF InOperation, begin_op, TypeOK
<1>. QED BY <1>2, <1>3, Zenon DEF Tx!tvars, Tx!TNext, Tx!TBegin

\* end_op ends an operation and writes nothing yet.
LEMMA end_op_Atomic ==
  ASSUME IInv, NEW p \in Proc, end_op(p) PROVE [Tx!TNext]_(Tx!tvars)
<1>1. Running /\ TypeOK /\ panic = "none" /\ panic' = "none" /\ ~Booting
  BY end_op_IInv, Zenon DEF IInv, end_op, Runs
<1>2. ~Booting'
  BY <1>1, Zenon DEF Booting, end_op, At
<1>3. Recovered' = Recovered /\ Memory' = Memory
  BY <1>1, <1>2 DEF end_op, ondisk, Recovered, Memory, bread
<1>4. InOperation' = InOperation \ {p}
  BY <1>1, Zenon DEF InOperation, end_op, TypeOK, Wakeup
<1>. QED BY <1>3, <1>4, Zenon DEF Tx!tvars, Tx!TNext, Tx!TEnd

\* log_write changes the memory only; if it panics, the machine has stopped.
LEMMA log_write_Atomic ==
  ASSUME IInv, NEW p \in Proc, NEW b \in Block, NEW v \in Val, log_write(p, b, v)
  PROVE  [Tx!TNext]_(Tx!tvars)
<1>1. TypeOK /\ panic = "none" /\ ~Booting /\ ~Booting' /\ p \in InOperation
  BY Zenon DEF IInv, log_write, Runs, Booting, InOperation
<1>2. Recovered' = Recovered
  BY DEF log_write, ondisk, Recovered
<1>3. CASE panic' = "none"
  <2>1. InOperation' = InOperation
    BY <1>1, <1>3, Zenon DEF InOperation, log_write
  <2>2. \A c \in Block : bread(c)' = IF c = b THEN v ELSE bread(c)
    BY <1>1, Const, Zenon DEF bread, log_write, TypeOK, ondisk
  <2>3. Memory = [c \in Block |-> bread(c)] /\ Memory' = [c \in Block |-> bread(c)']
    BY <1>1, <1>3, Zenon DEF Memory
  <2>4. Memory' = [Memory EXCEPT ![b] = v]
    BY <2>2, <2>3, Zenon
  <2>. QED BY <1>1, <1>2, <2>1, <2>4, Zenon DEF Tx!TNext, Tx!TWrite
<1>4. CASE panic' # "none"
  <2>1. InOperation' = {} /\ Memory' = Recovered'
    BY <1>4, Zenon DEF InOperation, Memory
  <2>. QED BY <1>2, <2>1, Zenon DEF Tx!TNext, Tx!TCrash
<1>. QED BY <1>3, <1>4, Zenon

\* A buffer that is taken for another block is the same as its block on disk.
LEMMA Recycle_Atomic ==
  ASSUME IInv, NEW b \in Block, Recycle(b) PROVE [Tx!TNext]_(Tx!tvars)
<1>1. Running /\ TypeOK /\ panic = "none" /\ ~Booting /\ ~Booting'
  BY Zenon DEF IInv, Recycle, Runs, Booting
<1>2. Recovered' = Recovered /\ InOperation' = InOperation
  BY DEF Recycle, ondisk, Recovered, InOperation
<1>3. cache[b] = home[b]
  BY <1>1, SMTT(40) DEF Running, CacheOK, Recycle
<1>4. \A c \in Block : bread(c)' = bread(c)
  BY <1>1, <1>3, Zenon DEF bread, Recycle, TypeOK, ondisk
<1>5. Memory' = Memory
  <2>1. Memory = [c \in Block |-> bread(c)] /\ Memory' = [c \in Block |-> bread(c)']
    BY <1>1, Zenon DEF Memory, Recycle
  <2>. QED BY <1>4, <2>1, Zenon
<1>. QED BY <1>2, <1>5, Unseen, Zenon

\* The log blocks do not count as long as the header is empty.
LEMMA write_log_Atomic ==
  ASSUME IInv, write_log PROVE [Tx!TNext]_(Tx!tvars)
<1>1. Running /\ panic = "none" /\ committing /\ cache' = cache
  BY write_log_copies, Zenon
<1>2. /\ UNCHANGED <<home, head, lh, committing, pc, panic>> /\ todo.op = "write_log"
  BY Zenon DEF write_log, kernel
<1>3. Members(head) = {}
  BY <1>1, <1>2, NoBlocks, Zenon DEF Running, Phase
<1>4. Recovered' = Recovered
  BY <1>2, <1>3, Zenon DEF Recovered
<1>5. Memory' = Memory /\ InOperation' = InOperation
  BY <1>1, <1>2, <1>4, Zenon DEF Memory, InOperation, Booting, bread
<1>. QED BY <1>4, <1>5, Unseen, Zenon

\* The header on disk makes all that is in memory durable in one step, and
\* nothing else, and nobody is in an operation.
LEMMA write_head_Atomic ==
  ASSUME IInv, write_head PROVE [Tx!TNext]_(Tx!tvars)
<1>1. Running /\ TypeOK /\ panic = "none" /\ todo.op = "write_log" /\ todo.tail > Len(lh)
  BY Zenon DEF IInv, write_head
<1>2. UNCHANGED <<home, logblk, cache, lh, committing, pc, panic>> /\ head' = lh
  BY Zenon DEF write_head, kernel
<1>3. committing /\ Active = {} /\ Len(lh) \in Nat /\ todo.tail \in Nat
  BY <1>1, Headers, Zenon DEF Running, Phase, Counted, TypeOK
<1>4. Pinned = Members(lh)
  BY <1>1, <1>3, Zenon DEF Pinned, Members, Booting
<1>5. Recovered' = [b \in Block |-> bread(b)]
  <2> SUFFICES ASSUME NEW b \in Block
      PROVE (IF b \in Members(lh) THEN logblk[CHOOSE i \in 1 .. Len(lh) : lh[i] = b] ELSE home[b])
            = bread(b)
    BY <1>2, Zenon DEF Recovered
  <2>1. CASE b \in Members(lh)
    <3>1. PICK k : k = CHOOSE i \in 1 .. Len(lh) : lh[i] = b
      BY Zenon
    <3>2. k \in 1 .. Len(lh) /\ lh[k] = b
      BY <2>1, <3>1, Found, Zenon
    <3>3. logblk[k] = cache[b]
      BY <1>1, <1>3, <3>2 DEF Running, Copied
    <3>4. cache[b] # NotCached
      BY <1>1, <1>4, <2>1, Zenon DEF Running, CacheOK
    <3>. QED BY <2>1, <3>1, <3>3, <3>4, Zenon DEF bread
  <2>2. CASE b \notin Members(lh)
    BY <1>1, <1>4, <2>2, Zenon DEF Running, CacheOK, bread
  <2>. QED BY <2>1, <2>2, Zenon
<1>6. Memory' = Memory /\ Memory = [b \in Block |-> bread(b)]
  BY <1>1, <1>2, <1>3, Zenon DEF Memory, Booting, bread
<1>7. InOperation = {} /\ InOperation' = {}
  BY <1>1, <1>2, <1>3, Zenon DEF InOperation, Active
<1>. QED BY <1>5, <1>6, <1>7, Zenon DEF Tx!TNext, Tx!TCommit

\* Recovery reads the header, and what it will make of the disk is the same.
LEMMA read_head_Atomic ==
  ASSUME IInv, read_head PROVE [Tx!TNext]_(Tx!tvars)
<1>1. /\ UNCHANGED <<home, logblk, head, committing, pc, panic>>
      /\ todo.op = "read_head" /\ todo'.op = "install_trans"
  BY Zenon DEF read_head, kernel, ondisk, At
<1>2. Recovered' = Recovered /\ InOperation' = InOperation
  BY <1>1, SMTT(40) DEF Recovered, InOperation
<1>3. panic = "none" => Booting /\ Booting'
  BY <1>1, Zenon DEF IInv, Running, Phase, Booting
<1>4. Memory' = Memory
  BY <1>1, <1>2, <1>3, Zenon DEF Memory
<1>. QED BY <1>2, <1>4, Unseen, Zenon

\* Installing a block changes neither what recovery makes of the disk, even if it
\* is interrupted and runs again, nor what operations read.
LEMMA install_trans_Atomic ==
  ASSUME IInv, install_trans PROVE [Tx!TNext]_(Tx!tvars)
<1> DEFINE k == todo.tail
           b == lh[k]
<1>1. /\ Running /\ TypeOK /\ panic = "none" /\ head = lh
      /\ UNCHANGED <<logblk, head, lh, committing, pc, panic>>
      /\ todo.op = "install_trans" /\ todo'.op = "install_trans"
      /\ k \in 1 .. Len(lh) /\ b \in Block /\ logblk[k] \in Val
  BY install_trans_block, SMTT(40)
<1>2. \A c \in Block :
        IF c = b
          THEN /\ home'[c] = logblk[k] /\ cache'[c] = logblk[k]
               /\ committing => cache[c] = logblk[k]
          ELSE home'[c] = home[c] /\ cache'[c] = cache[c]
  BY install_trans_block, Zenon
<1>3. b \in Members(head)
  BY <1>1, Zenon DEF Members
<1>4. Recovered' = Recovered
  <2>1. \A c \in Block : c \notin Members(head) => home'[c] = home[c]
    BY <1>2, <1>3, Zenon
  <2>. QED BY <1>1, <2>1, SMTT(40) DEF Recovered
<1>5. InOperation' = InOperation /\ (Booting' <=> Booting)
  BY <1>1, Zenon DEF InOperation, Booting
<1>6. Memory' = Memory
  <2>1. CASE Booting
    BY <1>4, <1>5, <2>1, Zenon DEF Memory
  <2>2. CASE ~Booting
    <3>1. committing
      BY <1>1, <2>2, Zenon DEF Booting
    <3>2. \A c \in Block : bread(c)' = bread(c)
      BY <1>1, <1>2, <3>1, Const, ZenonT(40) DEF bread
    <3>3. Memory = [c \in Block |-> bread(c)] /\ Memory' = [c \in Block |-> bread(c)']
      BY <1>1, <1>5, <2>2, Zenon DEF Memory
    <3>. QED BY <3>2, <3>3, Zenon
  <2>. QED BY <2>1, <2>2, Zenon
<1>. QED BY <1>4, <1>5, <1>6, Unseen, Zenon

\* The log is erased when each of its blocks is at home.
LEMMA clear_head_Atomic ==
  ASSUME IInv, clear_head PROVE [Tx!TNext]_(Tx!tvars)
<1>1. Running /\ TypeOK /\ panic = "none" /\ todo.op = "install_trans" /\ todo.tail > Len(lh)
  BY Zenon DEF IInv, clear_head
<1>2. /\ UNCHANGED <<home, logblk, cache, committing, pc, panic>> /\ head' = <<>>
      /\ todo'.op = IF committing THEN "end_op" ELSE "none"
  BY Zenon DEF clear_head, kernel, At, Nothing
<1>3. Len(lh) \in Nat /\ todo.tail \in Nat /\ head = lh
  BY <1>1, Headers, Zenon DEF Running, Phase, TypeOK
<1>4. Recovered = [b \in Block |-> home[b]]
  <2> SUFFICES ASSUME NEW b \in Block, b \in Members(lh)
      PROVE logblk[CHOOSE i \in 1 .. Len(lh) : lh[i] = b] = home[b]
    BY <1>3, SMTT(40) DEF Recovered
  <2>1. PICK k : k = CHOOSE i \in 1 .. Len(lh) : lh[i] = b
    BY Zenon
  <2>2. k \in 1 .. Len(lh) /\ lh[k] = b
    BY <2>1, Found, Zenon
  <2>3. home[lh[k]] = logblk[k]
    BY <1>1, <1>3, <2>2, SMTT(40) DEF Running, Copied
  <2>. QED BY <2>1, <2>2, <2>3, Zenon
<1>5. Recovered' = Recovered
  <2>1. Members(head') = {}
    BY <1>2, NoBlocks, Zenon
  <2>. QED BY <1>2, <1>4, <2>1, Zenon DEF Recovered
<1>6. InOperation' = InOperation /\ ~Booting'
  BY <1>2, Zenon DEF InOperation, Booting
<1>7. Memory' = Memory
  <2>1. Memory' = [b \in Block |-> bread(b)]
    BY <1>1, <1>2, <1>6, ZenonT(40) DEF Memory, bread
  <2>2. CASE ~Booting
    BY <1>1, <2>1, <2>2, Zenon DEF Memory
  <2>3. CASE Booting
    <3>1. Pinned = {} /\ Memory = Recovered
      BY <2>3, Zenon DEF Pinned, Memory
    <3>2. \A b \in Block : bread(b) = home[b]
      BY <1>1, <3>1, Zenon DEF Running, CacheOK, bread
    <3>. QED BY <1>4, <2>1, <3>1, <3>2, Zenon
  <2>. QED BY <2>2, <2>3, Zenon
<1>. QED BY <1>5, <1>6, <1>7, Unseen, Zenon

\* The end of end_op only lets the others in.
LEMMA committed_Atomic ==
  ASSUME IInv, committed PROVE [Tx!TNext]_(Tx!tvars)
<1>1. Running /\ TypeOK /\ panic = "none" /\ todo.op \in {"end_op", "write_log"}
  BY Zenon DEF IInv, committed
<1>2. ~Booting /\ ~Booting' /\ panic' = "none"
  BY <1>1, Zenon DEF Running, Phase, Booting, committed, Nothing
<1>3. Recovered' = Recovered /\ Memory' = Memory
  BY <1>1, <1>2, SMTT(40) DEF committed, ondisk, Recovered, Memory, bread
<1>4. InOperation' = InOperation
  BY <1>1, <1>2, Zenon DEF InOperation, committed, Wakeup, Committer, TypeOK
<1>. QED BY <1>3, <1>4, Unseen, Zenon

\* The machine boots from what recovery will make of the disk.
LEMMA Crash_Atomic ==
  ASSUME Crash PROVE [Tx!TNext]_(Tx!tvars)
<1>0. todo' = [op |-> "read_head", tail |-> 0] /\ ~committing' /\ panic' = "none"
  BY Zenon DEF Crash, At
<1>1. Booting' /\ panic' = "none" /\ Recovered' = Recovered
  <2>1. todo'.op = "read_head"
    BY <1>0, Zenon
  <2>2. Booting'
    BY <1>0, <2>1, Zenon DEF Booting
  <2>3. UNCHANGED <<home, logblk, head>>
    BY Zenon DEF Crash, ondisk
  <2>4. Recovered' = Recovered
    BY <2>3, SMTT(40) DEF Recovered
  <2>. QED BY <1>0, <2>2, <2>4, Zenon
<1>2. Memory' = Recovered' /\ InOperation' = {}
  BY <1>1, Zenon DEF Memory, InOperation, Crash
<1>. QED BY <1>1, <1>2, Zenon DEF Tx!TNext, Tx!TCrash

\* Every step of the log is a step of Transactions or leaves it unchanged.
LEMMA Step_Atomic == SInv /\ IInv /\ [Next]_vars => [Tx!TNext]_(Tx!tvars)
<1> SUFFICES ASSUME SInv, IInv, [Next]_vars PROVE [Tx!TNext]_(Tx!tvars)
  BY Zenon
<1>1. CASE UNCHANGED vars
  BY <1>1, Unseen, SMTT(40) DEF vars, Recovered, Memory, InOperation, Booting, bread
<1>2. CASE Next
  BY <1>2, Staged, begin_op_Atomic, end_op_Atomic, log_write_Atomic, Recycle_Atomic, write_log_Atomic,
     write_head_Atomic, read_head_Atomic, install_trans_Atomic, clear_head_Atomic,
     committed_Atomic, Crash_Atomic, ZenonT(40)
  DEF Next, LogStep
<1>. QED BY <1>1, <1>2, Zenon

\* Crash atomicity, for any numbers of processes and blocks, any size of the log
\* and any sequence of crashes, also in the midst of recovery: the log of log.c
\* implements module Transactions.  No assumption on opmax is needed, since a
\* panic stops the machine like a crash.
THEOREM LogImplementsTransactions == Spec => Atomic
<1>1. Init => SInv
  BY Zenon DEF Init, SInv
<1>. QED
  BY <1>1, Scene_fixed, Init_IInv, Step_IInv, Init_Atomic, Step_Atomic, PTL DEF Spec, Atomic, Tx!TSpec
=============================================================================
