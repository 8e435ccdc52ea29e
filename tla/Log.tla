---------------------------------- MODULE Log ----------------------------------
(***************************************************************************)
(* The redo log of kernel/log.c over the buffer cache of kernel/bio.c:     *)
(* begin_op, log_write, end_op with group commit, and recovery at boot.    *)
(* Every bwrite is a step of its own, and the machine may crash before and *)
(* after each of them, also while it recovers.  A block is written whole.  *)
(*                                                                         *)
(* A file system operation is the process that has called begin_op and     *)
(* logs up to OPMAX different blocks.  A scene says how many these are and *)
(* which process writes what.  bread, the change of the data, log_write    *)
(* and brelse are one step: the buffer is locked throughout, and the       *)
(* commit that would read it waits for the operation to end.  The cached   *)
(* copies of the log's own blocks never differ from the disk and are not   *)
(* modelled.                                                               *)
(***************************************************************************)
EXTENDS Integers, Sequences, FiniteSets

CONSTANTS Proc,         \* processes
          Block,        \* home blocks of the file system
          Val,          \* contents of a block
          InitVal,      \* contents of every block at first
          MAXOPBLOCKS,  \* max # of blocks any FS op writes (10)
          Scene         \* which process writes what, and how many blocks an operation logs

ASSUME LogAssumption ==
  /\ InitVal \in Val /\ Val \subseteq Nat
  /\ MAXOPBLOCKS \in Nat \ {0}
  /\ Scene \subseteq [writes : SUBSET (Proc \X Block \X Val), opmax : 0 .. MAXOPBLOCKS]

LOGSIZE == MAXOPBLOCKS * 3   \* max data blocks in on-disk log
NLOG == LOGSIZE              \* sb->nlog, as mkfs sets it: log blocks, header included

NotCached == -1
LogSlot == 1 .. NLOG - 1

VARIABLES home,         \* the blocks at their home locations, on disk
          logblk,       \* the log blocks, on disk
          head,         \* the header block on disk: the block numbers
          cache,        \* the buffer cache: data of the buffer, NotCached if none
          refcnt,       \* b->refcnt, as held by the log's bpin
          lh,           \* log.lh in memory
          outstanding,  \* log.outstanding
          committing,   \* log.committing
          pc,           \* where each process is
          wrote,        \* the blocks that the operation of a process has logged
          todo,         \* what commit or recovery does next, and for which tail
          panic,        \* the message of the panic that stopped the kernel
          scene         \* the scene, which never changes

ondisk == <<home, logblk, head>>
vars == <<home, logblk, head, cache, refcnt, lh, outstanding, committing,
          pc, wrote, todo, panic, scene>>

\* The most blocks that an operation really logs.
OPMAX == scene.opmax

\* The processes that run operations.
Operating == {w[1] : w \in scene.writes}

Nothing == [op |-> "none", tail |-> 0]
At(op, tail) == [op |-> op, tail |-> tail]
Members(s) == {s[i] : i \in 1 .. Len(s)}

\* mkfs leaves an empty log; initlog is about to run.
Init ==
  /\ home = [b \in Block |-> InitVal]
  /\ logblk = [i \in LogSlot |-> InitVal]
  /\ head = <<>>
  /\ cache = [b \in Block |-> NotCached]
  /\ refcnt = [b \in Block |-> 0]
  /\ lh = <<>>
  /\ outstanding = 0
  /\ committing = FALSE
  /\ pc = [p \in Proc |-> "user"]
  /\ wrote = [p \in Proc |-> {}]
  /\ todo = At("read_head", 0)
  /\ panic = "none"
  /\ scene \in Scene

Booting == todo.op # "none" /\ ~committing
Runs == ~Booting /\ panic = "none"

\* wakeup(&log): the sleepers go round begin_op's loop again.
Wakeup == [q \in Proc |-> IF pc[q] = "asleep" THEN "begin" ELSE pc[q]]

\* bread: what the buffer of b holds, read from disk if it is not cached.
bread(b) == IF cache[b] = NotCached THEN home[b] ELSE cache[b]

\* bget takes the buffer of b, which nobody holds, for another block.
Recycle(b) ==
  /\ Runs
  /\ cache[b] # NotCached /\ refcnt[b] = 0
  /\ cache' = [cache EXCEPT ![b] = NotCached]
  /\ UNCHANGED <<ondisk, refcnt, lh, outstanding, committing, pc, wrote, todo, panic, scene>>

-----------------------------------------------------------------------------
(* Operations.                                                             *)

\* Mutant: the operation that is about to begin gets no reservation.
LogFull_late == committing \/ Len(lh) + outstanding * MAXOPBLOCKS > LOGSIZE

\* One turn of begin_op's loop has to sleep.
LogFull == committing \/ Len(lh) + (outstanding + 1) * MAXOPBLOCKS > LOGSIZE

begin_op(p) ==
  /\ Runs
  /\ pc[p] \in {"user", "begin"}
  /\ IF LogFull
       THEN pc' = [pc EXCEPT ![p] = "asleep"] /\ UNCHANGED outstanding
       ELSE pc' = [pc EXCEPT ![p] = "op"] /\ outstanding' = outstanding + 1
  /\ UNCHANGED <<ondisk, cache, refcnt, lh, committing, wrote, todo, panic, scene>>

\* bpin of a block that is new in the log.
Pin(b) == IF b \in Members(lh) THEN refcnt ELSE [refcnt EXCEPT ![b] = @ + 1]

\* An operation changes block b to v and calls log_write.
log_write(p, b, v) ==
  /\ Runs
  /\ pc[p] = "op"
  /\ Cardinality(wrote[p] \cup {b}) <= OPMAX
  /\ cache' = [cache EXCEPT ![b] = v]
  /\ IF Len(lh) >= LOGSIZE \/ Len(lh) >= NLOG - 1
       THEN panic' = "too_big_a_transaction" /\ UNCHANGED <<lh, refcnt, wrote>>
     ELSE IF outstanding < 1
       THEN panic' = "log_write_outside_of_trans" /\ UNCHANGED <<lh, refcnt, wrote>>
     ELSE /\ lh' = IF b \in Members(lh) THEN lh ELSE Append(lh, b)
          /\ refcnt' = Pin(b)
          /\ wrote' = [wrote EXCEPT ![p] = @ \cup {b}]
          /\ UNCHANGED panic
  /\ UNCHANGED <<ondisk, outstanding, committing, pc, todo, scene>>

\* Mutant: the sleepers are only woken by a commit.
end_op_nowakeup(p) ==
  LET last == outstanding = 1
  IN /\ Runs
     /\ pc[p] = "op"
     /\ outstanding' = outstanding - 1
     /\ panic' = IF committing THEN "log.committing" ELSE panic
     /\ committing' = (committing \/ last)
     /\ todo' = IF last THEN At("write_log", 1) ELSE todo
     /\ pc' = [pc EXCEPT ![p] = IF last THEN "commit" ELSE "user"]
     /\ wrote' = [wrote EXCEPT ![p] = {}]
     /\ UNCHANGED <<ondisk, cache, refcnt, lh, scene>>

\* end_op up to commit, which the last operation to end does.
end_op(p) ==
  LET last == outstanding = 1
  IN /\ Runs
     /\ pc[p] = "op"
     /\ outstanding' = outstanding - 1
     /\ panic' = IF committing THEN "log.committing" ELSE panic
     /\ committing' = (committing \/ last)
     /\ todo' = IF last THEN At("write_log", 1) ELSE todo
     /\ pc' = [(IF last THEN pc ELSE Wakeup) EXCEPT ![p] = IF last THEN "commit" ELSE "user"]
     /\ wrote' = [wrote EXCEPT ![p] = {}]
     /\ UNCHANGED <<ondisk, cache, refcnt, lh, scene>>

-----------------------------------------------------------------------------
(* commit and recovery.  Each step ends with the bwrite of one block.      *)

Committer == {p \in Proc : pc[p] = "commit"}
kernel == <<outstanding, committing, pc, wrote, panic, scene>>

\* One iteration of write_log.
write_log ==
  /\ panic = "none"
  /\ todo.op = "write_log" /\ todo.tail <= Len(lh)
  /\ logblk' = [logblk EXCEPT ![todo.tail] = bread(lh[todo.tail])]
  /\ cache' = [cache EXCEPT ![lh[todo.tail]] = bread(lh[todo.tail])]
  /\ todo' = At("write_log", todo.tail + 1)
  /\ UNCHANGED <<home, head, refcnt, lh, kernel>>

\* write_head by commit, "the true point at which the transaction commits".
write_head ==
  /\ panic = "none"
  /\ todo.op = "write_log" /\ todo.tail > Len(lh) /\ Len(lh) > 0
  /\ head' = lh
  /\ todo' = At("install_trans", 1)
  /\ UNCHANGED <<home, logblk, cache, refcnt, lh, kernel>>

\* read_head, at boot.
read_head ==
  /\ todo.op = "read_head"
  /\ lh' = head
  /\ todo' = At("install_trans", 1)
  /\ UNCHANGED <<ondisk, cache, refcnt, kernel>>

\* bunpin, unless recovering.
Unpin(b) == IF Booting THEN refcnt ELSE [refcnt EXCEPT ![b] = @ - 1]

\* One iteration of install_trans(recovering).
install_trans ==
  LET b == lh[todo.tail]
  IN /\ panic = "none"
     /\ todo.op = "install_trans" /\ todo.tail <= Len(lh)
     /\ home' = [home EXCEPT ![b] = logblk[todo.tail]]
     /\ cache' = [cache EXCEPT ![b] = logblk[todo.tail]]
     /\ refcnt' = Unpin(b)
     /\ todo' = At("install_trans", todo.tail + 1)
     /\ UNCHANGED <<logblk, head, lh, kernel>>

\* Mutant: the header is erased before the blocks are at home.
clear_head_early ==
  /\ panic = "none"
  /\ todo.op = "install_trans"
  /\ head' = <<>>
  /\ IF todo.tail > Len(lh)
       THEN lh' = <<>> /\ todo' = IF committing THEN At("end_op", 0) ELSE Nothing
       ELSE UNCHANGED <<lh, todo>>
  /\ UNCHANGED <<home, logblk, cache, refcnt, kernel>>

\* log.lh.n = 0 and write_head: the transaction is erased.
clear_head ==
  /\ panic = "none"
  /\ todo.op = "install_trans" /\ todo.tail > Len(lh)
  /\ lh' = <<>>
  /\ head' = <<>>
  /\ todo' = IF committing THEN At("end_op", 0) ELSE Nothing
  /\ UNCHANGED <<home, logblk, cache, refcnt, kernel>>

\* The end of end_op, also when commit had nothing to do.
committed ==
  /\ panic = "none"
  /\ todo.op = "end_op" \/ (todo.op = "write_log" /\ lh = <<>>)
  /\ committing' = FALSE
  /\ pc' = [q \in Proc |-> IF q \in Committer THEN "user" ELSE Wakeup[q]]
  /\ todo' = Nothing
  /\ UNCHANGED <<ondisk, cache, refcnt, lh, outstanding, wrote, panic, scene>>

\* The machine stops and boots again: only the disk is left.
Crash ==
  /\ UNCHANGED <<ondisk, scene>>
  /\ cache' = [b \in Block |-> NotCached]
  /\ refcnt' = [b \in Block |-> 0]
  /\ lh' = <<>>
  /\ outstanding' = 0
  /\ committing' = FALSE
  /\ pc' = [p \in Proc |-> "user"]
  /\ wrote' = [p \in Proc |-> {}]
  /\ todo' = At("read_head", 0)
  /\ panic' = "none"

LogStep == write_log \/ write_head \/ read_head \/ install_trans \/ clear_head \/ committed

Next ==
  \/ \E p \in Operating : begin_op(p) \/ end_op(p)
  \/ \E w \in scene.writes : log_write(w[1], w[2], w[3])
  \/ \E b \in Block : Recycle(b)
  \/ LogStep
  \/ Crash

Spec == Init /\ [][Next]_vars

\* The disk answers, an operation under way ends, and a process that has been
\* woken up runs: the scheduler is round robin and operations are loops over
\* at most OPMAX blocks.
FairSpec ==
  /\ Spec
  /\ WF_vars(LogStep)
  /\ \A p \in Proc : WF_vars(end_op(p)) /\ WF_vars(pc[p] = "begin" /\ begin_op(p))

-----------------------------------------------------------------------------
(* Properties.                                                             *)

\* begin_op's reservation is enough: no operation that logs fewer than MAXOPBLOCKS
\* blocks finds the log full in log_write, however many operations have ended
\* since the last commit; and log_write and end_op find log.outstanding and
\* log.committing as they expect.  It does not hold of operations that log
\* MAXOPBLOCKS blocks each, since one of the log's blocks is its header (LogSpace.cfg).
NoPanic == panic = "none"

\* What recovery would make of the disk as it is.
Recovered ==
  [b \in Block |-> IF b \in Members(head)
                     THEN logblk[CHOOSE i \in 1 .. Len(head) : head[i] = b]
                     ELSE home[b]]

\* What operations read, and who is inside one, unless the kernel has stopped.
Memory == IF Booting \/ panic # "none" THEN Recovered ELSE [b \in Block |-> bread(b)]
InOperation == IF panic # "none" THEN {} ELSE {p \in Proc : pc[p] = "op"}

Tx == INSTANCE Transactions WITH disk <- Recovered, memory <- Memory, active <- InOperation

\* Operations are atomic with respect to crashes: group commit, installation and
\* recovery, whatever they are interrupted by, implement module Transactions.
Atomic == Tx!TSpec

\* Nobody sleeps in begin_op for ever: each commit and each end of an operation
\* that makes room wakes the sleepers up.
Woken == \A p \in Proc : pc[p] = "asleep" ~> pc[p] # "asleep"
=============================================================================
