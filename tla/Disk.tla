--------------------------------- MODULE Disk ---------------------------------
(***************************************************************************)
(* The buffer cache (kernel/bio.c), its sleeplocks (kernel/sleeplock.c),   *)
(* and the virtio disk driver (kernel/virtio_disk.c) with its device.      *)
(* Processes read blocks, change them, write them through or pin them as   *)
(* the log does, and release them.                                         *)
(*                                                                         *)
(* A step is what a process does under bcache.lock, under the spinlock of  *)
(* a sleeplock, or under vdisk_lock between two sleeps.  The device works  *)
(* at any time, also while vdisk_lock is held: so publishing a request is  *)
(* apart from preparing it, and the interrupt handler takes a step for     *)
(* each completion.                                                        *)
(***************************************************************************)
EXTENDS Integers, Sequences, FiniteSets, FiniteSetsExt

CONSTANTS Proc, Block, Data,
          Scene,   \* what may happen: records of the processes that run, the
                   \* blocks they read and those they change, the blocks
                   \* pinned at once, and the number of descriptors (NUM, 8)
          NBUF,    \* 30
          RING,    \* length of the rings, also NUM in the code; all that
                   \* matters is that every request has an entry
          IDX      \* ring indices are 16 bits wide: 2^16

None == 0
Intr == -1   \* the interrupt handler
Buf == 1 .. NBUF

ASSUME DiskAssumption ==
  /\ Proc \subseteq Nat \ {None} /\ Block \subseteq Nat \ {None} /\ Data # {}
  /\ NBUF \in Nat /\ RING \in Nat \ {0} /\ IDX \in Nat
  /\ IDX % RING = 0 /\ IDX > RING
  /\ \A s \in Scene :
       /\ s.procs \subseteq Proc /\ s.blocks \subseteq Block /\ s.changed \subseteq s.blocks
       /\ IsFiniteSet(s.procs) /\ IsFiniteSet(s.blocks)
       /\ s.maxpin \in Nat /\ s.num \in Nat /\ 3 <= s.num /\ s.num < 3 * (RING + 1)
       /\ NBUF >= Cardinality(s.procs) + s.maxpin \/ NBUF >= Cardinality(s.blocks)

VARIABLES scene,            \* the scene that is played, chosen at the start
          lru,              \* bcache.head: the buffers, most recently used first
          blockno, valid, refcnt, data,  \* struct buf
          owner,            \* b->lock: the process that holds it
          ondisk,           \* b->disk: the disk owns the buffer
          free,             \* disk.free: the free descriptors
          desc,             \* disk.desc: what each points to (a command of
                            \* disk.ops, a buffer, a status), and the next
          info,             \* disk.info: the buffer, and if the status is 0
          avail, avail_idx, \* the ring the driver writes
          used, used_dev,   \* the ring the device writes, and its index
          used_idx,         \* disk.used_idx
          vlock,            \* who holds vdisk_lock
          seen, doing, irq, \* the device: read so far of avail, requests it is
                            \* working on, its interrupt
          platter,          \* what is on the disk
          at, b, write, idx,  \* each process: its place and local variables
          wanted,           \* the block each process asked for
          pinned,           \* blocks with a bpin
          content,          \* what the last change made of each block
          panic

cache == <<lru, blockno, valid, refcnt>>
rings == <<avail, avail_idx, used, used_dev, used_idx>>
driver == <<free, desc, info>>
device == <<seen, doing, irq, platter>>
locals == <<b, write, idx, wanted>>
ghosts == <<pinned, content, panic>>
vars == <<cache, data, owner, ondisk, driver, rings, vlock, device, at, locals, ghosts>>

Desc == 0 .. scene.num - 1

\* binit, virtio_disk_init.  The list is built by inserting at its head.
Init ==
  /\ scene \in Scene
  /\ lru = [i \in Buf |-> NBUF + 1 - i]
  /\ blockno = [k \in Buf |-> None] /\ valid = [k \in Buf |-> FALSE]
  /\ refcnt = [k \in Buf |-> 0] /\ owner = [k \in Buf |-> None]
  /\ ondisk = [k \in Buf |-> FALSE]
  /\ platter = [n \in Block |-> CHOOSE d \in Data : TRUE]
  /\ data = [k \in Buf |-> CHOOSE d \in Data : TRUE]
  /\ free = Desc
  /\ desc = [i \in Desc |-> [addr |-> None, next |-> None]]
  /\ info = [i \in Desc |-> [buf |-> None, ok |-> FALSE]]
  /\ avail = [i \in 0 .. RING - 1 |-> 0] /\ avail_idx = 0
  /\ used = [i \in 0 .. RING - 1 |-> 0] /\ used_dev = 0 /\ used_idx = 0
  /\ vlock = None /\ seen = 0 /\ doing = {} /\ irq = FALSE
  /\ at = [t \in Proc \cup {Intr} |-> "idle"]
  /\ b = [p \in Proc |-> None] /\ write = [p \in Proc |-> FALSE]
  /\ idx = [p \in Proc |-> <<>>] /\ wanted = [p \in Proc |-> None]
  /\ pinned = {} /\ content = platter /\ panic = FALSE

Goto(t, l) == at' = [at EXCEPT ![t] = l]

\* at after wakeup on a channel: the sleepers there go on to `to', t to l.
Wakeup(sleepers, to, t, l) ==
  at' = [q \in DOMAIN at |-> IF q = t THEN l ELSE IF q \in sleepers THEN to ELSE at[q]]

-----------------------------------------------------------------------------
(* The buffer cache.                                                       *)

Cached(n) == {k \in Buf : blockno[k] = n}

Unused == {k \in Buf : refcnt[k] = 0}

\* Mutant: the contents of the last block are taken for the new one's.
Recycled_valid(k) == valid[k]

\* b->valid of a buffer that is recycled
Recycled(k) == FALSE

\* bget, under bcache.lock.
bget(p, n) ==
  /\ at[p] = "idle"
  /\ wanted' = [wanted EXCEPT ![p] = n]
  /\ IF Cached(n) # {}
     THEN LET k == CHOOSE k \in Cached(n) : TRUE IN
          /\ refcnt' = [refcnt EXCEPT ![k] = @ + 1]
          /\ b' = [b EXCEPT ![p] = k]
          /\ Goto(p, "lock") /\ UNCHANGED <<blockno, valid, panic>>
     ELSE IF Unused # {}
     THEN LET k == lru[Max({i \in Buf : lru[i] \in Unused})] IN
          /\ blockno' = [blockno EXCEPT ![k] = n]
          /\ valid' = [valid EXCEPT ![k] = Recycled(k)]
          /\ refcnt' = [refcnt EXCEPT ![k] = 1]
          /\ b' = [b EXCEPT ![p] = k]
          /\ Goto(p, "lock") /\ UNCHANGED panic
     ELSE panic' = TRUE /\ UNCHANGED <<blockno, valid, refcnt, at, b>>
  /\ UNCHANGED <<lru, data, owner, ondisk, driver, rings, vlock, device, write, idx, pinned, content>>

\* acquiresleep at the end of bget; bread then reads the block if need be.
acquiresleep(p) ==
  /\ at[p] = "lock"
  /\ IF owner[b[p]] # None
     THEN Goto(p, "locksleep") /\ UNCHANGED <<owner, write>>
     ELSE /\ owner' = [owner EXCEPT ![b[p]] = p]
          /\ write' = [write EXCEPT ![p] = FALSE]
          /\ Goto(p, IF valid[b[p]] THEN "have" ELSE "rw")
  /\ UNCHANGED <<cache, data, ondisk, driver, rings, vlock, device, b, idx, wanted, ghosts>>

\* The holder changes the block, and writes it (as write_log does) or pins it
\* (as log_write does).
Change(p) ==
  /\ at[p] = "have"
  /\ wanted[p] \in scene.changed
  /\ \E d \in Data \ {data[b[p]]} :
       /\ data' = [data EXCEPT ![b[p]] = d]
       /\ content' = [content EXCEPT ![wanted[p]] = d]
  /\ UNCHANGED <<lru, blockno, valid, owner, ondisk, driver, rings, vlock, device, b, idx, wanted, panic>>

bwrite(p) ==
  /\ Change(p)
  /\ write' = [write EXCEPT ![p] = TRUE]
  /\ Goto(p, "rw")
  /\ UNCHANGED <<refcnt, pinned>>

\* refcnt after bpin
Pin(k) == [refcnt EXCEPT ![k] = @ + 1]

bpin(p) ==
  /\ Change(p)
  /\ wanted[p] \in pinned \/ Cardinality(pinned) < scene.maxpin
  /\ refcnt' = IF wanted[p] \in pinned THEN refcnt ELSE Pin(b[p])
  /\ pinned' = pinned \cup {wanted[p]}
  /\ UNCHANGED <<write, at>>

\* install_trans: a pinned block is written, and unpinned if it was.
bwrite_pinned(p) ==
  /\ at[p] = "have" /\ wanted[p] \in pinned
  /\ write' = [write EXCEPT ![p] = TRUE]
  /\ Goto(p, "rw")
  /\ UNCHANGED <<cache, data, owner, ondisk, driver, rings, vlock, device, b, idx, wanted, ghosts>>

bunpin(p) ==
  /\ at[p] = "have" /\ write[p] /\ wanted[p] \in pinned
  /\ data[b[p]] = platter[wanted[p]]
  /\ refcnt' = [refcnt EXCEPT ![b[p]] = @ - 1]
  /\ pinned' = pinned \ {wanted[p]}
  /\ UNCHANGED <<lru, blockno, valid, data, owner, ondisk, driver, rings, vlock, device, at,
                 locals, content, panic>>

\* brelse: releasesleep, and then the reference under bcache.lock.
releasesleep(p) ==
  /\ at[p] = "have"
  /\ owner' = [owner EXCEPT ![b[p]] = None]
  /\ Wakeup({q \in Proc : at[q] = "locksleep" /\ b[q] = b[p]}, "lock", p, "relse")
  /\ write' = [write EXCEPT ![p] = FALSE]
  /\ UNCHANGED <<cache, data, ondisk, driver, rings, vlock, device, b, idx, wanted, ghosts>>

Released(k) == refcnt[k] - 1

\* The list with k at its head.
ToFront(k) ==
  LET was == CHOOSE i \in Buf : lru[i] = k
  IN  [i \in Buf |-> IF i = 1 THEN k ELSE IF i <= was THEN lru[i - 1] ELSE lru[i]]

brelse(p) ==
  /\ at[p] = "relse"
  /\ refcnt' = [refcnt EXCEPT ![b[p]] = Released(b[p])]
  /\ lru' = IF Released(b[p]) = 0 THEN ToFront(b[p]) ELSE lru
  /\ b' = [b EXCEPT ![p] = None] /\ wanted' = [wanted EXCEPT ![p] = None]
  /\ Goto(p, "idle")
  /\ UNCHANGED <<blockno, valid, data, owner, ondisk, driver, rings, vlock, device, write, idx, ghosts>>

-----------------------------------------------------------------------------
(* The driver.                                                             *)

\* alloc_desc takes the lowest free descriptor; alloc3_desc does it three times.
Lowest3 ==
  LET i == Min(free)
      j == Min(free \ {i})
  IN  <<i, j, Min(free \ {i, j})>>

\* virtio_disk_rw, when alloc3_desc fails: it wakes the others who wait for a
\* descriptor if it had one to give back.
alloc3_desc_fail(p) ==
  /\ at[p] = "rw" /\ vlock = None /\ Cardinality(free) < 3
  /\ Wakeup({q \in Proc : at[q] = "nodesc" /\ free # {}}, "rw", p, "nodesc")
  /\ UNCHANGED <<cache, data, owner, ondisk, driver, rings, vlock, device, locals, ghosts>>

\* virtio_disk_rw: the request is prepared, and its head put into the ring.
virtio_disk_rw(p) ==
  /\ at[p] = "rw" /\ vlock = None /\ Cardinality(free) >= 3
  /\ LET i == Lowest3 IN
     /\ idx' = [idx EXCEPT ![p] = i]
     /\ free' = free \ Range(i)
     /\ desc' = [desc EXCEPT ![i[1]] = [addr |-> <<write[p], blockno[b[p]]>>, next |-> i[2]],
                             ![i[2]] = [addr |-> b[p], next |-> i[3]],
                             ![i[3]] = [addr |-> i[1], next |-> None]]
     /\ info' = [info EXCEPT ![i[1]] = [buf |-> b[p], ok |-> FALSE]]
     /\ avail' = [avail EXCEPT ![avail_idx % RING] = i[1]]
  /\ ondisk' = [ondisk EXCEPT ![b[p]] = TRUE]
  /\ vlock' = p /\ Goto(p, "publish")
  /\ UNCHANGED <<cache, data, owner, avail_idx, used, used_dev, used_idx, device, b, write, wanted, ghosts>>

\* Mutant: the index is kept within the ring.
Published_ring == (avail_idx + 1) % RING

Published == (avail_idx + 1) % IDX

\* The index is moved on, the device notified, and the process sleeps on b.
publish(p) ==
  /\ at[p] = "publish"
  /\ avail_idx' = Published
  /\ vlock' = None /\ Goto(p, "wdisk")
  /\ UNCHANGED <<cache, data, owner, ondisk, driver, avail, used, used_dev, used_idx, device, locals, ghosts>>

\* The descriptors free_chain(i) frees.
Chain(i) == {i, desc[i].next, desc[desc[i].next].next}

\* Mutant: free_chain wakes others only if no descriptor was free before.
WokenByFree_empty == {q \in Proc : at[q] = "nodesc" /\ free = {}}

WokenByFree == {q \in Proc : at[q] = "nodesc"}

\* virtio_disk_rw after the sleep.
finish(p) ==
  /\ at[p] = "woken" /\ vlock = None
  /\ IF ondisk[b[p]]
     THEN Goto(p, "wdisk") /\ UNCHANGED <<free, desc, info, valid, idx, panic>>
     ELSE /\ LET c == Chain(idx[p][1]) IN
             /\ info' = [info EXCEPT ![idx[p][1]].buf = None]
             /\ free' = free \cup c
             /\ desc' = [i \in Desc |-> IF i \in c THEN [addr |-> None, next |-> None] ELSE desc[i]]
             /\ panic' = (panic \/ c \cap free # {})
          /\ Wakeup(WokenByFree, "rw", p, "have")
          /\ valid' = [valid EXCEPT ![b[p]] = TRUE]
          /\ idx' = [idx EXCEPT ![p] = <<>>]
  /\ UNCHANGED <<lru, blockno, refcnt, data, owner, ondisk, rings, vlock, device, b, write,
                 wanted, pinned, content>>

\* virtio_disk_intr: take vdisk_lock and acknowledge the interrupt.
virtio_disk_intr ==
  /\ irq /\ at[Intr] = "idle" /\ vlock = None
  /\ irq' = FALSE /\ vlock' = Intr /\ Goto(Intr, "loop")
  /\ UNCHANGED <<cache, data, owner, ondisk, driver, rings, seen, doing, platter, locals, ghosts>>

Completions == used_idx # used_dev

\* Mutant: the driver's index stays where it is.
Consumed_not == used_idx

Consumed == (used_idx + 1) % IDX

\* One completion: the buffer is no longer the disk's.
complete ==
  /\ at[Intr] = "loop" /\ Completions
  /\ LET id == used[used_idx % RING]
         k == info[id].buf
     IN  /\ panic' = (panic \/ ~info[id].ok \/ k = None)
         /\ ondisk' = [ondisk EXCEPT ![k] = FALSE]
         /\ Wakeup({q \in Proc : at[q] = "wdisk" /\ b[q] = k}, "woken", Intr, "loop")
  /\ used_idx' = Consumed
  /\ UNCHANGED <<cache, data, owner, driver, avail, avail_idx, used, used_dev, vlock, device,
                 locals, pinned, content>>

intr_return ==
  /\ at[Intr] = "loop" /\ ~Completions
  /\ vlock' = None /\ Goto(Intr, "idle")
  /\ UNCHANGED <<cache, data, owner, ondisk, driver, rings, device, locals, ghosts>>

-----------------------------------------------------------------------------
(* The device.                                                             *)

\* It reads the next entry of the avail ring.
Fetch ==
  /\ seen # avail_idx
  /\ doing' = doing \cup {avail[seen % RING]}
  /\ seen' = (seen + 1) % IDX
  /\ UNCHANGED <<cache, data, owner, ondisk, driver, rings, vlock, irq, platter, at, locals, ghosts>>

\* It carries out any of the requests it has, in any order, as its descriptors
\* say, tells so in the used ring, and interrupts.
Serve(i) ==
  /\ i \in doing
  /\ LET op == desc[i].addr
         k == desc[desc[i].next].addr
         last == desc[desc[i].next].next
     IN  /\ IF op[1]
            THEN platter' = [platter EXCEPT ![op[2]] = data[k]] /\ UNCHANGED data
            ELSE data' = [data EXCEPT ![k] = platter[op[2]]] /\ UNCHANGED platter
         /\ info' = [info EXCEPT ![desc[last].addr].ok = TRUE]
  /\ doing' = doing \ {i}
  /\ used' = [used EXCEPT ![used_dev % RING] = i]
  /\ used_dev' = (used_dev + 1) % IDX
  /\ irq' = TRUE
  /\ UNCHANGED <<cache, owner, ondisk, free, desc, avail, avail_idx, used_idx, vlock, seen, at,
                 locals, ghosts>>

-----------------------------------------------------------------------------

Kernel(p) ==
  \/ acquiresleep(p) \/ brelse(p)
  \/ alloc3_desc_fail(p) \/ virtio_disk_rw(p) \/ publish(p) \/ finish(p)
Handler == virtio_disk_intr \/ complete \/ intr_return
Device == Fetch \/ \E i \in Desc : Serve(i)

Next ==
  /\ \/ \E p \in scene.procs :
          \/ \E n \in scene.blocks : bget(p, n)
          \/ bwrite(p) \/ bpin(p) \/ bwrite_pinned(p) \/ bunpin(p) \/ releasesleep(p)
          \/ Kernel(p)
     \/ Handler
     \/ Device
  /\ UNCHANGED scene

\* Kernel code runs on, the interrupt is taken, and the device serves every
\* request at some time.
Fairness ==
  /\ \A p \in Proc : WF_vars(Kernel(p))
  /\ WF_vars(Handler)
  /\ WF_vars(Fetch) /\ \A i \in 0 .. 3 * RING - 1 : WF_vars(Serve(i))

Spec == Init /\ [][Next]_<<scene, vars>> /\ Fairness

-----------------------------------------------------------------------------

\* The processes whose request the device or the driver has.
Requesting == {p \in Proc : at[p] \in {"publish", "wdisk", "woken"}}

\* bread returns what was last made of the block, in memory or on disk, and
\* with the buffer to itself; bget never panics for want of a buffer (bio.c:88).
ReadsLatest ==
  /\ ~panic
  /\ \A p \in Proc : at[p] = "have" =>
       /\ data[b[p]] = content[wanted[p]]
       /\ owner[b[p]] = p /\ ~ondisk[b[p]]

\* The heads in the part of a ring from index i up to index j.
Heads(ring, i, j) == [k \in 1 .. (j - i) % IDX |-> ring[((i + k - 1) % IDX) % RING]]

\* Every descriptor is free or in the chain of exactly one request
\* (virtio_disk.c:206, :289).  The disk owns a buffer exactly as long as its
\* request is in one place: not yet seen by the device, being served, or
\* completed and not yet seen by the driver.  No completion is lost or handled
\* twice, though indices wrap, interrupts are merged, and the device answers
\* out of order.
RequestsExact ==
  /\ \A p, q \in Requesting : p # q => Range(idx[p]) \cap Range(idx[q]) = {}
  /\ free = Desc \ UNION {Range(idx[p]) : p \in Requesting}
  /\ \A p \in Proc : at[p] \in {"wdisk", "woken"} =>
       LET Count(s) == Cardinality({i \in DOMAIN s : s[i] = idx[p][1]})
           places == Count(Heads(avail, seen, avail_idx))
                     + (IF idx[p][1] \in doing THEN 1 ELSE 0)
                     + Count(Heads(used, used_idx, used_dev))
       IN  places = IF ondisk[b[p]] THEN 1 ELSE 0

\* Nobody sleeps for what is there: three descriptors, a free sleeplock, or a
\* request that is done (virtio_disk.c:181, :321, sleeplock.c:39).
NoLostWakeup ==
  \A p \in Proc :
    /\ at[p] = "nodesc" => Cardinality(free) < 3
    /\ at[p] = "locksleep" => owner[b[p]] # None
    /\ at[p] = "wdisk" => ondisk[b[p]]

\* Every request is completed, and its process woken up (virtio_disk.c:284).
RequestServed == \A p \in Proc : at[p] = "publish" ~> at[p] = "woken"
=============================================================================
