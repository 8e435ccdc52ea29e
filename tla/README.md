# Verification of xv6 with mmap and huge pages

TLA+ models, TLC runs and TLAPS proofs for the kernel in `src/kernel`: xv6 for
RISC-V, extended with `mmap`/`munmap`, demand paging, copy-on-write fork, shared
regions and 2 MB huge pages. Source references are `file:line` in `src/kernel`.

## 1. The system

| part | state | operations | interacts with |
|---|---|---|---|
| physical allocator, `kalloc.c` | `kmem`: `hugepagelist`, `pagelist`, two arrays of 8-bit reference counters; `freemem`, `used4k`, `used2m` | `kinit`, `kalloc`, `kfree`, `kalloc_huge`, `kfree_huge`, `incr_pa_ref`, `incr_huge_pa_ref` | everything that maps memory |
| memory mapping, `sysproc.c`, `proc.c`, `vm.c`, `exec.c` | page tables, `mmap_list` (4 regions per process), `mmaplock` | `sys_mmap`, `sys_munmap`, `pagefault`, the region part of `fork`, `proc_freepagetable` from `exec`/`wait` | allocator, processes |
| processes, `proc.c` | `state`, `chan`, `killed`, `parent`, `wait_lock`, `p->lock`, `c->proc` | `scheduler`, `sched`, `yield`, `sleep`, `wakeup`, `fork`, `exit`, `wait`, `kill` | all |
| locks and traps, `spinlock.c`, `trap.c`, `*.S` | locks, `noff`, `intena`, `sstatus`, `stvec`, `tp`, `ticks` | `acquire`, `release`, `push_off`, `pop_off`, `usertrap`, `kerneltrap`, `usertrapret`, `clockintr`, `sys_sleep` | all |
| pipes, `pipe.c`, `file.c` | ring, `nread`, `nwrite`, two open flags, file reference counts | `pipealloc`, `pipewrite`, `piperead`, `pipeclose`, `filedup`, `fileclose` | processes |
| file system, `fs.c`, `sysfile.c`, `file.c` | `itable`, `ftable`, inodes, bitmap, directories | `iget`, `ilock`, `iput`, `balloc`, `bmap`, `writei`, `namex`, `create`, `open`, `link`, `unlink`, ... | log, cache |
| log, `log.c` | in-memory header `lh`, `outstanding`, `committing`; on-disk header and log blocks | `begin_op`, `log_write`, `end_op`, `commit`, recovery | buffer cache, disk |
| buffer cache, `bio.c`, `sleeplock.c` | buffers, reference counts, LRU list, sleeplocks | `bread`, `bwrite`, `brelse`, `bpin`, `bunpin` | log, disk driver |
| disk driver, `virtio_disk.c` | descriptors, available and used rings | `virtio_disk_rw`, `virtio_disk_intr` | buffer cache |
| console, `console.c`, `uart.c` | input and output rings | `consoleread`, `consoleintr`, `uartputc`, `uartputc_sync`, `uartstart`, `uartintr` | processes |

What is hard: several harts run the kernel at once; `pagefault` edits the page
tables of other processes while these fork, exec or exit; a frame, an inode, a
buffer is freed by whoever drops the last of several references, counted by hand
at every site; sleepers depend on wakeups sent by others; interrupts come between
any two instructions; a crash may come between any two disk writes; ring indices
and reference counters wrap. `PROJECT.json` lists these as hazards, with the line
where each bites.

## 2. Modules

| module | models | checked by |
|---|---|---|
| `Kmem` | the operations of `kalloc.c` as operators on a `kmem` value | (used by the next two) |
| `Kalloc` | the allocator and its clients as a state machine | run `kalloc`; proofs in `KallocProofs` |
| `Frames` | abstract: an allocator that never hands memory out twice | refined by `Kalloc` |
| `Mmap` | memory mapping on top of `Kmem` | runs `mmap`, `mmap_returns`, `mmap_fork_race` |
| `Process` | scheduling, sleep/wakeup, fork/exit/wait/kill | run `process`; proofs in `ProcessProofs` |
| `Traps` | spinlocks, interrupts, traps and the clock, instruction by instruction | run `traps` |
| `Pipe` | a pipe and its two files | run `pipe`; proofs in `PipeProofs` |
| `Stream` | abstract: a bounded queue of bytes, which it keeps until it is closed | refined by `Pipe` and by the output of `Console` |
| `Blocks` | block allocation, block maps, file contents and directories as operators on a disk | (used by `Fs`) |
| `Fs` | inode table, path names, open files and their system calls | runs `fs`, `fs_iput` |
| `Log` | log, recovery, pinned buffers, crashes | run `log`; proofs in `LogProofs` |
| `Transactions` | abstract: operations that reach the disk atomically | refined by `Log` |
| `Disk` | buffer cache, sleeplocks, virtio driver and the device | run `disk`; proofs in `DiskSteps`, `DiskProofs` |
| `Console` | console and serial line with the device | run `console`; proofs in `ConsoleProofs` |
| `Lines` | abstract: lines that can be edited until they are ended | refined by the input of `Console` |
| `RingLemmas` | numbers, rings with counters that wrap, sequences | lemmas for `PipeProofs`, `DiskSteps`, `ConsoleProofs` |
| `MC...` | instances: scenes, regions, programs, messages | |

Definitions carry the names of the functions they model. Definitions marked
"Mutant" are wrong variants of the definition below them, each a plausible bug.
With the mutant in place TLC finds the property it is paired with violated.

Several modules have a constant `Scene`: a set of records that say which processes
there are, what their programs do, or how large a ring is. `Init` chooses one and no
step changes it. So one run looks at several small situations, where a single
instance that has them all would be out of reach. A scene fixes the programs and
the sizes, not what the kernel does.

### Kmem and Kalloc

A page is `<<section, offset>>`, so that `get_hugepage_i` is a projection. An
operator of `Kmem` is what the code does with `kmem.lock` held. `Kalloc` adds
clients: `held` and `hugeheld` count the references they hold, and a client may
also free what it does not hold (`stray`), upon which the code must panic. `Kmem`
keeps the quirks of the code: `kalloc` marks a page as allocated only if its
counter was 0, a search that fails in a section ends on the next one, and `kinit`
adds 512 to `freemem` for pages that hold the kernel.

### Mmap

A block is what one level-1 entry covers. Its entry is empty, a marker (`V` clear,
a shared page nobody has touched), a leaf (a huge page), or a table of level-0
entries. `phys` holds `kmem`, the contents of all pages (0 or 1) and the message
of a panic. `view` and `sharers` are what the programs were promised: `view[p][va]`
is the value `p` should read, and `sharers` says which processes a store is
visible to.

Atomicity: `sys_mmap`, `sys_munmap` and `pagefault` hold `mmaplock`. The connect
loop of `pagefault` is one step per process visited, each waiting for that
process's lock. `fork` holds the child's lock only, so every read and write of an
entry that a connect loop may change is a step of its own (`ForkPage`, `ForkMark`,
`ForkCopy`). All of this runs with interrupts off: the number of harts of a scene
bounds how many of these operations overlap.

Abstracted: ordinary user memory and the two upper levels of the page tables;
`exec`'s switch of page tables and the release of the old one are one step, and
so are the `kalloc` and `kfree` of a copy-on-write; stores write the value 1;
requests have passed the argument checks of `sys_mmap`, and those of the runs put huge
regions at multiples of 2 MB (item 7 below); `fork` does not fail.

### Process

A step is what a process does under one acquisition of a lock. `plock` is
`p->lock` while it is held across a switch of stacks, which is what keeps `wait`
from freeing a child that still runs on its stack. The search of `allocproc` is
not atomic, so `fork` may find any unused slot. The scan of `wait` is one step:
with `wait_lock` held no zombie appears and no parent changes.

### Traps

The other modules take a critical section as atomic. This one looks at what makes
it so. A thread is a process in the kernel or a hart's scheduler; what it still has
to do is a list of instructions, each one access to a lock, to `struct cpu` or to a
register. A call prepends the instructions of its body, and so does an interrupt,
in every state in which `sie` is set. The timer may be pending at any time. `tp` is a
register of the model: `mycpu()` reads it, and `uservec`/`usertrapret` and
`kernelvec` handle it the way the assembly does, so using another hart's `struct
cpu` is a behaviour the model could show.

### Pipe

A step is what happens under one acquisition of `pi->lock`. A kill takes no such
lock; it can fall in mid-copy (`pipewrite_killed`) or between the test of `killed`
and the sleep, and both are modelled. Copies from and to user memory can fail
after any byte. The counters are kept modulo `wrap`, a multiple of the ring's size.
`Stream` is closed before `pipealloc` and after the pipe is freed; while it is open
only a read takes bytes off, all of which it delivers but one if a copy fails.

### Blocks and Fs

A disk is a record of the bitmap, the words of each block and the on-disk inodes,
as `bread` shows it. A word stands for a byte of a file, a `struct dirent`, or a block
number in an indirect block. `Blocks` has `balloc`, `bmap`, `itrunc`, `readi`, `writei`,
`dirlookup` and `dirlink` as operators on disks, with a full disk as one of their cases.

In `Fs` a system call is a list of operations (`sys_open`, `sys_link`, ...). An
operation ends where the code can wait for an inode's lock, or gives up
`itable.lock` to take it again; in particular `iput` is four of them (`iput`, `ifree`,
`invalidate`, `drop`). `text` remembers what was written to each file, for `Contents`.
A lock that is taken and given back in one step is only a guard. `NobodyStuck`
says that the lock waits never form a circle.

Abstracted: copies from and to user memory succeed; `begin_op` does not wait (that
is in `Log`) and only says where a commit may fall (`Quiet`); names are numbers.

### Log

`home`, `logblk` and `head` are on disk; the rest is lost in `Crash`, which is
possible in every state, recovery included. `commit` is a step per disk write.
The log occupies `NLOG` blocks, header included, as `mkfs.c:25` lays it out. The
buffer cache is what the log needs of it: a block is cached or not, pinned or
not, and may be recycled when not pinned. A `bread`, modification, `log_write`
and `brelse` by one process is one step, since the buffer's lock is held. A scene
says which process writes which blocks and how many blocks an operation logs.

### Disk

The buffer cache on top of the driver on top of the device. `bget` searches and
recycles from the end of the LRU list; the holder of a buffer changes it, writes it,
pins it or lets it go. The driver allocates three descriptors, fills in the chain,
puts its head into the available ring and, as a step of its own, moves the index on.
The device (`Fetch`, `Serve`, external) reads the ring as soon as the index moves,
serves in any order what it has read, does what the descriptors say at that time,
and interrupts; interrupts that come close together are one. Ring indices are kept
modulo `IDX`, a multiple of the ring's size, as they are 16 bits wide in the code.

### Console

`consoleintr` and the echo, `uartputc` and `uartstart` look at the device and write to
it in separate steps, because echo takes no `uart_tx_lock`. The device (`Receive`,
`Transmit`, external) holds up to `FIFO` characters to send and interrupts when the
last has gone. `given` and `sent` are what a step delivers; the refinements of `Lines`
and `Stream` speak of them. The `Stream` of the output is never closed and loses nothing.

## 3. Runs

| run | instance | shows |
|---|---|---|
| `kalloc` | 3 sections of 2 pages, 3 references | counters, section counts and reference counts exact (`CountersExact`, `SectionCountExact`, `HeldIffAllocated`); `kalloc` finds a page if there is one; refinement of `Frames` |
| `mmap` | scene `Remapper`: 2 processes on 2 harts map, unmap and map again regions of every kind at one place, and touch shared pages before a fork; scene `Sharer`: 3 processes on 1 hart fork with every kind of region, touched or not, without `munmap` | no panic, reference counts equal the number of entries (`RefsExact`), every load returns what was promised (`MemoryAsPromised`) |
| `mmap_returns` | 3 processes, 2 harts, with `copyout` and failing `exec` | `fork` and `pagefault` always finish |
| `mmap_fork_race` | 3 processes, 2 harts | violation: see below |
| `process` | 3 processes, 2 harts | one hart per process, parents alive, `wait` returns |
| `traps` | scene `Moving`: a process on 2 harts; `Sharing`: 2 processes on 1 hart; `ticks` modulo 3 | no panic of the lock code; locks keep interrupts out; interrupts are on again where they should be; each hart uses its own `struct cpu`; no sleeper misses a tick |
| `pipe` | scene `Crowd`: 1 reader, 2 writers, 1-byte ring; `Ring`: 2 processes, 3-byte message through a 2-byte ring, counters modulo 4 | freed exactly when unused, sleepers woken, order (refinement of `Stream`), closing ends waiting |
| `fs` | disks of up to 10 blocks of 2 words and 5 inodes; every pair of 18 calls, three calls on one name, a directory removed and made again, open files, full disks and tables | no panic; reference counts, link counts and blocks exact; contents as written; nobody waits for ever; an inode without a name and without references is left allocated only in the race of `fs_iput` |
| `fs_iput` | 2 processes | violation |
| `log` | a log of 5 blocks; scene `Contents`: 3 processes, operations of up to 2 blocks on 2 blocks; `Filling`: operations of 1 block, one after the other, on 5 blocks | atomicity under crashes (refinement of `Transactions`); `begin_op` reserves enough, so no panic; no sleeper forgotten |
| `disk` | 2 buffers, ring of 2, indices modulo 4; scenes with 6, 4 and 3 descriptors, 2 or 3 blocks, one with pins | reads give the latest contents; descriptors and completions neither lost nor used twice; no lost wakeup; every request served |
| `console` | 1 reader, 2 writers, input ring of 3, output ring of 2, device queue of 2; scenes `Typing`, `Ending`, `Writing` | line discipline and order of output, no lost wakeup, no overrun of the device, writers woken |

Violations are disagreements between the code and its own comments:

1. `mmap_fork_race`. `fork` marks an untouched shared page in the parent
   (`proc.c:622`) and copies the entry to the child (`proc.c:625`). On another hart a
   page fault of a relative may connect the parent in between; `fork` then copies
   a leaf and counts no reference. The page is freed while mapped: `double kfree`.
2. `fs_iput`. `iput` frees an inode on disk, lets go of its locks, and drops its own
   reference in a second critical section (`fs.c:357`). In between another process
   may allocate the same inode, in the same slot, and remove it again: its `iput` sees
   two references and does not free, and the first one does not look again.

Six more configurations show behaviours that a passing run's scenes leave out.
TLC reports the named property violated in each:

3. `MmapUnmapMarker.cfg` (`MCMmap`, `NoPanic`). `munmap` skips invalid entries and so
   leaves markers. A relative's fault turns one into a leaf, which `freewalk` panics on.
4. `MmapUnrelated.cfg` (`MCMmap`, `FreedTableEmpty`). The connect loop for a huge page
   calls `walk_huge` on every process, and `walk_huge` frees the level-0 table it finds
   there, in use or not.
5. `LogSpace.cfg` (`MCLog`, `NoPanic`). `begin_op` reserves from `LOGSIZE` blocks while
   `log_write` stops at `log.size - 1`, one less. In the stock configuration three
   operations that log ten distinct blocks each reach the panic.
6. `FsOrphan.cfg` (`MCFs`, `LinksExact`). `create` has its directory by name but not yet
   locked when another process removes it; the new file then has a link in a
   directory that is gone. Its `nlink` stays 1, so it is no leak in the sense of `NoLeak`,
   but nothing ever frees it.
7. `MmapUnaligned.cfg` (`MCMmap`, `NoPanic`). `sys_mmap` accepts a huge region at any
   multiple of 4 KB (`sysproc.c:148`); `munmap`, `exec` and `exit` of it end in the panic
   of `uvmunmap_huge`, which wants a multiple of 2 MB (`vm.c:276`).
8. `FsDotdot.cfg` (`MCFs`, `NoPanic`). A process in `/a/b` removes `/a/b`, then `/a`, and
   changes to `..`. The entry `..` is not a reference, the inode of `/a` is free by then,
   and `ilock` panics with "no type" (`fs.c:315`). One process is enough.

### Bounds

- Two pages per section: the least with a section partly used. Three sections let
  `kalloc` choose between a partly used, an empty and a huge one.
- Mmap: parent, child and grandchild, which is what copy-on-write chains take, and a
  fault that connects two relatives. Enough sections that memory never runs out. One
  block, in which regions of all kinds collide; a region is one page. Counters wrap
  at 8, above the number of processes, as 256 is above 64. The scenes leave out items 1,
  3, 4 and 7: `NoPanic`, `RefsExact` and `MemoryAsPromised` do not speak of them.
- Process: slot 1 is init. Two more give an orphan whose parent exits.
- Traps: two harts and one process show every move of a process between harts; one
  hart and two processes show a wakeup of one by the other's timer interrupt.
  `ticks` modulo 3 wraps during a sleep.
- Pipe: messages are longer than the ring, so writes block half done; the counters
  wrap after two fillings.
- Fs: two direct and two indirect entries, so that files and directories reach the
  indirect block; 1 to 5 blocks for the full disks, so that each allocation of a
  call fails in some scene; two files and two descriptors, so that both tables fill
  up. `NINODE` is large enough for `iget` never to panic. The scenes leave out items 6
  and 8.
- Log: three processes and two blocks give group commit and absorption of a second
  write of a block. With `MAXOPBLOCKS` 2 the log has 5 blocks besides its header and
  `log_write` panics when it finds 5 in it. In `Filling` an operation of one process
  stays under way, so that nothing commits, while another runs operations of one
  block each; `begin_op` stops them in time, with at most 4 blocks logged. Were it to
  leave out of its sum the operation that begins, the panic would be reached. In `Contents` operations log all they may, but of two
  blocks only, which always fit; more of that is item 5.
- Disk: fewer buffers than blocks, so that buffers are recycled; room for two
  requests at once, for one and a descriptor to spare, for exactly one. `NBUF` is at
  least the processes plus the pinned blocks (`DiskAssumption`), so `bget` finds a
  buffer. The kernel's `NBUF` is 30 (`param.h:11`), which allows for a log that is
  nearly full only while few processes hold buffers of other blocks.
- Console: lines longer than the input ring can be typed. Two writers with messages of
  two characters each write to an output ring of two, so that it holds characters of
  both and its order shows; two slots in the device queue are what `uartstart` and the
  echo need (the real one has 16).

### Fairness

- `Mmap`: a hart that is inside `fork` or the connect loop keeps going (interrupts
  are off). This is weak fairness with the enabling condition written out.
- `Log`: the disk answers, an operation ends, a process woken up runs.
- `Process`: weak fairness of the switch code; strong fairness of being scheduled,
  as `scheduler` goes round the table; strong fairness of a process's kernel steps.
  The last includes that a spinlock which is free again and again is eventually
  obtained. The code does not enforce it, it is a property of the atomic swap of
  the hardware. No fairness of `yield`, `kill`, `fork` and `exit`.
- `Pipe`: a process that can go on inside `pipe.c` does. Programs need not read,
  write or close.
- `Disk`: kernel code runs on, the interrupt is taken, the device reads the ring and
  serves each request at some time. A holder of a buffer need not release it.
- `Console`: the device sends, its interrupt is taken, writers inside `uart.c` run on.
  `WriterWoken` assumes that typing pauses: the echo does not wait its turn.
- `Fs` and `Traps` have no fairness: `NobodyStuck` and `SleepersWoken` state as
  invariants what makes waiting end. Programs of `Fs` end, so `Fs.cfg` does not look
  for deadlock; `NobodyStuck` does.

## 4. Proofs

The proofs hold for every value of the constants that satisfies the assumptions
named; each rests on an inductive invariant `IInv`.

**The allocator** (`KallocProofs`; `KmemAssumption`, `KallocAssumption`: all sizes
positive, `MAXREF < REFMOD`). `TypeCorrect`, `SectionCountsExact`,
`KcallCountersExact`, `AllocatedWhileHeld`, `PanicsExactly`, `FramesDisjoint`,
`KallocFindsPage`, and the refinement `ImplementsFrames`. `IInv` is the conjunction of
the invariants with `BootInv`. None of them is inductive alone. For example `kfree`
keeps `hugepagelist` in range only because an allocated page is counted there, and
frees the right page only because the counter equals the references held. `BootInv`
covers `freerange`, which frees pages nobody ever allocated. The lemmas `PageFreed`,
`PageTaken`, `SectionTaken` and `SectionFreed` say what one change of the lists does
to the sets that are counted; `KfreeLast`, `KallocTakes`, `KallocHugeTakes` and
`KfreeHugeLast` lift them to the operators; then there is one lemma per action.

**The process table** (`ProcessProofs`; any number of slots and harts). `RunsOnce`: a
process is on one hart at most. `ParentsLive`: the parent of a process is alive.
`ZombiesSeen`: nobody sleeps in `wait` while it has a zombie child, or no child. The
argument follows `wait_lock`. `PlaceAndState` ties where a process is in the code to
its `state`; `ScanStays` says that what `wait` found in its scan is still true when it
goes to sleep; `WokenStays` says that the parent `exit` woke is awake until the child
is a zombie; `NoneLeft` says that after `reparent` no child is left behind; `ForkSlot`
keeps the half-made child of `fork` apart; `InitAlive` provides the new parent.

**The pipe** (`PipeProofs`; `PipeAssumption`: finitely many processes, a ring of any
size above 0, counters that wrap at any larger multiple of it). `FreedWhenUnused`: the
page is freed exactly when nobody can get at it. `SleepersWait`: nobody sleeps through
what it waits for. `ImplementsStream`: the pipe is a queue of bytes that loses nothing
until it is freed, but a byte for each copy that fails. `Unused` says that nobody has
bytes left to write when it is freed. `RingLemmas` has
the arithmetic of rings whose counters wrap. `StoreAppends` and its counterpart for a
read say what happens to the queue between the counters. `IInv` says that a call keeps
its end open, that an end is open while it is used, and that only one process closes
it. Every step is then mapped to one of `Stream`.

**The log** (`LogProofs`; `LogAssumption`: any processes, blocks and contents, any
`MAXOPBLOCKS`). `LogImplementsTransactions`: operations reach the disk all or nothing,
also if the system crashes again during recovery. `LogNeverPanics`: if the operations of
every scene log fewer than `MAXOPBLOCKS` blocks, no panic of `log.c` is reached. `IInv` says, for each phase of `commit`
and of recovery (`Phase`), which log blocks are copies of buffers and which home
blocks are copies of log blocks (`Copied`), that a block of the log is cached and
pinned until it is installed (`CacheOK`), and that `outstanding` counts the operations
(`Counted`). After a panic it only says that the header on disk is a log, which is
what recovery needs. `Room` is the reservation of `begin_op`: the log has room for all
that the operations under way may still write.

**Buffer cache and disk** (`DiskSteps`, `DiskProofs`; `DiskAssumption`: any processes,
blocks and contents; any number of descriptors from 3 up that the ring can serve; a
ring of any length, indices that wrap at any larger multiple of it; buffers for the
processes and the pinned blocks). `DiskReadsLatest`: a buffer that `bread` returns has
the contents last given to its block. `DiskRequestsExact`: a descriptor is free or
in the chain of one request, and the disk owns a buffer exactly while its request is in
one place, so no completion is lost or handled twice. `DiskNoLostWakeup`: nobody sleeps on a
free buffer, a served request or free descriptors. `IInv` says where each request is:
a waiting process has a chain of three descriptors, disjoint from the others
(`Chains`), with its head in exactly one of three places (`Queues`): not seen by the
device, being worked on, not seen by the driver. On it rests `Coherent`: a valid
buffer has the latest contents, and so has the disk, unless the block is pinned or a
write of it is under way. `DiskSteps` shows that each step keeps `IInv`, from a
hypothesis `Numbers` on the sizes of sets; `DiskProofs` derives `Numbers` from `IInv`
by counting: disjoint chains, so never more requests than ring entries; fewer buffers
in use than there are when `bget` looks for one.

**The console** (`ConsoleProofs`; `ConsoleAssumption`: any readers, writers, messages
and keys; rings of any size; indices that wrap at any larger multiple; two slots in
the device). `ConsoleImplementsLines`: the input is the line discipline of `Lines`.
`ConsoleImplementsStream`: what the writers write goes to the device once, in the order
in which it was put into the ring, and none of it is lost.
`ConsoleNoLostWakeup`: no reader sleeps while there is a line, no writer while there
is room, and a full input ring has been handed to the readers. `ConsoleNoOverrun`: the
device has room for each character. `IInv` says that `r`, `w` and `e` come in this
order around the ring (`InRing`), that whoever is in `uartstart` holds `uart_tx_lock`
and the ring is not empty when it goes to write the register (`Sending`), and that the
characters in the device and those about to be written to it are two at most
(`DeviceRoom`): neither the echo, which does not take the lock, nor `uartstart` alone
shows that the register is free.

Only model-checked:

- All liveness properties. Fairness is out of the prover's reach.
- `Traps`: its programs are sequences of instructions that are put together from
  pieces, and the invariants speak of all of them, instruction by instruction. A
  proof would repeat the program, one lemma for each instruction.
- `Mmap`: unmapping a region and freeing a table are folds over sets of pages
  (`FoldSet`), and what a fold computes for every set needs induction over data,
  which is out of the prover's reach too. The allocator below it is proved.
- `Fs`: `RefsExact` counts references with a sum over the processes, a fold again, and
  the other invariants rest on it: `iput` frees an inode when its count says so. The
  log and the buffer cache below are proved.

## 5. Not modelled

- Out of memory in `pagefault` and `fork` (`proc.c:1412`): the result of `kalloc` is
  used unchecked, and the model has no state for physical address 0.
- A fifth `mmap` (`sysproc.c:220`), which returns an address without recording the
  region. `exec` failing and `copyout` are operations of `Mmap`, but only
  `mmap_returns` uses them, because neither keeps `MemoryAsPromised` (`exec.c:137`
  clears `mmap_list`; `copyout`, `vm.c:476`, writes to copy-on-write pages).
- More than 255 references to a frame (`kalloc.c:54`): the models stay below the wrap.
- In `Process`: pids, exit statuses, `sbrk`, and killing init. `kill(0)`, which marks an
  unused slot as killed (`proc.c:1051`), is modelled. A zombie in a late slot can be passed over by `wait` for ever
  (`proc.c:862`), and a killed process may stay asleep if the kill falls between its
  test and its sleep; both are behaviours of the models, and no property denies them.
- In `Fs`: a copy from user memory that fails in `writei` (`fs.c:522`), a full inode
  table (`fs.c:267`, a panic the code accepts).
- Feature negotiation and set-up of the disk, UART and PLIC registers; device errors.
- Boot code, general registers, `string.c`, `printf.c`, `ramdisk.c`, `ktest.c`: no
  shared state, or not built.
- User programs and `mkfs`: clients of the kernel. They show which calls are made.
