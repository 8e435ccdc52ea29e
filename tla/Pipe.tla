--------------------------------- MODULE Pipe ---------------------------------
(***************************************************************************)
(* A pipe (kernel/pipe.c) and the two files that refer to it               *)
(* (kernel/file.c), shared by processes that fork, read, write, close, are *)
(* killed and exit.                                                        *)
(*                                                                         *)
(* A step is what a process does between taking pi->lock and giving it up, *)
(* in sleep or at the end.  A kill can fall in the middle of such a step,  *)
(* as it takes p->lock only; it shows where killed(pr) is tested.          *)
(***************************************************************************)
EXTENDS Integers, Sequences, FiniteSets

CONSTANTS Proc,      \* processes
          Message,   \* what programs write: sequences of bytes
          Scene      \* what the programs do, see below

Byte == 0 .. 255

\* A scene: its processes and which of them read and write; the messages and
\* the numbers of bytes they ask for; size is PIPESIZE (512), and wrap where
\* nread and nwrite, which are uints, wrap around (2^32).
SceneOK(sc) ==
  /\ sc.procs \subseteq Proc /\ sc.reader \subseteq sc.procs /\ sc.writer \subseteq sc.procs
  /\ sc.message \subseteq Message
  /\ sc.want \subseteq Nat \ {0}
  /\ sc.size \in Nat \ {0}
  /\ sc.wrap \in Nat /\ sc.wrap % sc.size = 0 /\ sc.wrap > sc.size

ASSUME PipeAssumption ==
  /\ IsFiniteSet(Proc) /\ Message \subseteq Seq(Byte)
  /\ \A sc \in Scene : SceneOK(sc)

VARIABLES scene,   \* the scene that is played, chosen at the start
          data, nread, nwrite, readopen, writeopen,  \* struct pipe
          freed,   \* the pipe's page is free
          ref,     \* f->ref of the two files
          fd,      \* the ends each process has open
          at,      \* where each process is
          todo,    \* the bytes of a write that are still to be copied
          want,    \* n of a read
          killed,  \* p->killed
          got,     \* the bytes a read copies out in this step
          hushed   \* a killed writer has left bytes without a wakeup

pipe == <<data, nread, nwrite, readopen, writeopen, freed>>
files == <<ref, fd>>
vars == <<pipe, files, at, todo, want, killed, got, hushed>>

PIPESIZE == scene.size
WRAP == scene.wrap

Ends == {"r", "w"}
Index == 0 .. PIPESIZE - 1

Init ==
  /\ scene \in Scene
  /\ data = [j \in Index |-> 0]
  /\ nread = 0 /\ nwrite = 0
  /\ readopen = FALSE /\ writeopen = FALSE /\ freed = TRUE
  /\ ref = [e \in Ends |-> 0]
  /\ fd = [p \in Proc |-> {}]
  /\ at = [p \in Proc |-> "user"]
  /\ todo = [p \in Proc |-> <<>>]
  /\ want = [p \in Proc |-> 0]
  /\ killed = [p \in Proc |-> FALSE]
  /\ got = <<>>
  /\ hushed = FALSE

\* Where the byte with number c is kept.
Slot(c) == (c % WRAP) % PIPESIZE

Goto(p, l) == at' = [at EXCEPT ![p] = l]

\* at after wakeup(c) by p, which goes on to l.  A sleeper continues in the loop
\* it sleeps in: "rsleep" is sleep(&pi->nread), "wsleep" sleep(&pi->nwrite).
Wakeup(c, p, l) ==
  [q \in Proc |-> IF q = p THEN l
                  ELSE IF at[q] = c THEN (IF c = "rsleep" THEN "read" ELSE "write")
                  ELSE at[q]]

-----------------------------------------------------------------------------
(* The files.                                                              *)

\* sys_pipe: pipealloc; kalloc clears the page.
pipealloc(p) ==
  /\ freed /\ at[p] = "user"
  /\ data' = [j \in Index |-> 0]
  /\ readopen' = TRUE /\ writeopen' = TRUE
  /\ nread' = 0 /\ nwrite' = 0
  /\ freed' = FALSE
  /\ ref' = [e \in Ends |-> 1]
  /\ fd' = [fd EXCEPT ![p] = Ends]
  /\ got' = <<>> /\ hushed' = FALSE
  /\ UNCHANGED <<at, todo, want, killed>>

\* Mutant: the files are shared without a reference.
filedup_noref(p, q) ==
  /\ at[p] = "user" /\ fd[p] # {} /\ ~killed[p]
  /\ at[q] = "user" /\ fd[q] = {}
  /\ fd' = [fd EXCEPT ![q] = fd[p]]
  /\ got' = <<>>
  /\ UNCHANGED <<pipe, ref, at, todo, want, killed, hushed>>

\* fork: a new process q gets p's files.
filedup(p, q) ==
  /\ at[p] = "user" /\ fd[p] # {} /\ ~killed[p]
  /\ at[q] = "user" /\ fd[q] = {}
  /\ fd' = [fd EXCEPT ![q] = fd[p]]
  /\ ref' = [e \in Ends |-> IF e \in fd[p] THEN ref[e] + 1 ELSE ref[e]]
  /\ got' = <<>>
  /\ UNCHANGED <<pipe, at, todo, want, killed, hushed>>

\* fileclose, by close or exit; the last close goes on to pipeclose.  A killed
\* process exits with its last end closed, and its slot is free for a new one.
fileclose(p, e) ==
  /\ at[p] = "user" /\ e \in fd[p]
  /\ fd' = [fd EXCEPT ![p] = @ \ {e}]
  /\ ref' = [ref EXCEPT ![e] = @ - 1]
  /\ Goto(p, IF ref[e] > 1 THEN "user" ELSE IF e = "w" THEN "closew" ELSE "closer")
  /\ killed' = [killed EXCEPT ![p] = @ /\ fd[p] # {e}]
  /\ got' = <<>>
  /\ UNCHANGED <<pipe, todo, want, hushed>>

\* Mutant: nobody is woken up.
pipeclose_silent(p) ==
  /\ at[p] \in {"closew", "closer"}
  /\ writeopen' = (writeopen /\ at[p] # "closew")
  /\ readopen' = (readopen /\ at[p] # "closer")
  /\ freed' = (~writeopen' /\ ~readopen')
  /\ Goto(p, "user")
  /\ got' = <<>>
  /\ UNCHANGED <<data, nread, nwrite, files, todo, want, killed, hushed>>

pipeclose(p) ==
  /\ \/ /\ at[p] = "closew"
        /\ writeopen' = FALSE /\ UNCHANGED readopen
        /\ at' = Wakeup("rsleep", p, "user") /\ hushed' = FALSE
     \/ /\ at[p] = "closer"
        /\ readopen' = FALSE /\ UNCHANGED writeopen
        /\ at' = Wakeup("wsleep", p, "user") /\ UNCHANGED hushed
  /\ freed' = (~readopen' /\ ~writeopen')
  /\ got' = <<>>
  /\ UNCHANGED <<data, nread, nwrite, files, todo, want, killed>>

-----------------------------------------------------------------------------
(* pipewrite.                                                              *)

sys_write(p) ==
  /\ p \in scene.writer /\ at[p] = "user" /\ "w" \in fd[p] /\ ~killed[p]
  /\ \E m \in scene.message : todo' = [todo EXCEPT ![p] = m]
  /\ Goto(p, "write")
  /\ got' = <<>>
  /\ UNCHANGED <<pipe, files, want, killed, hushed>>

\* Mutant: the test for full comes one byte late.
Room_late == (nread + PIPESIZE + 1 - nwrite) % WRAP

\* Bytes that can be stored until nwrite == nread + PIPESIZE.
Room == (nread + PIPESIZE - nwrite) % WRAP

Least(a, b) == IF a <= b THEN a ELSE b
Rest(s, k) == SubSeq(s, k + 1, Len(s))

\* k rounds of the loop store the first k bytes of todo[p].
Store(p, k) ==
  /\ data' = [j \in Index |->
                LET S == {i \in 1 .. k : Slot(nwrite + i - 1) = j}
                IN IF S = {} THEN data[j]
                   ELSE todo[p][CHOOSE i \in S : \A h \in S : h <= i]]
  /\ nwrite' = (nwrite + k) % WRAP
  /\ UNCHANGED <<nread, readopen, writeopen, freed>>

\* All is copied, or copyin fails after k bytes: wake the readers and return.
pipewrite_done(p, k) ==
  /\ Store(p, k)
  /\ todo' = [todo EXCEPT ![p] = <<>>]
  /\ at' = Wakeup("rsleep", p, "user") /\ hushed' = FALSE
  /\ UNCHANGED killed

\* The pipe is full after k bytes: wake the readers and sleep.  A kill may fall
\* between the test of killed and the sleep.
pipewrite_full(p, k) ==
  /\ Store(p, k)
  /\ todo' = [todo EXCEPT ![p] = Rest(@, k)]
  /\ at' = Wakeup("rsleep", p, "wsleep") /\ hushed' = FALSE
  /\ \E b \in BOOLEAN : killed' = [killed EXCEPT ![p] = b]

\* p is killed, seen after k bytes: return -1, without a wakeup.
pipewrite_killed(p, k) ==
  /\ Store(p, k)
  /\ todo' = [todo EXCEPT ![p] = <<>>]
  /\ Goto(p, "user")
  /\ killed' = [killed EXCEPT ![p] = TRUE]
  /\ hushed' = (hushed \/ k > 0)

\* There is no reader any more: return -1.
pipewrite_closed(p) ==
  /\ todo' = [todo EXCEPT ![p] = <<>>]
  /\ Goto(p, "user")
  /\ UNCHANGED <<pipe, killed, hushed>>

pipewrite(p) ==
  LET n == Len(todo[p])
      most == Least(n, Room)
  IN /\ at[p] = "write"
     /\ IF ~readopen THEN pipewrite_closed(p)
        ELSE IF killed[p] THEN pipewrite_killed(p, 0)
        ELSE \/ Room >= n /\ pipewrite_done(p, n)
             \/ Room < n /\ pipewrite_full(p, Room)
             \/ \E k \in 0 .. most : k < n /\ pipewrite_killed(p, k)
             \/ \E k \in 0 .. most : k < n /\ k < Room /\ pipewrite_done(p, k)
     /\ got' = <<>>
     /\ UNCHANGED <<files, want>>

-----------------------------------------------------------------------------
(* piperead.                                                               *)

sys_read(p) ==
  /\ p \in scene.reader /\ at[p] = "user" /\ "r" \in fd[p] /\ ~killed[p]
  /\ \E n \in scene.want : want' = [want EXCEPT ![p] = n]
  /\ Goto(p, "read")
  /\ got' = <<>>
  /\ UNCHANGED <<pipe, files, todo, killed, hushed>>

\* Bytes that can be taken until nread == nwrite.
Avail == (nwrite - nread) % WRAP

\* The pipe is empty and can still be written: sleep, or return -1 if killed.
\* A kill may fall between the test of killed and the sleep.
piperead_empty(p) ==
  /\ IF killed[p]
       THEN Goto(p, "user") /\ want' = [want EXCEPT ![p] = 0] /\ UNCHANGED killed
       ELSE /\ Goto(p, "rsleep") /\ UNCHANGED want
            /\ \E b \in BOOLEAN : killed' = [killed EXCEPT ![p] = b]
  /\ got' = <<>>
  /\ UNCHANGED <<data, nread>>

\* Mutant: writers are not woken up.
piperead_copy_silent(p, k, lost) ==
  /\ got' = [i \in 1 .. k |-> data[Slot(nread + i - 1)]]
  /\ nread' = (nread + k + lost) % WRAP
  /\ Goto(p, "user")
  /\ want' = [want EXCEPT ![p] = 0]
  /\ UNCHANGED <<data, killed>>

\* k bytes are copied out; if copyout fails, one more has left the pipe.
piperead_copy(p, k, lost) ==
  /\ got' = [i \in 1 .. k |-> data[Slot(nread + i - 1)]]
  /\ nread' = (nread + k + lost) % WRAP
  /\ at' = Wakeup("wsleep", p, "user")
  /\ want' = [want EXCEPT ![p] = 0]
  /\ UNCHANGED <<data, killed>>

piperead(p) ==
  LET most == Least(want[p], Avail)
  IN /\ at[p] = "read"
     /\ IF Avail = 0 /\ writeopen THEN piperead_empty(p)
        ELSE \/ piperead_copy(p, most, 0)
             \/ \E k \in 0 .. most - 1 : piperead_copy(p, k, 1)
     /\ UNCHANGED <<nwrite, readopen, writeopen, freed, files, todo, hushed>>

-----------------------------------------------------------------------------

\* kill, of a process that is in pipewrite or piperead; one that is killed
\* elsewhere closes its ends, which it may do unkilled too.
kill(p) ==
  /\ at[p] \in {"read", "rsleep", "write", "wsleep"}
  /\ killed' = [killed EXCEPT ![p] = TRUE]
  /\ Goto(p, CASE at[p] = "rsleep" -> "read" [] at[p] = "wsleep" -> "write"
               [] OTHER -> at[p])
  /\ got' = <<>>
  /\ UNCHANGED <<pipe, files, todo, want, hushed>>

Next ==
  /\ \/ \E p \in scene.procs :
          \/ pipealloc(p) \/ pipeclose(p) \/ kill(p)
          \/ sys_write(p) \/ pipewrite(p) \/ sys_read(p) \/ piperead(p)
          \/ \E e \in Ends : fileclose(p, e)
     \/ \E p, q \in scene.procs : filedup(p, q)
  /\ UNCHANGED scene

Spec == Init /\ [][Next]_<<scene, vars>>

\* A process that can run in the kernel does.
FairSpec ==
  Spec /\ \A p \in Proc : WF_vars(pipewrite(p)) /\ WF_vars(piperead(p)) /\ WF_vars(pipeclose(p))

-----------------------------------------------------------------------------
(* Properties.                                                             *)

\* The processes that have end e open.
Holders(e) == {p \in Proc : e \in fd[p]}

\* Type invariant; the counters are never more than PIPESIZE apart, and a file's
\* ref is the number of processes that have it open.
TypeOK ==
  /\ scene \in Scene
  /\ nread \in 0 .. WRAP - 1 /\ nwrite \in 0 .. WRAP - 1 /\ Avail <= PIPESIZE
  /\ readopen \in BOOLEAN /\ writeopen \in BOOLEAN /\ freed \in BOOLEAN /\ hushed \in BOOLEAN
  /\ data \in [Index -> Byte]
  /\ fd \in [Proc -> SUBSET Ends] /\ ref \in [Ends -> Nat]
  /\ \A e \in Ends : ref[e] = Cardinality(Holders(e))
  /\ at \in [Proc -> {"user", "read", "rsleep", "write", "wsleep", "closer", "closew"}]
  /\ todo \in [Proc -> Seq(Byte)]
  /\ want \in [Proc -> scene.want \cup {0}]
  /\ killed \in [Proc -> BOOLEAN]

\* The page of the pipe is free exactly if nobody can get at the pipe: an end
\* that some process has open, or is about to report as closed, is open.
FreedUnused ==
  /\ freed <=> \A p \in Proc : fd[p] = {} /\ at[p] = "user"
  /\ \A p \in Proc : /\ "r" \in fd[p] \/ at[p] = "closer" => readopen /\ ~freed
                     /\ "w" \in fd[p] \/ at[p] = "closew" => writeopen /\ ~freed

\* Nobody sleeps through what it waits for: a writer sleeps only while the pipe
\* is full and can be read, a reader only while it is empty and can be written.
\* The exception is in the code: a writer killed in mid-copy leaves the bytes it
\* has stored without waking the readers.
NoLostWakeup ==
  \A p \in Proc :
    /\ at[p] = "wsleep" => Room = 0 /\ readopen
    /\ at[p] = "rsleep" => (Avail = 0 \/ hushed) /\ writeopen

\* The bytes in the ring, in the order they are read.
Queue == IF freed THEN <<>>
         ELSE [i \in 1 .. Avail |-> data[Slot(nread + i - 1)]]

S == INSTANCE Stream WITH Writer <- Proc, Lost <- {0, 1}, capacity <- PIPESIZE,
       closed <- freed, queue <- Queue

\* The pipe is a queue, whatever the interleaving of readers and writers and
\* wherever the counters wrap: each byte is delivered once and in order, except
\* for one byte that goes with each copyout that fails (pipe.c:124), and for what
\* is in the pipe when both ends are closed and it is freed (pipe.c:69).
Fifo == S!SSpec

\* When the other end is closed for good, reads and writes return.
ClosedReturns ==
  \A p \in Proc :
    \/ at[p] \in {"write", "wsleep"} /\ ~readopen
    \/ at[p] \in {"read", "rsleep"} /\ ~writeopen
    ~> at[p] = "user"
=============================================================================
