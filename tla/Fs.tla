---------------------------------- MODULE Fs ----------------------------------
(***************************************************************************)
(* Inodes, path names and open files: the inode table of kernel/fs.c, the  *)
(* system calls of kernel/sysfile.c and the file table of kernel/file.c,   *)
(* used by several processes at once.                                      *)
(*                                                                         *)
(* A process has a list of operations still to do in its system call.  An  *)
(* operation is one atomic step: it ends where the code can wait for the   *)
(* lock of an inode, or leaves itable.lock to take it again.  A lock that  *)
(* a step takes and gives back is only a guard.  Every system call that    *)
(* changes the disk runs between begin_op and end_op, and the log (module  *)
(* Log) commits when no call is between them.                              *)
(***************************************************************************)
EXTENDS Blocks, SequencesExt

CONSTANTS Proc,            \* processes, numbers
          NINODE,          \* slots of itable
          NFILE, NOFILE,   \* slots of ftable, and of p->ofile
          CHUNK,           \* words that filewrite writes in one transaction
          Scene            \* what may happen: records of the disk at the start
                           \* and the system calls each process makes in order

ASSUME FsAssumption ==
  /\ Proc \subseteq Nat \ {0} /\ NINODE \in Nat /\ NFILE \in Nat /\ NOFILE \in Nat
  /\ CHUNK \in Nat \ {0}
  /\ \A s \in Scene : DOMAIN s.prog \subseteq Proc

Slot == 1 .. NINODE
File == 1 .. NFILE
Fd == 1 .. NOFILE

VARIABLES scene,    \* the scene that is played, chosen at the start
          disk,     \* see Blocks
          itable,   \* slot -> inum, ref, valid, and di, the copy of the inode
          lock,     \* slot -> the process that holds ip->lock, or 0
          ftable,   \* file -> ref, ip, off, mode ("r", "w", "rw"), and whether it
                    \* is an FD_INODE, not an FD_DEVICE
          proc,     \* process -> todo; its calls still to make; its pointers
                    \* ip and dp; cwd; ofile
          text,     \* inum -> what was written to the file
          panic

vars == <<disk, itable, lock, ftable, proc, text, panic>>

-----------------------------------------------------------------------------
(* The system calls as lists of operations.  Operations on inodes name the *)
(* pointer they work on, ip or dp.                                         *)

namei(r, path) == <<<<"namex", r, path, FALSE>>>>
nameiparent(r, path) == <<<<"namex", r, path, TRUE>>>>
create(path, type) == nameiparent("dp", path) \o <<<<"create", Last(path.elems), type>>>>

sys_open(c) ==
  (IF c.create THEN create(c.path, T_FILE) ELSE namei("ip", c.path) \o <<<<"openlock", c>>>>)
  \o <<<<"open", c>>>>
sys_mknod(c) == create(c.path, c.type) \o <<<<"iunlockput", "ip">>>>
sys_link(c) ==
  namei("ip", c.path) \o <<<<"link", 0>>>> \o nameiparent("dp", c.new)
  \o <<<<"link2", Last(c.new.elems)>>>>
sys_unlink(c) == nameiparent("dp", c.path) \o <<<<"unlink", Last(c.path.elems)>>>>
sys_chdir(c) == namei("ip", c.path) \o <<<<"chdir", 0>>>>
exec(c) == namei("ip", c.path) \o <<<<"exec", 0>>>>
sys_close(c) == <<<<"fileclose", c.fd>>>>
sys_dup(c) == <<<<"dup", c.fd>>>>
sys_fstat(c) == <<<<"fstat", c.fd>>>>
sys_read(c) == <<<<c.op, c.fd, c.words>>>>   \* and sys_write
exit == [fd \in Fd |-> <<"fileclose", fd>>] \o <<<<"exit", 0>>>>

Code(c) ==
  CASE c.op = "open" -> sys_open(c)
    [] c.op = "mknod" -> sys_mknod(c)
    [] c.op = "link" -> sys_link(c)
    [] c.op = "unlink" -> sys_unlink(c)
    [] c.op = "chdir" -> sys_chdir(c)
    [] c.op = "exec" -> exec(c)
    [] c.op = "exit" -> exit
    [] c.op = "fork" -> <<<<"fork", c>>>>
    [] c.op = "close" -> sys_close(c)
    [] c.op = "dup" -> sys_dup(c)
    [] c.op = "fstat" -> sys_fstat(c)
    [] c.op \in {"read", "write"} -> sys_read(c)

-----------------------------------------------------------------------------

FreeSlot == [inum |-> 0, ref |-> 0, valid |-> FALSE, di |-> NoInode]
FreeFile == [ref |-> 0, ip |-> 0, off |-> 0, mode |-> "r", inode |-> FALSE]

\* The processes of the scene have the root as cwd; others do not exist yet.
Init ==
  /\ scene \in Scene
  /\ disk = scene.disk
  /\ itable = [s \in Slot |->
       IF s = 1 THEN [FreeSlot EXCEPT !.inum = ROOTINO, !.ref = Cardinality(DOMAIN scene.prog)]
       ELSE FreeSlot]
  /\ lock = [s \in Slot |-> 0]
  /\ ftable = [f \in File |-> FreeFile]
  /\ proc = [p \in Proc |->
       [todo |-> <<>>, ip |-> 0, dp |-> 0, ofile |-> [fd \in Fd |-> 0],
        prog |-> IF p \in DOMAIN scene.prog THEN scene.prog[p] ELSE <<>>,
        cwd |-> IF p \in DOMAIN scene.prog THEN 1 ELSE 0]]
  /\ text = [i \in Inum |->
       IF disk.dinode[i].type = T_FILE THEN Dirents(disk, disk.dinode[i]) ELSE <<>>]
  /\ panic = ""

At(p, op) == proc[p].todo # <<>> /\ Head(proc[p].todo)[1] = op
Arg(p, k) == Head(proc[p].todo)[k]

\* The process is now me, and goes on with code before the rest of its call;
\* or with nothing but code.
Then(p, me, code) == proc' = [proc EXCEPT ![p] = [me EXCEPT !.todo = code \o Tail(@)]]
Return(p, me, code) == proc' = [proc EXCEPT ![p] = [me EXCEPT !.todo = code]]

Check(bad, message) == panic' = IF bad /\ panic = "" THEN message ELSE panic

\* The slots of inode i.
Cached(t, i) == {s \in Slot : t[s].ref > 0 /\ t[s].inum = i}

\* iget panics: the inode is not in the table, and the table is full.
BadGet(i) == i # 0 /\ Cached(itable, i) = {} /\ \A s \in Slot : itable[s].ref > 0

\* The table after iget, and the slot.
iget(t, i) ==
  LET found == Cached(t, i)
      empty == {s \in Slot : t[s].ref = 0}
  IN  IF found # {} THEN [t |-> [t EXCEPT ![Min(found)].ref = @ + 1], s |-> Min(found)]
      ELSE [t |-> [t EXCEPT ![Min(empty)] = [FreeSlot EXCEPT !.inum = i, !.ref = 1]],
            s |-> Min(empty)]

\* Mutant: the pointer that is copied is not counted.
idup_not(t, s) == t

idup(t, s) == [t EXCEPT ![s].ref = @ + 1]

\* The slot after ilock has read it if necessary.
Read(s) ==
  IF itable[s].valid THEN itable[s]
  ELSE [itable[s] EXCEPT !.valid = TRUE, !.di = disk.dinode[itable[s].inum]]

\* ilock can go on: nobody holds the lock.
Unlocked(s) == lock[s] = 0

\* The panics of ilock.
BadLock(s) == itable[s].ref < 1 \/ (~itable[s].valid /\ Read(s).di.type = 0)
CheckLock(s) == Check(BadLock(s), "ilock")

\* The panics of dirlookup in directory s, which finds i, and of the iget in it.
BadLookup(s, i) == Read(s).di.type # T_DIR \/ BadGet(i)

-----------------------------------------------------------------------------
(* System calls start.                                                     *)

Call(p) ==
  /\ proc[p].todo = <<>> /\ proc[p].prog # <<>> /\ proc[p].cwd # 0
  /\ proc' = [proc EXCEPT ![p].todo = Code(Head(proc[p].prog)), ![p].prog = Tail(@)]
  /\ UNCHANGED <<disk, itable, lock, ftable, text, panic>>

-----------------------------------------------------------------------------
(* iput.                                                                   *)

\* Mutant: ref is compared as if it were decremented already.
LastRef_zero(s) == itable[s].ref = 0 /\ itable[s].valid /\ itable[s].di.nlink = 0

LastRef(s) == itable[s].ref = 1 /\ itable[s].valid /\ itable[s].di.nlink = 0

\* ip->ref--; what a free slot holds is read by nobody.
Dropped(s) ==
  [itable EXCEPT ![s] = IF @.ref = 1 THEN FreeSlot ELSE [@ EXCEPT !.ref = @ - 1]]

\* The first critical section.  acquiresleep must not wait: it would give up
\* the hart with itable.lock held.
iput(p) ==
  /\ At(p, "iput")
  /\ LET s == Arg(p, 2) IN
     IF LastRef(s)
     THEN /\ Check(lock[s] # 0, "sched locks")
          /\ lock' = [lock EXCEPT ![s] = p]
          /\ Then(p, proc[p], <<<<"ifree", s>>>>)
          /\ UNCHANGED itable
     ELSE /\ itable' = Dropped(s)
          /\ Then(p, proc[p], <<>>)
          /\ UNCHANGED <<lock, panic>>
  /\ UNCHANGED <<disk, ftable, text>>

\* itrunc, and the inode is free on the disk.
ifree(p) ==
  /\ At(p, "ifree")
  /\ LET s == Arg(p, 2)
         i == itable[s].inum
     IN  /\ Check(~Freeable(disk, itable[s].di), "freeing free block")
         /\ disk' = iupdate(itrunc(disk, i, itable[s].di).d, i, NoInode)
         /\ itable' = [itable EXCEPT ![s].di = NoInode]
         /\ text' = [text EXCEPT ![i] = <<>>]
         /\ Then(p, proc[p], <<<<"invalid", s>>>>)
  /\ UNCHANGED <<lock, ftable>>

\* The slot with ip->valid = 0
Invalid(s) == [itable[s] EXCEPT !.valid = FALSE, !.di = NoInode]

invalidate(p) ==
  /\ At(p, "invalid")
  /\ LET s == Arg(p, 2) IN
     /\ itable' = [itable EXCEPT ![s] = Invalid(s)]
     /\ lock' = [lock EXCEPT ![s] = 0]
     /\ Then(p, proc[p], <<<<"drop", s>>>>)
  /\ UNCHANGED <<disk, ftable, text, panic>>

drop(p) ==
  /\ At(p, "drop")
  /\ itable' = Dropped(Arg(p, 2)) /\ Then(p, proc[p], <<>>)
  /\ UNCHANGED <<disk, lock, ftable, text, panic>>

\* iunlockput of ip or dp; with a null pointer the caller has returned before.
iunlockput(p) ==
  /\ At(p, "iunlockput")
  /\ LET r == Arg(p, 2)
         s == proc[p][r]
     IN  IF s = 0 THEN Then(p, proc[p], <<>>) /\ UNCHANGED lock
         ELSE /\ lock' = [lock EXCEPT ![s] = 0]
              /\ Then(p, [proc[p] EXCEPT ![r] = 0], <<<<"iput", s>>>>)
  /\ UNCHANGED <<disk, itable, ftable, text, panic>>

-----------------------------------------------------------------------------
(* Path names.                                                             *)

\* namex up to the loop
namex(p) ==
  /\ At(p, "namex")
  /\ LET path == Arg(p, 3)
         s == IF path.abs THEN iget(itable, ROOTINO).s ELSE proc[p].cwd
     IN  /\ Check(path.abs /\ BadGet(ROOTINO), "iget: no inodes")
         /\ itable' = IF path.abs THEN iget(itable, ROOTINO).t ELSE idup(itable, s)
         /\ Then(p, [proc[p] EXCEPT ![Arg(p, 2)] = s],
                 <<<<"walk", Arg(p, 2), path.elems, Arg(p, 4)>>>>)
  /\ UNCHANGED <<disk, lock, ftable, text>>

\* Mutant: the directory is given back before the next inode is taken, which
\* may be gone by then.
Walk_late(p) ==
  LET r == Arg(p, 2)
      s == proc[p][r]
      i == dirlookup(disk, Read(s).di, Head(Arg(p, 3)))
  IN  [t |-> [itable EXCEPT ![s] = Read(s)], next |-> 0,
       code |-> <<<<"iput", s>>, <<"iget", r, i>>, <<"walk", r, Tail(Arg(p, 3)), Arg(p, 4)>>>>]

\* An element of the path is found in directory s: the table after iget, the
\* next inode, and what is left to do.
Walk(p) ==
  LET r == Arg(p, 2)
      s == proc[p][r]
      g == iget([itable EXCEPT ![s] = Read(s)], dirlookup(disk, Read(s).di, Head(Arg(p, 3))))
  IN  [t |-> g.t, next |-> g.s,
       code |-> <<<<"iput", s>>, <<"walk", r, Tail(Arg(p, 3)), Arg(p, 4)>>>>]

\* The loop of namex; it ends when no element is left, or one level early.
walk(p) ==
  /\ At(p, "walk")
  /\ LET r == Arg(p, 2)
         s == proc[p][r]
         elems == Arg(p, 3)
         parent == Arg(p, 4)
         dir == Read(s).di.type = T_DIR
         i == dirlookup(disk, Read(s).di, Head(elems))
         fail == Then(p, [proc[p] EXCEPT ![r] = 0], <<<<"iput", s>>>>)
     IN  IF elems = <<>>
         THEN /\ IF parent THEN fail ELSE Then(p, proc[p], <<>>)
              /\ UNCHANGED <<itable, panic>>
         ELSE /\ Unlocked(s)
              /\ Check(BadLock(s) \/ (dir /\ BadGet(i)), "ilock, iget")
              /\ IF dir /\ parent /\ Len(elems) = 1
                 THEN Then(p, proc[p], <<>>) /\ itable' = [itable EXCEPT ![s] = Read(s)]
                 ELSE IF ~dir \/ i = 0
                 THEN fail /\ itable' = [itable EXCEPT ![s] = Read(s)]
                 ELSE /\ itable' = Walk(p).t
                      /\ Then(p, [proc[p] EXCEPT ![r] = Walk(p).next], Walk(p).code)
  /\ UNCHANGED <<disk, lock, ftable, text>>

-----------------------------------------------------------------------------
(* create.                                                                 *)

\* The directory is locked, and the name looked up; if it is there, create
\* unlocks the directory and takes the inode of the name.
create1(p) ==
  /\ At(p, "create")
  /\ LET dp == proc[p].dp
         name == Arg(p, 2)
         type == Arg(p, 3)
         i == dirlookup(disk, Read(dp).di, name)
         g == iget([itable EXCEPT ![dp] = Read(dp)], i)
     IN  IF dp = 0
         THEN Then(p, proc[p], <<>>) /\ UNCHANGED <<itable, lock, panic>>
         ELSE /\ Unlocked(dp)
              /\ Check(BadLock(dp) \/ BadLookup(dp, i), "ilock, dirlookup")
              /\ IF i # 0
                 THEN /\ itable' = g.t
                      /\ Then(p, [proc[p] EXCEPT !.ip = g.s, !.dp = 0],
                              <<<<"iput", dp>>, <<"existing", type>>>>)
                      /\ UNCHANGED lock
                 ELSE /\ itable' = [itable EXCEPT ![dp] = Read(dp)]
                      /\ lock' = [lock EXCEPT ![dp] = p]
                      /\ Then(p, proc[p], <<<<"ialloc", name, type>>>>)
  /\ UNCHANGED <<disk, ftable, text>>

\* The inode that has the name will do, and stays locked; or create fails.
existing(p) ==
  /\ At(p, "existing")
  /\ LET ip == proc[p].ip IN
     /\ Unlocked(ip) /\ CheckLock(ip)
     /\ itable' = [itable EXCEPT ![ip] = Read(ip)]
     /\ IF Arg(p, 2) = T_FILE /\ Read(ip).di.type # T_DIR
        THEN lock' = [lock EXCEPT ![ip] = p] /\ Then(p, proc[p], <<>>)
        ELSE UNCHANGED lock /\ Then(p, [proc[p] EXCEPT !.ip = 0], <<<<"iput", ip>>>>)
  /\ UNCHANGED <<disk, ftable, text>>

\* ialloc, up to iget
ialloc(p) ==
  /\ At(p, "ialloc")
  /\ LET free == {i \in Inum : disk.dinode[i].type = 0}
         i == Min(free)
     IN  IF free = {}
         THEN Then(p, proc[p], <<<<"iunlockput", "dp">>>>) /\ UNCHANGED disk
         ELSE /\ disk' = iupdate(disk, i, [NoInode EXCEPT !.type = Arg(p, 3)])
              /\ Then(p, proc[p], <<<<"iget", "ip", i>>, <<"fill", Arg(p, 2)>>>>)
  /\ UNCHANGED <<itable, lock, ftable, text, panic>>

getinode(p) ==
  /\ At(p, "iget")
  /\ LET g == iget(itable, Arg(p, 3)) IN
     /\ Check(BadGet(Arg(p, 3)), "iget: no inodes")
     /\ itable' = g.t
     /\ Then(p, [proc[p] EXCEPT ![Arg(p, 2)] = g.s], <<>>)
  /\ UNCHANGED <<disk, lock, ftable, text>>

\* "." and then ".." of a new directory i in parent: the disk, its inode, success
DotDot(i, parent, dot) ==
  IF dot.tot # 1 THEN dot ELSE dirlink(dot.d, i, dot.di, 2, parent)
Dots(d, i, di, parent) ==
  IF di.type = T_DIR THEN DotDot(i, parent, dirlink(d, i, di, 1, i))
  ELSE [d |-> d, di |-> di, tot |-> 1]

\* Mutant: the parent's link for ".." is not counted.
Linked_not(di, type) == di

\* dp after the entry for an inode of this type is in it
Linked(di, type) == [di EXCEPT !.nlink = IF type = T_DIR THEN @ + 1 ELSE @]

\* ip when create fails
Undone(di) == [di EXCEPT !.nlink = 0]

\* The rest of create: the new inode stays locked; or everything is undone.
fill(p) ==
  /\ At(p, "fill")
  /\ LET ip == proc[p].ip
         dp == proc[p].dp
         i == itable[ip].inum
         parent == itable[dp].inum
         di == [Read(ip).di EXCEPT !.nlink = 1]
         dots == Dots(iupdate(disk, i, di), i, di, parent)
         entry == dirlink(dots.d, parent, itable[dp].di, Arg(p, 2), i)
         new == Linked(entry.di, di.type)
     IN  /\ Unlocked(ip) /\ CheckLock(ip)
         /\ IF dots.tot = 1 /\ entry.tot = 1
            THEN /\ disk' = iupdate(entry.d, parent, new)
                 /\ itable' = [itable EXCEPT ![ip] = [Read(ip) EXCEPT !.di = dots.di],
                                             ![dp].di = new]
                 /\ lock' = [lock EXCEPT ![ip] = p, ![dp] = 0]
                 /\ Then(p, [proc[p] EXCEPT !.dp = 0], <<<<"iput", dp>>>>)
            ELSE /\ LET full == IF dots.tot = 1 THEN entry ELSE [dots EXCEPT !.di = itable[dp].di] IN
                    /\ disk' = iupdate(full.d, i, Undone(dots.di))
                    /\ itable' = [itable EXCEPT ![ip] = [Read(ip) EXCEPT !.di = Undone(dots.di)],
                                                ![dp].di = full.di]
                 /\ Then(p, [proc[p] EXCEPT !.ip = 0],
                         <<<<"iput", ip>>, <<"iunlockput", "dp">>>>)
                 /\ UNCHANGED lock
  /\ UNCHANGED <<ftable, text>>

-----------------------------------------------------------------------------
(* open, link, unlink, chdir, exec.                                        *)

\* sys_open without O_CREATE: a directory is opened for reading only.
openlock(p) ==
  /\ At(p, "openlock")
  /\ LET ip == proc[p].ip IN
     IF ip = 0 THEN Then(p, proc[p], <<>>) /\ UNCHANGED <<itable, lock, panic>>
     ELSE /\ Unlocked(ip) /\ CheckLock(ip)
          /\ itable' = [itable EXCEPT ![ip] = Read(ip)]
          /\ lock' = [lock EXCEPT ![ip] = p]
          /\ IF Read(ip).di.type = T_DIR /\ Arg(p, 2).mode # "r"
             THEN Then(p, proc[p], <<<<"iunlockput", "ip">>>>)
             ELSE Then(p, proc[p], <<>>)
  /\ UNCHANGED <<disk, ftable, text>>

\* The free files, and the free descriptors of p; the first one is taken.
filealloc == {f \in File : ftable[f].ref = 0}
fdalloc(p) == {fd \in Fd : proc[p].ofile[fd] = 0}

\* The file of descriptor fd, or 0.
argfd(p, fd) == proc[p].ofile[fd]

\* The rest of sys_open, with the inode locked: the file takes over ip.
open(p) ==
  /\ At(p, "open")
  /\ LET ip == proc[p].ip
         i == itable[ip].inum
         trunc == Arg(p, 2).trunc /\ itable[ip].di.type = T_FILE
         t == itrunc(disk, i, itable[ip].di)
     IN  IF ip = 0 \/ itable[ip].di.type = BadDevice \/ filealloc = {} \/ fdalloc(p) = {}
         THEN /\ Then(p, proc[p], <<<<"iunlockput", "ip">>>>)
              /\ UNCHANGED <<disk, itable, lock, ftable, text, panic>>
         ELSE /\ ftable' = [ftable EXCEPT ![Min(filealloc)] =
                   [ref |-> 1, ip |-> ip, off |-> 0, mode |-> Arg(p, 2).mode,
                    inode |-> itable[ip].di.type # T_DEVICE]]
              /\ Then(p, [proc[p] EXCEPT !.ip = 0, !.ofile[Min(fdalloc(p))] = Min(filealloc)], <<>>)
              /\ lock' = [lock EXCEPT ![ip] = 0]
              /\ IF trunc
                 THEN /\ Check(~Freeable(disk, itable[ip].di), "freeing free block")
                      /\ disk' = t.d /\ itable' = [itable EXCEPT ![ip].di = t.di]
                      /\ text' = [text EXCEPT ![i] = <<>>]
                 ELSE UNCHANGED <<disk, itable, text, panic>>

\* ip->nlink changes by n, on the disk too.
Relink(ip, n) ==
  LET di == [Read(ip).di EXCEPT !.nlink = @ + n]
  IN  /\ itable' = [itable EXCEPT ![ip] = [Read(ip) EXCEPT !.di = di]]
      /\ disk' = iupdate(disk, itable[ip].inum, di)

\* sys_link: the inode gets its link before the entry is made.
link(p) ==
  /\ At(p, "link")
  /\ LET ip == proc[p].ip IN
     IF ip = 0 THEN Return(p, proc[p], <<>>) /\ UNCHANGED <<disk, itable, panic>>
     ELSE /\ Unlocked(ip) /\ CheckLock(ip)
          /\ IF Read(ip).di.type = T_DIR
             THEN /\ Return(p, [proc[p] EXCEPT !.ip = 0], <<<<"iput", ip>>>>)
                  /\ itable' = [itable EXCEPT ![ip] = Read(ip)] /\ UNCHANGED disk
             ELSE Relink(ip, 1) /\ Then(p, proc[p], <<>>)
  /\ UNCHANGED <<lock, ftable, text>>

\* The entry is made in dp; if the name is there already dirlink gives back the
\* inode of the name, with dp locked.
link2(p) ==
  /\ At(p, "link2")
  /\ LET dp == proc[p].dp
         ip == proc[p].ip
         d == itable[dp].inum
         name == Arg(p, 2)
         i == dirlookup(disk, Read(dp).di, name)
         g == iget([itable EXCEPT ![dp] = Read(dp)], i)
         e == dirlink(disk, d, Read(dp).di, name, itable[ip].inum)
     IN  IF dp = 0
         THEN Then(p, proc[p], <<<<"bad", 0>>>>) /\ UNCHANGED <<disk, itable, lock, panic>>
         ELSE /\ Unlocked(dp)
              /\ Check(BadLock(dp) \/ BadLookup(dp, i), "ilock, dirlookup")
              /\ IF i # 0
                 THEN /\ itable' = g.t /\ UNCHANGED disk
                      /\ lock' = [lock EXCEPT ![dp] = p]
                      /\ Then(p, proc[p], <<<<"iput", g.s>>, <<"iunlockput", "dp">>, <<"bad", 0>>>>)
                 ELSE /\ disk' = e.d
                      /\ itable' = [itable EXCEPT ![dp] = [Read(dp) EXCEPT !.di = e.di]]
                      /\ UNCHANGED lock
                      /\ IF e.tot = 1
                         THEN Then(p, [proc[p] EXCEPT !.ip = 0, !.dp = 0],
                                   <<<<"iput", dp>>, <<"iput", ip>>>>)
                         ELSE Then(p, [proc[p] EXCEPT !.dp = 0],
                                   <<<<"iput", dp>>, <<"bad", 0>>>>)
  /\ UNCHANGED <<ftable, text>>

\* sys_link failed: the link is taken back.
bad(p) ==
  /\ At(p, "bad")
  /\ LET ip == proc[p].ip IN
     /\ Unlocked(ip) /\ CheckLock(ip)
     /\ Relink(ip, -1)
     /\ Then(p, [proc[p] EXCEPT !.ip = 0], <<<<"iput", ip>>>>)
  /\ UNCHANGED <<lock, ftable, text>>

\* Mutant: the directory stays locked.
NotFound_locked(p) == <<<<"iput", proc[p].dp>>>>

\* sys_unlink without an entry to remove
NotFound(p) == <<<<"iunlockput", "dp">>>>

\* sys_unlink with the directory locked: the name is found.
unlink(p) ==
  /\ At(p, "unlink")
  /\ LET dp == proc[p].dp
         name == Arg(p, 2)
         i == IF name \in {1, 2} THEN 0 ELSE dirlookup(disk, Read(dp).di, name)
         g == iget([itable EXCEPT ![dp] = Read(dp)], i)
     IN  IF dp = 0 THEN Then(p, proc[p], <<>>) /\ UNCHANGED <<itable, lock, panic>>
         ELSE /\ Unlocked(dp)
              /\ Check(BadLock(dp) \/ (name \notin {1, 2} /\ BadLookup(dp, i)), "ilock, dirlookup")
              /\ lock' = [lock EXCEPT ![dp] = p]
              /\ IF i = 0
                 THEN /\ itable' = [itable EXCEPT ![dp] = Read(dp)]
                      /\ Then(p, proc[p], NotFound(p))
                 ELSE /\ itable' = g.t
                      /\ Then(p, [proc[p] EXCEPT !.ip = g.s], <<<<"erase", name>>>>)
  /\ UNCHANGED <<disk, ftable, text>>

\* The inode is locked too: the entry goes, unless it is of a directory that is
\* not empty, and the lock of the directory is given back.
erase(p) ==
  /\ At(p, "erase")
  /\ LET dp == proc[p].dp
         ip == proc[p].ip
         di == Read(ip).di
         keep == di.type = T_DIR /\ ~isdirempty(disk, di)
         e == Erase(disk, itable[dp].inum, itable[dp].di, Arg(p, 2))
         new == [e.di EXCEPT !.nlink = IF di.type = T_DIR THEN @ - 1 ELSE @]
     IN  /\ Unlocked(ip)
         /\ Check(BadLock(ip) \/ di.nlink < 1 \/ (~keep /\ e.tot # 1), "unlink")
         /\ IF keep
            THEN /\ itable' = [itable EXCEPT ![ip] = Read(ip)]
                 /\ Then(p, [proc[p] EXCEPT !.ip = 0],
                         <<<<"iput", ip>>, <<"iunlockput", "dp">>>>)
                 /\ UNCHANGED <<disk, lock>>
            ELSE /\ disk' = iupdate(e.d, itable[dp].inum, new)
                 /\ itable' = [itable EXCEPT ![ip] = Read(ip), ![dp].di = new]
                 /\ lock' = [lock EXCEPT ![ip] = p, ![dp] = 0]
                 /\ Then(p, [proc[p] EXCEPT !.dp = 0], <<<<"iput", dp>>, <<"unlinked", 0>>>>)
  /\ UNCHANGED <<ftable, text>>

\* ip->nlink--, and ip is given back.
unlinked(p) ==
  /\ At(p, "unlinked")
  /\ LET ip == proc[p].ip IN
     /\ Relink(ip, -1)
     /\ lock' = [lock EXCEPT ![ip] = 0]
     /\ Then(p, [proc[p] EXCEPT !.ip = 0], <<<<"iput", ip>>>>)
  /\ UNCHANGED <<ftable, text, panic>>

\* sys_chdir; p->cwd, which only p reads, changes already before the old one is
\* given back.
chdir(p) ==
  /\ At(p, "chdir")
  /\ LET ip == proc[p].ip IN
     IF ip = 0 THEN Then(p, proc[p], <<>>) /\ UNCHANGED <<itable, panic>>
     ELSE /\ Unlocked(ip) /\ CheckLock(ip)
          /\ itable' = [itable EXCEPT ![ip] = Read(ip)]
          /\ IF Read(ip).di.type = T_DIR
             THEN Then(p, [proc[p] EXCEPT !.ip = 0, !.cwd = ip], <<<<"iput", proc[p].cwd>>>>)
             ELSE Then(p, [proc[p] EXCEPT !.ip = 0], <<<<"iput", ip>>>>)
  /\ UNCHANGED <<disk, lock, ftable, text>>

\* exec reads the file, which it keeps locked, and gives it back, also if it is
\* no program.
exec1(p) ==
  /\ At(p, "exec")
  /\ LET ip == proc[p].ip IN
     IF ip = 0 THEN Then(p, proc[p], <<>>) /\ UNCHANGED <<itable, panic>>
     ELSE /\ Unlocked(ip) /\ CheckLock(ip)
          /\ itable' = [itable EXCEPT ![ip] = Read(ip)]
          /\ Then(p, [proc[p] EXCEPT !.ip = 0], <<<<"iput", ip>>>>)
  /\ UNCHANGED <<disk, lock, ftable, text>>

-----------------------------------------------------------------------------
(* Open files.                                                             *)

\* sys_close, and the loop of exit
fileclose(p) ==
  /\ At(p, "fileclose")
  /\ LET f == argfd(p, Arg(p, 2))
         me == [proc[p] EXCEPT !.ofile[Arg(p, 2)] = 0]
     IN  IF f = 0 THEN Then(p, proc[p], <<>>) /\ UNCHANGED <<ftable, panic>>
         ELSE /\ Check(ftable[f].ref < 1, "fileclose")
              /\ IF ftable[f].ref > 1
                 THEN /\ ftable' = [ftable EXCEPT ![f].ref = @ - 1]
                      /\ Then(p, me, <<>>)
                 ELSE /\ ftable' = [ftable EXCEPT ![f] = FreeFile]
                      /\ Then(p, me, <<<<"iput", ftable[f].ip>>>>)
  /\ UNCHANGED <<disk, itable, lock, text>>

dup(p) ==
  /\ At(p, "dup")
  /\ LET f == argfd(p, Arg(p, 2))
     IN  IF f = 0 \/ fdalloc(p) = {} THEN Then(p, proc[p], <<>>) /\ UNCHANGED <<ftable, panic>>
         ELSE /\ Check(ftable[f].ref < 1, "filedup")
              /\ ftable' = [ftable EXCEPT ![f].ref = @ + 1]
              /\ Then(p, [proc[p] EXCEPT !.ofile[Min(fdalloc(p))] = f], <<>>)
  /\ UNCHANGED <<disk, itable, lock, text>>

\* The pointers to file f that fork copies.
Shared(f, ofile) == Cardinality({fd \in Fd : ofile[fd] = f})

\* fork: the child, which then runs its own program, shares files and cwd.
fork(p) ==
  /\ At(p, "fork")
  /\ LET c == Arg(p, 2)
         me == proc[p]
     IN  /\ ftable' = [f \in File |-> [ftable[f] EXCEPT !.ref = @ + Shared(f, me.ofile)]]
         /\ itable' = idup(itable, me.cwd)
         /\ proc' = [proc EXCEPT ![p].todo = <<>>,
                                 ![c.child] = [@ EXCEPT !.prog = c.prog, !.cwd = me.cwd,
                                                        !.ofile = me.ofile]]
  /\ UNCHANGED <<disk, lock, text, panic>>

\* exit, after the files are closed
exit_cwd(p) ==
  /\ At(p, "exit")
  /\ Return(p, [proc[p] EXCEPT !.cwd = 0, !.prog = <<>>], <<<<"iput", proc[p].cwd>>>>)
  /\ UNCHANGED <<disk, itable, lock, ftable, text, panic>>

\* What a file is after words were written to it at off.
Written(old, off, words) ==
  SubSeq(old, 1, off) \o words \o SubSeq(old, off + Len(words) + 1, Len(old))

\* f->off after tot words
Advance(off, tot) == IF tot > 0 THEN off + tot ELSE off

\* File f may be read or written, and is not a device, whose own function is
\* called (module Console).
Permits(f, modes) == ftable[f].mode \in modes /\ ftable[f].inode

\* filewrite: a transaction for each chunk, as long as writei writes all of it.
filewrite(p) ==
  /\ At(p, "write")
  /\ LET f == argfd(p, Arg(p, 2))
         ip == ftable[f].ip
         i == itable[ip].inum
         off == ftable[f].off
         words == Arg(p, 3)
         n1 == Min({Len(words), CHUNK})
         w == writei(disk, i, Read(ip).di, off, SubSeq(words, 1, n1))
     IN  IF f = 0 \/ words = <<>> \/ ~Permits(f, {"w", "rw"})
         THEN Then(p, proc[p], <<>>) /\ UNCHANGED <<disk, itable, ftable, text, panic>>
         ELSE /\ Unlocked(ip) /\ CheckLock(ip)
              /\ disk' = w.d
              /\ itable' = [itable EXCEPT ![ip] = [Read(ip) EXCEPT !.di = w.di]]
              /\ ftable' = [ftable EXCEPT ![f].off = Advance(@, w.tot)]
              /\ text' = IF w.tot < 1 THEN text
                         ELSE [text EXCEPT ![i] = Written(@, off, SubSeq(words, 1, w.tot))]
              /\ Then(p, proc[p], IF w.tot # n1 THEN <<>>
                 ELSE <<<<"write", Arg(p, 2), SubSeq(words, n1 + 1, Len(words))>>>>)
  /\ UNCHANGED lock

\* fileread of as many words as the argument has; bmap may change the inode in
\* memory, which readi does not write to the disk.
fileread(p) ==
  /\ At(p, "read")
  /\ LET f == argfd(p, Arg(p, 2))
         ip == ftable[f].ip
         r == readi(disk, Read(ip).di, ftable[f].off, Len(Arg(p, 3)))
     IN  IF f = 0 \/ ~Permits(f, {"r", "rw"})
         THEN UNCHANGED <<disk, itable, ftable, panic>>
         ELSE /\ Unlocked(ip) /\ CheckLock(ip)
              /\ disk' = r.d
              /\ itable' = [itable EXCEPT ![ip] = [Read(ip) EXCEPT !.di = r.di]]
              /\ ftable' = [ftable EXCEPT ![f].off = Advance(@, Len(r.words))]
  /\ Then(p, proc[p], <<>>)
  /\ UNCHANGED <<lock, text>>

filestat(p) ==
  /\ At(p, "fstat")
  /\ LET f == argfd(p, Arg(p, 2))
         ip == ftable[f].ip
     IN  IF f = 0 THEN UNCHANGED <<itable, panic>>
         ELSE /\ Unlocked(ip) /\ CheckLock(ip)
              /\ itable' = [itable EXCEPT ![ip] = Read(ip)]
  /\ Then(p, proc[p], <<>>)
  /\ UNCHANGED <<disk, lock, ftable, text>>

-----------------------------------------------------------------------------

Step(p) ==
  \/ Call(p) \/ iput(p) \/ ifree(p) \/ invalidate(p) \/ drop(p) \/ iunlockput(p)
  \/ namex(p) \/ walk(p)
  \/ create1(p) \/ existing(p) \/ ialloc(p) \/ getinode(p) \/ fill(p)
  \/ openlock(p) \/ open(p) \/ link(p) \/ link2(p) \/ bad(p)
  \/ unlink(p) \/ erase(p) \/ unlinked(p) \/ chdir(p) \/ exec1(p)
  \/ fileclose(p) \/ dup(p) \/ fork(p) \/ exit_cwd(p) \/ filewrite(p)
  \/ fileread(p) \/ filestat(p)

Next == (\E p \in Proc : Step(p)) /\ UNCHANGED scene

Spec == Init /\ [][Next]_<<scene, vars>>

-----------------------------------------------------------------------------
(* Properties.                                                             *)

\* No panic is reached, whatever calls run at once: ilock finds an inode with a
\* type even if the name it was found by is removed meanwhile, iput need not wait
\* for the lock of an inode nobody else points to, unlink finds a link to take
\* away, no block is freed twice.  It does not hold once a path goes through the
\* ".." of a directory whose parent is removed as well: ".." is no reference, the
\* parent's inode is free, and ilock panics (FsDotdot.cfg).
NoPanic == panic = ""

\* The pointers of process p to slot s that its call still has to give back.
InFlight(p, s) ==
  (IF proc[p].ip = s THEN 1 ELSE 0) + (IF proc[p].dp = s THEN 1 ELSE 0)
  + Cardinality({k \in DOMAIN proc[p].todo :
      proc[p].todo[k][1] \in {"iput", "ifree", "invalid", "drop"} /\ proc[p].todo[k][2] = s})

\* An inode's ref is the number of open files, of current directories and of
\* pointers of calls under way that point to its slot, and no inode has two
\* slots: "ip->ref tracks the number of in-memory pointers to the entry"
\* (fs.c:133).  A file's ref is the number of file descriptors for it.  And what
\* a file or a current directory points to is not freed, however often its
\* names are removed (fs.c:333).
RefsExact ==
  /\ \A s \in Slot : itable[s].ref =
       Cardinality({f \in File : ftable[f].ip = s})
       + Cardinality({p \in Proc : proc[p].cwd = s})
       + MapThenSumSet(LAMBDA p : InFlight(p, s), Proc)
  /\ \A i \in Inum : Cardinality(Cached(itable, i)) < 2
  /\ \A f \in File : ftable[f].ref =
       MapThenSumSet(LAMBDA p : Cardinality({fd \in Fd : proc[p].ofile[fd] = f}), Proc)
  /\ \A s \in {ftable[f].ip : f \in File} \cup {proc[p].cwd : p \in Proc} :
       s # 0 => disk.dinode[itable[s].inum].type # 0

\* Every block in use belongs to exactly one inode, and every block of an inode
\* is in use: none is leaked by a call that fails, none is given out twice.
BlocksExact ==
  LET blocks(i) == BlocksOf(disk, disk.dinode[i])
  IN  /\ disk.used = UNION {blocks(i) : i \in Inum}
      /\ \A i, j \in Inum : i # j => blocks(i) \cap blocks(j) = {}

\* No system call is between begin_op and end_op, so the log may commit.
Quiet ==
  \A p \in Proc : proc[p].todo = <<>>
    \/ Head(proc[p].todo)[1] \in {"fileclose", "exit", "dup", "fork", "read", "write", "fstat"}

\* The directory entries but "." and "..": directory, position, inode.
Entries ==
  UNION {LET de == Dirents(disk, disk.dinode[d])
         IN  {<<d, k, DeInum(de[k])>> : k \in {j \in 3 .. Len(de) : DeInum(de[j]) # 0}}
         : d \in {i \in Inum : disk.dinode[i].type = T_DIR}}

\* Whenever the log may commit, the nlink of every inode is the "number of links
\* to inode in file system" (fs.h:36), which counts ".." but not "."; and names
\* lead to inodes that are allocated.
LinksExact ==
  Quiet =>
    LET entries == Entries
        type(i) == disk.dinode[i].type
    IN  /\ \A i \in Inum : disk.dinode[i].nlink =
             Cardinality({e \in entries : e[3] = i})
             + Cardinality({e \in entries : e[1] = i /\ type(e[3]) = T_DIR})
             + (IF i = ROOTINO THEN 1 ELSE 0)
        /\ \A e \in entries : type(e[3]) # 0

\* Inode i is allocated, but has no name, and nobody can give it back.
Leaked(i) ==
  /\ disk.dinode[i].type # 0 /\ disk.dinode[i].nlink = 0
  /\ Cached(itable, i) = {}
  /\ \A p \in Proc : ~(At(p, "iget") /\ Arg(p, 3) = i)

\* "If that was the last reference and the inode has no links to it, free the
\* inode" (fs.c:332): no inode is ever leaked.
NoLeak == \A i \in Inum : ~Leaked(i)

\* The only inodes that leak are those that were allocated, locked and removed
\* again by others, which makes the slot valid again, while iput, which had freed
\* them before, was on its way from releasesleep to its second critical section
\* (fs.c:353).  No other iput and no call that fails half-way leaks an inode.
OnlyRacesLeak ==
  [][\A i \in Inum : Leaked(i)' =>
       \/ Leaked(i)
       \/ \E p \in Proc : /\ At(p, "drop")
                          /\ itable[Arg(p, 2)].inum = i /\ itable[Arg(p, 2)].valid]_vars

\* A file contains what was written to it, in the order of the writes, and
\* nothing that its blocks held for another file before.
Contents ==
  \A i \in Inum : disk.dinode[i].type = T_FILE =>
    Dirents(disk, disk.dinode[i]) = text[i]

\* The inode whose lock process p takes next, or 0.
Wanted(p) ==
  IF proc[p].todo = <<>> THEN 0
  ELSE LET op == Arg(p, 1) IN
       CASE op = "walk" /\ Arg(p, 3) # <<>> -> proc[p][Arg(p, 2)]
         [] op \in {"create", "unlink", "link2"} -> proc[p].dp
         [] op \in {"existing", "fill", "openlock", "link", "bad", "erase", "chdir", "exec"} ->
              proc[p].ip
         [] op \in {"read", "write", "fstat"} /\ proc[p].ofile[Arg(p, 2)] # 0 ->
              ftable[proc[p].ofile[Arg(p, 2)]].ip
         [] OTHER -> 0

\* The process that holds the lock p waits for, or 0.
WaitsFor(p) == IF Wanted(p) = 0 THEN 0 ELSE lock[Wanted(p)]

\* Nobody waits for ever for the lock of an inode: the holders of locks are in
\* system calls, and no processes wait for each other in a circle.  All else a
\* call does is finite, so all calls return (fs.c:159).
NobodyStuck ==
  /\ \A s \in Slot : lock[s] # 0 => proc[lock[s]].todo # <<>>
  /\ \A S \in SUBSET Proc \ {{}} : \E p \in S : WaitsFor(p) \notin S
=============================================================================
