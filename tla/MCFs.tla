--------------------------------- MODULE MCFs ---------------------------------
(* Scenes for TLC.  The names are "." 1, ".." 2, "a" 3, "b" 4, "c" 5.      *)
EXTENDS Fs

\* mkfs: an empty disk with n blocks, and its root.
Empty(n) ==
  [size |-> n, used |-> {}, data |-> [b \in 1 .. NBLOCK |-> Zero],
   dinode |-> [i \in Inum |-> NoInode]]
NewDir(d, i, parent) ==
  Dots(d, i, [NoInode EXCEPT !.type = T_DIR, !.nlink = 1], parent).d
Root(n) == NewDir(Empty(n), ROOTINO, ROOTINO)

\* Inode i, of this type, with a name in directory p.
With(d, i, type, p, name) ==
  LET new == IF type = T_DIR THEN NewDir(d, i, p)
             ELSE iupdate(d, i, [NoInode EXCEPT !.type = type, !.nlink = 1])
      e == dirlink(new, p, new.dinode[p], name, i)
  IN  iupdate(e.d, p, Linked(e.di, type))

\* Inode i has a second name in directory p.
Also(d, i, p, name) ==
  LET e == dirlink(d, p, d.dinode[p], name, i)
  IN  iupdate(e.d, i, [e.d.dinode[i] EXCEPT !.nlink = @ + 1])

\* The disks: a directory a with a file b, and a file c in the root.
Tree(n) == With(With(With(Root(n), 2, T_DIR, 1, 3), 3, T_FILE, 2, 4), 4, T_FILE, 1, 5)

A == [abs |-> TRUE, elems |-> <<3>>]
AB == [abs |-> TRUE, elems |-> <<3, 4>>]
AC == [abs |-> TRUE, elems |-> <<3, 5>>]
B == [abs |-> FALSE, elems |-> <<4>>]
C == [abs |-> FALSE, elems |-> <<5>>]
Dot == [abs |-> FALSE, elems |-> <<3, 1>>]
Up == [abs |-> FALSE, elems |-> <<3, 2, 5>>]
NoPath == [abs |-> TRUE, elems |-> <<>>]

Open(path, mode) == [op |-> "open", path |-> path, create |-> FALSE, mode |-> mode, trunc |-> FALSE]
Creat(path) == [op |-> "open", path |-> path, create |-> TRUE, mode |-> "rw", trunc |-> TRUE]
Mknod(path, type) == [op |-> "mknod", path |-> path, type |-> type]
Link(path, new) == [op |-> "link", path |-> path, new |-> new]
On(op, path) == [op |-> op, path |-> path]
Close(fd) == [op |-> "close", fd |-> fd]
Rw(op, fd, words) == [op |-> op, fd |-> fd, words |-> words]
Exit == [op |-> "exit"]
Fork(q, prog) == [op |-> "fork", child |-> q, prog |-> prog]

\* Any two calls at once.
Calls == {Open(AB, "r"), Open(A, "w"), Creat(C), Creat(AB), Mknod(A, T_DIR), Mknod(B, BadDevice),
          Link(C, B), Link(AB, C), Link(A, B), Link(C, AC), On("unlink", C), On("unlink", AB),
          On("unlink", A), On("unlink", Dot), On("chdir", A), On("chdir", C), On("exec", Up),
          Open(NoPath, "r")}
Pairs == {[disk |-> Tree(10), prog |-> <<<<c>>, <<d>>>>] : c, d \in Calls}

\* Three at once, on one name.
Three == {Creat(C), On("unlink", C), Link(C, B)}
Trios == {[disk |-> With(Root(6), 2, T_FILE, 1, 5), prog |-> <<<<b>>, <<c>>, <<d>>>>] :
            b, c, d \in Three}

\* A directory that is removed, made again and used at the same time.
Removals == {On("unlink", A), On("chdir", A), Mknod(A, T_DIR), Open(A, "r"), On("exec", Up)}
Removing == {[disk |-> With(Root(6), 2, T_DIR, 1, 3), prog |-> <<<<b, c>>, <<d>>>>] :
               b, c, d \in Removals}

\* Open files: shared, removed, written, truncated; tables that are full.
W == Rw("write", 1, <<7, 8, 9>>)
R == Rw("read", 1, <<0, 0, 0>>)
File1 == With(Root(8), 2, T_FILE, 1, 5)
Files ==
  {[disk |-> File1, prog |-> <<<<Open(C, "w"), W, Exit>>, q>>] :
     q \in {<<Creat(C), W, On("unlink", C), W>>, <<Open(C, "r"), R, On("unlink", C), Creat(C), R>>,
            <<Link(C, B), On("unlink", C), Creat(B), Close(1)>>}}
  \cup
  {[disk |-> File1, prog |-> <<<<Creat(C), W, Fork(2, <<W, [op |-> "fstat", fd |-> 1], Exit>>)>> \o q>>] :
     q \in {<<W, Close(1), On("unlink", C)>>, <<[op |-> "dup", fd |-> 1], Close(1), Open(C, "r"), R>>,
            <<On("unlink", C), Exit>>}}

\* A disk that is full, or has no free inodes.
Full ==
  {[disk |-> Root(n), prog |-> <<<<Mknod(A, T_DIR), Mknod(B, t), Creat(C), W>>, <<On("unlink", A), W>>>>] :
     n \in 1 .. 5, t \in {T_FILE, T_DIR}}
  \cup
  {[disk |-> Tree(9), prog |-> <<<<Mknod(B, T_DEVICE), Creat(C), W, W>>, <<Creat(AB), W, W>>>>]}

\* A removal on its way out of iput while the inode is made and removed again.
Again ==
  {[disk |-> With(Root(6), 2, T_DIR, 1, 3),
    prog |-> <<<<Mknod(A, T_DIR), On("unlink", A)>>, <<On("unlink", A)>>>>]}

\* A directory is removed by one process while another makes an entry in it.
Orphan ==
  {[disk |-> With(Root(6), 2, T_DIR, 1, 3), prog |-> <<<<Creat(AB)>>, <<On("unlink", A)>>>>]}

\* A process in /a/b removes it, then /a, and looks up "..".
Parent == [abs |-> FALSE, elems |-> <<2>>]
Dotdot ==
  {[disk |-> With(With(Root(6), 2, T_DIR, 1, 3), 3, T_DIR, 2, 4),
    prog |-> <<<<On("chdir", AB), On("unlink", AB), On("unlink", A), On("chdir", Parent)>>>>]}

Scenes == Pairs \cup Trios \cup Removing \cup Files \cup Full
=============================================================================
