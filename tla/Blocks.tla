-------------------------------- MODULE Blocks --------------------------------
(***************************************************************************)
(* The blocks of a file system and the content of its inodes, as functions *)
(* on a disk (kernel/fs.c): allocation, block maps with direct and         *)
(* indirect blocks, reading, writing, truncation, directories.             *)
(*                                                                         *)
(* A disk is a record: size is sb.size, used the blocks marked in the      *)
(* bitmap, data the words of each block, dinode the on-disk inodes.  It is *)
(* what bread returns, so log_write and the buffer cache are in it.  A     *)
(* word of a block stands for a byte of a file, for a struct dirent or for *)
(* a block number in an indirect block.                                    *)
(***************************************************************************)
EXTENDS Integers, Sequences, FiniteSets, FiniteSetsExt

CONSTANTS BSIZE,               \* words of a block
          NDIRECT, NINDIRECT,  \* NINDIRECT = BSIZE
          NBLOCK, NINODES,     \* blocks and inodes of the disk, at most
          Name                 \* names of directory entries: "." is 1, ".." is 2

ASSUME BlocksAssumption ==
  /\ BSIZE \in Nat \ {0} /\ NINDIRECT = BSIZE /\ NDIRECT \in Nat
  /\ NBLOCK \in Nat /\ NINODES \in Nat \ {0}
  /\ Name \subseteq Nat \ {0} /\ {1, 2} \subseteq Name

MAXFILE == NDIRECT + NINDIRECT
Inum == 1 .. NINODES
ROOTINO == 1
T_DIR == 1
T_FILE == 2
T_DEVICE == 3
BadDevice == 4   \* a T_DEVICE with a major number that is not of [0, NDEV)

NoInode ==
  [type |-> 0, nlink |-> 0, size |-> 0, addrs |-> [k \in 0 .. NDIRECT |-> 0]]

Zero == [k \in 0 .. BSIZE - 1 |-> 0]

-----------------------------------------------------------------------------
(* Blocks.                                                                 *)

\* The blocks that are not marked in the bitmap.
FreeBlocks(d) == (1 .. d.size) \ d.used

\* The block is zeroed; it is 0 if there is none.
balloc(d) ==
  LET b == Min(FreeBlocks(d))
  IN  IF FreeBlocks(d) = {} THEN [d |-> d, b |-> 0]
      ELSE [d |-> [d EXCEPT !.used = @ \cup {b}, !.data[b] = Zero], b |-> b]

\* b, or a new block if b is 0
Allocated(d, b) == IF b = 0 THEN balloc(d) ELSE [d |-> d, b |-> b]

\* Block a is where di maps bn; is where indirect block ind maps its entry k.
Direct(di, bn, a) == [d |-> a.d, di |-> [di EXCEPT !.addrs[bn] = a.b], addr |-> a.b]
Entry(ind, k, a) == [d |-> [a.d EXCEPT !.data[ind][k] = a.b], b |-> a.b]

\* The same for entry k of the indirect block ind of di, which may be new too.
Indirect(di, k, ind) ==
  IF ind.b = 0 THEN [d |-> ind.d, di |-> di, addr |-> 0]
  ELSE LET a == Entry(ind.b, k, Allocated(ind.d, ind.d.data[ind.b][k]))
       IN  [d |-> a.d, di |-> [di EXCEPT !.addrs[NDIRECT] = ind.b], addr |-> a.b]

bmap(d, di, bn) ==
  IF bn < NDIRECT THEN Direct(di, bn, Allocated(d, di.addrs[bn]))
  ELSE Indirect(di, bn - NDIRECT, Allocated(d, di.addrs[NDIRECT]))

\* The blocks that an inode points to.
BlocksOf(d, di) ==
  LET ind == di.addrs[NDIRECT]
  IN  ({di.addrs[k] : k \in 0 .. NDIRECT}
       \cup (IF ind = 0 THEN {} ELSE {d.data[ind][k] : k \in 0 .. NINDIRECT - 1})) \ {0}

\* Mutant: the indirect block itself is not freed.
Freed_indirect(d, di) == BlocksOf(d, di) \ {di.addrs[NDIRECT]}

\* The blocks that itrunc frees.
Freed(d, di) == BlocksOf(d, di)

\* In use, so that bfree does not panic.
Freeable(d, di) == Freed(d, di) \subseteq d.used

itrunc(d, i, di) ==
  LET new == [NoInode EXCEPT !.type = di.type, !.nlink = di.nlink]
  IN  [d |-> [d EXCEPT !.used = @ \ Freed(d, di), !.dinode[i] = new], di |-> new]

iupdate(d, i, di) == [d EXCEPT !.dinode[i] = di]

-----------------------------------------------------------------------------
(* Content.                                                                *)

\* One more word is read, at offset at, whose block is m.
Got(acc, at, m) ==
  IF m.addr = 0 THEN [acc EXCEPT !.d = m.d, !.di = m.di]
  ELSE [d |-> m.d, di |-> m.di, words |-> Append(acc.words, m.d.data[m.addr][at % BSIZE])]

\* The words, and the disk and the inode after bmap.
readi(d, di, off, n) ==
  LET last == IF off > di.size THEN off ELSE Min({off + n, di.size})
      Next1(acc) == Got(acc, off + Len(acc.words),
                        bmap(acc.d, acc.di, (off + Len(acc.words)) \div BSIZE))
      get[k \in 0 .. n] ==
        IF k = 0 THEN [d |-> d, di |-> di, words |-> <<>>] ELSE Next1(get[k - 1])
  IN  get[last - off]

\* Mutant: the size is the end of this write.
Size_end(old, end) == end

\* ip->size after a write up to end
Size(old, end) == Max({old, end})

\* One more word is written, at offset at, whose block is m.
Put(acc, at, w, m) ==
  IF m.addr = 0 THEN [acc EXCEPT !.d = m.d, !.di = m.di]
  ELSE [d |-> [m.d EXCEPT !.data[m.addr][at % BSIZE] = w], di |-> m.di, tot |-> acc.tot + 1]

\* The end of writei: the inode, with its new size, is written too.
Finished(i, off, r) ==
  LET new == [r.di EXCEPT !.size = Size(@, off + r.tot)]
  IN  [d |-> iupdate(r.d, i, new), di |-> new, tot |-> r.tot]

\* tot words were written to inode i, whose copy in memory is di.
writei(d, i, di, off, words) ==
  LET Next1(acc, k) ==
        IF acc.tot < k - 1 THEN acc   \* the disk is full
        ELSE Put(acc, off + acc.tot, words[k], bmap(acc.d, acc.di, (off + acc.tot) \div BSIZE))
      put[k \in 0 .. Len(words)] ==
        IF k = 0 THEN [d |-> d, di |-> di, tot |-> 0] ELSE Next1(put[k - 1], k)
  IN  IF off > di.size \/ off + Len(words) > MAXFILE * BSIZE
      THEN [d |-> d, di |-> di, tot |-> -1]
      ELSE Finished(i, off, put[Len(words)])

-----------------------------------------------------------------------------
(* Directories.                                                            *)

Dirent(name, i) == name * (NINODES + 1) + i
DeInum(de) == de % (NINODES + 1)
DeName(de) == de \div (NINODES + 1)

\* The dirents of a directory; one with inum 0 is empty.
Dirents(d, di) == readi(d, di, 0, di.size).words

\* The positions of the entries called name, at most one, and of empty ones,
\* among the dirents de.
Positions(de, name) == {k \in DOMAIN de : DeInum(de[k]) # 0 /\ DeName(de[k]) = name}
Unused(de) == {k \in DOMAIN de : DeInum(de[k]) = 0}

\* The inode number of the entry, or 0.
InumAt(de, name) ==
  IF Positions(de, name) = {} THEN 0 ELSE DeInum(de[Min(Positions(de, name))])
dirlookup(d, di, name) == InumAt(Dirents(d, di), name)

\* dirlink, of a name that is not in the directory
dirlink(d, i, di, name, target) ==
  writei(d, i, di, Min({k - 1 : k \in Unused(Dirents(d, di))} \cup {di.size}),
         <<Dirent(name, target)>>)

\* sys_unlink: an empty dirent takes the place of the entry.
Erase(d, i, di, name) == writei(d, i, di, Min(Positions(Dirents(d, di), name)) - 1, <<0>>)

\* No entries but "." and "..".
isdirempty(d, di) == 3 .. di.size \subseteq Unused(Dirents(d, di))
=============================================================================
