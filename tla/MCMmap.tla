-------------------------------- MODULE MCMmap --------------------------------
(* Instances of Mmap: the regions and the operations of the programs.      *)
EXTENDS Mmap

Region(a, n, p, f, h) == [addr |-> a, len |-> n, prot |-> p, flag |-> f, huge |-> h]

\* One page of one block, of every kind; a huge region starts where its block does.
AnyRegion ==
  {Region(0, 1, p, f, h) : p \in {"r", "rw"}, f \in {"private", "shared"}, h \in BOOLEAN}

\* A shared base page, or a shared huge page in its place.
SharedRegions ==
  {Region(0, 1, "rw", "shared", FALSE), Region(0, 1, "rw", "shared", TRUE)}

SharedPage == {Region(0, 1, "rw", "shared", FALSE)}

\* Programs that map, unmap and map again, and that touch their shared pages
\* before they fork.
Remapper ==
  [harts |-> 2, requests |-> AnyRegion,
   ops |-> [p \in 1 .. 2 |-> {"mmap", "munmap", "exec"}]]

\* The first program maps and forks at will; the processes it forks may exec.
Sharing == [p \in 1 .. 3 |-> IF p = 1 THEN {"mmap", "forkfresh"} ELSE {"exec", "forkfresh"}]
Sharer == [harts |-> 1, requests |-> AnyRegion, ops |-> Sharing]

Scenes == {Remapper, Sharer}

\* Programs that share, write to memory through the kernel, and whose exec fails.
Failing ==
  {[harts |-> 2, requests |-> SharedRegions,
    ops |-> [p \in 1 .. 3 |-> IF p = 1 THEN {"mmap", "forkfresh"} ELSE {"copyout", "execfail"}]]}

\* The sharers again, on two harts.
ForkRace == {[harts |-> 2, requests |-> SharedPage, ops |-> Sharing]}

\* As before, but the region is unmapped.
Unmapper ==
  {[harts |-> 1, requests |-> SharedPage,
    ops |-> [p \in 1 .. 2 |-> IF p = 1 THEN {"mmap", "munmap", "forkfresh"} ELSE {"munmap"}]]}

\* A program maps a huge region that does not start where a block does, and
\* unmaps it.
Unaligned ==
  {[harts |-> 1, requests |-> {Region(1, 1, "rw", "private", TRUE)},
    ops |-> [p \in {1} |-> {"mmap", "munmap"}]]}

\* Unrelated programs that map shared regions.
Unrelated ==
  {[harts |-> 1, requests |-> SharedRegions,
    ops |-> [p \in 1 .. 3 |-> {"mmap", "forkfresh", "spawn"}]]}
=============================================================================
