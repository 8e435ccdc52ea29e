-------------------------------- MODULE Frames --------------------------------
(***************************************************************************)
(* What kalloc.c promises, without its data structures: physical memory    *)
(* in sections of base pages, each frame with a number of references.      *)
(* An allocation hands out some frame that nobody refers to and that       *)
(* overlaps no frame in use; a reference can be added to a frame in use    *)
(* and dropped again.                                                      *)
(***************************************************************************)
EXTENDS Naturals

CONSTANTS NHUGE, PPH

Huge == 0 .. NHUGE - 1
Page == Huge \X (0 .. PPH - 1)

VARIABLES base,  \* references to each page
          huge   \* references to each section

fvars == <<base, huge>>

Init ==
  /\ base = [p \in Page |-> 0]
  /\ huge = [h \in Huge |-> 0]

AllocPage(p) ==
  /\ base[p] = 0
  /\ huge[p[1]] = 0
  /\ base' = [base EXCEPT ![p] = 1]
  /\ UNCHANGED huge

AllocHuge(h) ==
  /\ huge[h] = 0
  /\ \A p \in Page : p[1] = h => base[p] = 0
  /\ huge' = [huge EXCEPT ![h] = 1]
  /\ UNCHANGED base

SharePage(p) == base[p] > 0 /\ base' = [base EXCEPT ![p] = @ + 1] /\ UNCHANGED huge
DropPage(p)  == base[p] > 0 /\ base' = [base EXCEPT ![p] = @ - 1] /\ UNCHANGED huge
ShareHuge(h) == huge[h] > 0 /\ huge' = [huge EXCEPT ![h] = @ + 1] /\ UNCHANGED base
DropHuge(h)  == huge[h] > 0 /\ huge' = [huge EXCEPT ![h] = @ - 1] /\ UNCHANGED base

Next ==
  \/ \E p \in Page : AllocPage(p) \/ SharePage(p) \/ DropPage(p)
  \/ \E h \in Huge : AllocHuge(h) \/ ShareHuge(h) \/ DropHuge(h)

Spec == Init /\ [][Next]_fvars
=============================================================================
