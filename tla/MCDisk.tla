-------------------------------- MODULE MCDisk --------------------------------
(* Scenes for TLC: two requests at the device at once; two processes that  *)
(* compete for descriptors and for buffers; and one that pins blocks.      *)
EXTENDS Disk

Parallel == [procs |-> {1, 2}, blocks |-> {1, 2}, changed |-> {1}, maxpin |-> 0, num |-> 6]
Scarce == [procs |-> {1, 2}, blocks |-> {1, 2, 3}, changed |-> {1}, maxpin |-> 0, num |-> 4]
Pinning == [procs |-> {1}, blocks |-> {1, 2, 3}, changed |-> {1, 2}, maxpin |-> 1, num |-> 3]
Scenes == {Parallel, Scarce, Pinning}
=============================================================================
