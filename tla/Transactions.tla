----------------------------- MODULE Transactions -----------------------------
(***************************************************************************)
(* What the log promises the file system: operations run on the blocks in  *)
(* memory; what is on disk changes only when no operation is under way, to *)
(* all that is in memory, in one step; a crash goes back to the disk.  So  *)
(* an operation survives a crash as a whole or not at all.                 *)
(***************************************************************************)
EXTENDS FiniteSets

CONSTANTS Proc, Block, Val, InitVal

VARIABLES disk,    \* what a reboot would find
          memory,  \* what operations read
          active   \* the processes inside an operation

tvars == <<disk, memory, active>>

TInit ==
  /\ disk = [b \in Block |-> InitVal]
  /\ memory = disk
  /\ active = {}

TBegin(p) ==
  /\ p \notin active
  /\ active' = active \cup {p}
  /\ UNCHANGED <<disk, memory>>

TWrite(b, v) ==
  /\ active # {}
  /\ memory' = [memory EXCEPT ![b] = v]
  /\ UNCHANGED <<disk, active>>

TEnd(p) ==
  /\ active' = active \ {p}
  /\ UNCHANGED <<disk, memory>>

TCommit ==
  /\ active = {}
  /\ disk' = memory
  /\ UNCHANGED <<memory, active>>

TCrash ==
  /\ memory' = disk
  /\ active' = {}
  /\ UNCHANGED disk

TNext ==
  \/ \E p \in Proc : TBegin(p) \/ TEnd(p)
  \/ \E b \in Block, v \in Val : TWrite(b, v)
  \/ TCommit
  \/ TCrash

TSpec == TInit /\ [][TNext]_tvars
=============================================================================
