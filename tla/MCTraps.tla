------------------------------- MODULE MCTraps -------------------------------
(* Scenes for TLC: one process that moves between two harts, and two       *)
(* processes on one.                                                       *)
EXTENDS Traps

Moving == [procs |-> {1}, harts |-> {11, 12}, calls |-> {"sleep", "uptime"}]
Sharing == [procs |-> {1, 2}, harts |-> {11}, calls |-> {"sleep"}]
Scenes == {Moving, Sharing}
=============================================================================
