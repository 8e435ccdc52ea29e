-------------------------------- MODULE MCPipe --------------------------------
(* Scenes for TLC: one reader and two writers at a pipe of one byte, and   *)
(* two processes that send longer messages through a ring of two.          *)
EXTENDS Pipe

CONSTANTS p1, p2, p3

Procs == {p1, p2, p3}
Messages == {<<0, 1>>, <<0, 1, 1>>}

Crowd ==
  [procs |-> Procs, reader |-> {p1}, writer |-> {p2, p3},
   message |-> {<<0, 1>>}, want |-> {2}, size |-> 1, wrap |-> 2]

\* The message is longer than the pipe, and the slots of the ring shift.
Ring ==
  [procs |-> {p1, p2}, reader |-> {p1}, writer |-> {p1, p2},
   message |-> {<<0, 1, 1>>}, want |-> {1, 2}, size |-> 2, wrap |-> 4]

Scenes == {Crowd, Ring}
=============================================================================
