-------------------------------- MODULE Stream --------------------------------
(***************************************************************************)
(* What a pipe promises: a queue of bytes.  A write appends the bytes of   *)
(* its message in order, a piece at a time, and may give up; a read takes  *)
(* bytes off the front, and may drop some more if it cannot deliver them.  *)
(* Nothing else takes bytes away while the queue is open.                  *)
(***************************************************************************)
EXTENDS Integers, Sequences

CONSTANTS Writer, Message,
          Lost    \* how many bytes a read may drop

VARIABLES capacity,  \* never changes
          closed, \* there is no queue: it is not made yet, or gone
          queue,  \* the bytes written and not yet read
          todo,   \* what is left of each writer's message
          got     \* the bytes the current step delivers to a reader

svars == <<capacity, closed, queue, todo, got>>

Take(s, k) == SubSeq(s, 1, k)
Drop(s, k) == SubSeq(s, k + 1, Len(s))

SInit ==
  /\ capacity \in Nat /\ closed \in BOOLEAN
  /\ queue = <<>> /\ todo = [w \in Writer |-> <<>>] /\ got = <<>>

SStart(w) ==
  /\ ~closed /\ todo[w] = <<>>
  /\ \E m \in Message : todo' = [todo EXCEPT ![w] = m]
  /\ got' = <<>> /\ UNCHANGED <<closed, queue>>

SWrite(w) ==
  /\ ~closed
  /\ \E k \in 0 .. Len(todo[w]) :
       /\ Len(queue) + k <= capacity
       /\ queue' = queue \o Take(todo[w], k)
       /\ \E rest \in {Drop(todo[w], k), <<>>} : todo' = [todo EXCEPT ![w] = rest]
  /\ got' = <<>> /\ UNCHANGED closed

SRead ==
  /\ ~closed
  /\ \E k \in 0 .. Len(queue), lost \in Lost :
       /\ k + lost <= Len(queue)
       /\ got' = Take(queue, k)
       /\ queue' = Drop(queue, k + lost)
  /\ UNCHANGED <<closed, todo>>

\* The queue is made, and is empty.
SOpen ==
  /\ closed /\ closed' = FALSE
  /\ got' = <<>> /\ UNCHANGED <<queue, todo>>

\* The queue goes away with what is in it; nobody is in mid-message.
SClose ==
  /\ ~closed /\ closed' = TRUE
  /\ \A w \in Writer : todo[w] = <<>>
  /\ queue' = <<>> /\ got' = <<>> /\ UNCHANGED todo

SNext ==
  /\ (\E w \in Writer : SStart(w) \/ SWrite(w)) \/ SRead \/ SOpen \/ SClose
  /\ UNCHANGED capacity

SSpec == SInit /\ [][SNext]_svars
=============================================================================
