-------------------------------- MODULE Lines --------------------------------
(***************************************************************************)
(* What the console promises to readers: the line being typed can be       *)
(* edited until it is ended; ended lines are read in order, at most one    *)
(* line by one read, and what has been ended can no longer be edited.      *)
(***************************************************************************)
EXTENDS Integers, Sequences

CONSTANTS Char, Newline, Eof, Capacity

Enders == {Newline, Eof}

VARIABLES ready,  \* typed, ended and not yet read
          line,   \* the line being edited
          given   \* what the current step delivers to a reader

lvars == <<ready, line, given>>

LInit == ready = <<>> /\ line = <<>> /\ given = <<>>

\* A character is stored if there is room; the last one there is room for ends
\* the line, too.
LType(c) ==
  /\ Len(ready) + Len(line) < Capacity
  /\ IF c \in Enders \/ Len(ready) + Len(line) + 1 = Capacity
     THEN ready' = ready \o line \o <<c>> /\ line' = <<>>
     ELSE line' = Append(line, c) /\ UNCHANGED ready
  /\ given' = <<>>

LErase ==
  /\ line # <<>> /\ line' = SubSeq(line, 1, Len(line) - 1)
  /\ given' = <<>> /\ UNCHANGED ready
LKill == line' = <<>> /\ given' = <<>> /\ UNCHANGED ready

\* A read stops at the end of a line.  It may take one more character that is
\* not delivered: one the reader has no memory for, or an end of file, but that
\* only if it delivers nothing, so that the reader sees it.
LRead ==
  \E k \in 0 .. Len(ready), lost \in {0, 1} :
    /\ k + lost <= Len(ready)
    /\ \A i \in 1 .. k : ready[i] \in Enders => i = k /\ lost = 0 /\ ready[i] = Newline
    /\ lost = 1 /\ ready[k + 1] = Eof => k = 0
    /\ given' = SubSeq(ready, 1, k)
    /\ ready' = SubSeq(ready, k + lost + 1, Len(ready))
    /\ UNCHANGED line

LNext == (\E c \in Char : LType(c)) \/ LErase \/ LKill \/ LRead

LSpec == LInit /\ [][LNext]_lvars
=============================================================================
