-------------------------------- MODULE MCLog --------------------------------
(* Scenes for TLC: operations of two blocks whose contents matter, the only *)
(* two that are written; operations of one block each, less than begin_op   *)
(* reserves, that fill the log; and operations that log all they may.       *)
EXTENDS Log

Contents == [writes |-> ({"p1", "p2"} \X {"a", "b"} \X {0, 1}) \cup ({"p3"} \X {"a"} \X {1}),
             opmax |-> 2]

\* While an operation of p1 is under way, p2 runs one after the other.
Filling == [writes |-> ({"p1"} \X {"e"} \X {0}) \cup ({"p2"} \X {"a", "b", "c", "d"} \X {0}),
            opmax |-> 1]
Scenes == {Contents, Filling}

Full == {[writes |-> Proc \X Block \X {0}, opmax |-> 2]}
=============================================================================
