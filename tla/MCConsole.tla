------------------------------ MODULE MCConsole ------------------------------
(* Scenes for TLC: two that type and edit, with different keys, and one in *)
(* which two writers compete with each other and with the echo.            *)
EXTENDS Console

Typing == [keys |-> {"x", "cr", "U"}, messages |-> {}, wants |-> {2}]
Ending == [keys |-> {"x", "D", "H"}, messages |-> {}, wants |-> {4}]

\* The ring has no room for both messages.
Writing == [keys |-> {"P"}, messages |-> {<<"a", "b">>}, wants |-> {}]
Scenes == {Typing, Ending, Writing}
=============================================================================
