------------------------------ MODULE MCConsole ------------------------------
(* A screen of four cells, lines of up to three keys, and texts with colours. *)
EXTENDS Console

Line(echo) == [shell |-> FALSE, line |-> TRUE, echo |-> echo]
Raw == [shell |-> FALSE, line |-> FALSE, echo |-> TRUE]

MCReads == {[kind |-> Line(TRUE), size |-> 2], [kind |-> Raw, size |-> 2]}
MCWrites == {<<"a", ESC, "[", "3", "1", ";", "1", "m", "b", LF, "c">>,
             <<ESC, "[", "4", "2", "m", "d", ESC, "[", "m">>}
MCPackets == {[x |-> 1, y |-> 1, buffer |-> <<"p", "q", "r">>, with_color |-> TRUE,
               color |-> 18, move_cursor |-> TRUE]}
=============================================================================
