--------------------------- MODULE MCCommandOutbox ---------------------------
(* Two commands of one session and one of another.                         *)
EXTENDS CommandOutbox

CONSTANTS a1, a2, b1

MCCommands == {a1, a2, b1}
MCScopeOf == [c \in MCCommands |-> IF c = b1 THEN "b" ELSE "a"]
=============================================================================
