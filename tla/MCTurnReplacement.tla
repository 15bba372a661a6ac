------------------------- MODULE MCTurnReplacement --------------------------
(* Replacement boundaries among ordinary turns: a retried operation and a  *)
(* second operation.                                                       *)
EXTENDS TurnDispatcher

CONSTANTS s1, turn1, op1, op1Again, op2

MCTurns == {turn1, op1, op1Again, op2}
MCReplacements == MCTurns \ {turn1}
MCSessionOf == [t \in MCTurns |-> s1]
MCKeyOf == [t \in {turn1} |-> "ko"]
MCAuthorOf == [t \in {turn1} |-> "u1"]
MCMessageOf == [t \in MCTurns |-> 0]
MCOpOf == [t \in MCReplacements |-> IF t = op2 THEN "opQ" ELSE "opR"]
MCHashOf == [t \in MCReplacements |-> "h1"]
=============================================================================
