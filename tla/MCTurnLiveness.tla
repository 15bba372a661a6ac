--------------------------- MODULE MCTurnLiveness ---------------------------
(* An ordinary turn, and two replacements that claim one operation id for  *)
(* different inputs.                                                       *)
EXTENDS TurnDispatcher

CONSTANTS s1, turn1, op1, op2

MCTurns == {turn1, op1, op2}
MCReplacements == {op1, op2}
MCSessionOf == [t \in MCTurns |-> s1]
MCKeyOf == [t \in {turn1} |-> "ko"]
MCAuthorOf == [t \in {turn1} |-> "u1"]
MCMessageOf == [t \in MCTurns |-> 0]
MCOpOf == [t \in MCReplacements |-> "op"]
MCHashOf == [t \in MCReplacements |-> IF t = op1 THEN "h1" ELSE "h2"]
=============================================================================
