--------------------------- MODULE MCTurnSteering ---------------------------
(* A message, a reply to it that is delivered twice, and a reply to the    *)
(* reply: each of them may find the others running or queued.              *)
EXTENDS TurnDispatcher

CONSTANTS s1, m1, m2, m2Again, m3

MCTurns == {m1, m2, m2Again, m3}
MCSessionOf == [t \in MCTurns |-> s1]
MCKeyOf == [t \in MCTurns |->
    CASE t = m1 -> "ka" [] t \in {m2, m2Again} -> "kb" [] t = m3 -> "kc"]
MCMessageOf == [t \in MCTurns |->
    CASE t = m1 -> 1 [] t \in {m2, m2Again} -> 2 [] t = m3 -> 3]
(* m2 replies to m1; m3 replies to m2. *)
MCReplyOf == [t \in MCTurns |->
    CASE t = m1 -> 0 [] t \in {m2, m2Again} -> 1 [] t = m3 -> 2]
MCAuthorOf == [t \in MCTurns |-> "u1"]
NoOps == <<>>
=============================================================================
