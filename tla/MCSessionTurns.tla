--------------------------- MODULE MCSessionTurns ---------------------------
(* Three chat commands: a message and two replies, either to that message  *)
(* while it runs or to one older message of the bot.                       *)
EXTENDS SessionTurns

CONSTANTS s1, m1, m2, m3, m3Again

MCSessionOf == [t \in Turns |-> s1]
MCKeyOf == [t \in Turns |->
    CASE t = m1 -> "ka" [] t = m2 -> "kb" [] OTHER -> "kc"]
MCMessageOf == [t \in Turns |->
    CASE t = m1 -> 11 [] t = m2 -> 12 [] OTHER -> 13]
MCReplyOf == [t \in Turns |-> IF t = m1 THEN 0 ELSE 5]
(* Replies to the running turn, as in a steering conversation. *)
MCSteeringReplyOf == [t \in Turns |-> IF t = m1 THEN 0 ELSE 11]
MCAuthorOf == [t \in Turns |-> "u1"]
NoOps == <<>>
=============================================================================
