-------------------------- MODULE MCDeliveryOutbox --------------------------
(* A question prompt through the outbox, a second command that claims its  *)
(* delivery key for another payload, and a reply that bypasses the outbox. *)
EXTENDS DeliveryOutbox

CONSTANTS prompt, clash, bypass, q1

MCKeyOf == [c \in Commands |-> IF c = bypass THEN "kb" ELSE "kp"]
MCHashOf == [c \in Commands |-> IF c = clash THEN "h2" ELSE "h1"]
MCQuestionOf == [c \in Commands |-> IF c = prompt THEN q1 ELSE NoQuestion]
=============================================================================
