------------------------- MODULE MCCommandDelivery -------------------------
(* A command with a job and a message that cannot be decoded.              *)
EXTENDS CommandDelivery

CONSTANTS job, poison

MCLaneOf == [e \in Envelopes |-> IF e = poison THEN "none" ELSE "session:s1"]
=============================================================================
