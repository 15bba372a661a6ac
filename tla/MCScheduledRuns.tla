--------------------------- MODULE MCScheduledRuns ---------------------------
(* One schedule: two slots, one request from Backoffice, one manual key.   *)
EXTENDS ScheduledRuns

CONSTANT m1
=============================================================================
