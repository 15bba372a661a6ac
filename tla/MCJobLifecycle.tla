--------------------------- MODULE MCJobLifecycle ---------------------------
(* Two callers at two jobs.  With one source, a repeated call makes the    *)
(* event of the first one again.                                           *)
EXTENDS JobLifecycle

CONSTANTS j1, j2, c1, c2, x1, made
=============================================================================
