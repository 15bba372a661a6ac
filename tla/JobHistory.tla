----------------------------- MODULE JobHistory -----------------------------
(***************************************************************************)
(* What the job service promises its readers, without outbox, transport,   *)
(* callers or crashes: a job moves until it reaches a terminal status and  *)
(* stays there, the event of a move is committed with it, and the history  *)
(* holds committed events only, in the end all but those it gave up on.    *)
(***************************************************************************)
CONSTANTS
    Jobs, Statuses, Terminal, Events,
    CreatedEvent(_)  \* the event of a job's creation

VARIABLES
    status,     \* job -> status, "absent" before its creation
    committed,  \* events of the moves made so far
    history,    \* events a reader of the history sees
    rejected    \* events the history gave up on

vars == <<status, committed, history, rejected>>

(* Some jobs may be there from before. *)
Init ==
    /\ \E known \in SUBSET Jobs :
        /\ status = [j \in Jobs |-> IF j \in known THEN "created" ELSE "absent"]
        /\ committed = {CreatedEvent(j) : j \in known}
    /\ history = committed
    /\ rejected = {}

Create(j) ==
    /\ status[j] = "absent"
    /\ status' = [status EXCEPT ![j] = "created"]
    /\ committed' = committed \cup {CreatedEvent(j)}
    /\ UNCHANGED <<history, rejected>>

(* A terminal status can only be confirmed. *)
Move(j, s, e) ==
    /\ status[j] # "absent"
    /\ status[j] \in Terminal => s = status[j]
    /\ status' = [status EXCEPT ![j] = s]
    /\ committed' = committed \cup {e}
    /\ UNCHANGED <<history, rejected>>

(* The writer may not learn that an event is in the history and count it   *)
(* as given up.                                                            *)
Show(e) ==
    /\ e \in committed
    /\ history' = history \cup {e}
    /\ rejected' \in {rejected, rejected \cup {e}}
    /\ UNCHANGED <<status, committed>>

GiveUp(lost) ==
    /\ lost \subseteq committed
    /\ rejected' = rejected \cup lost
    /\ UNCHANGED <<status, committed, history>>

Next ==
    \/ \E j \in Jobs : Create(j) \/ \E s \in Statuses, e \in Events : Move(j, s, e)
    \/ \E e \in Events : Show(e)
    \/ \E lost \in SUBSET committed : GiveUp(lost)

SafeSpec == Init /\ [][Next]_vars

(* Again and again nothing is owed; so no committed event is owed for ever. *)
EventuallyShown == []<>(committed \subseteq history \cup rejected)

Spec == SafeSpec /\ EventuallyShown
=============================================================================
