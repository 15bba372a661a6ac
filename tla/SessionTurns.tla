---------------------------- MODULE SessionTurns ----------------------------
(***************************************************************************)
(* SessionActor above the turn mailbox and below the durable transport:    *)
(* actors/session_actor.go and session_settlement.go composed with         *)
(* TurnDispatcher and with what eventbus/nats/runtime.go does with the     *)
(* error a handler returns.  A turn is one delivery attempt of the command *)
(* envelope that its key names.  The turns here are ordinary ones          *)
(* (Replacements = {}) of conversational commands without a job.           *)
(***************************************************************************)
EXTENDS TurnDispatcher

CONSTANTS
    MaxDeliver,   \* max_deliver of the command consumer
    MaxFaults     \* bound: user cancellations, restarts, Runs cut short

ASSUME DeliverAssumption ==
    MaxDeliver \in Nat \ {0} /\ MaxFaults \in Nat

(* The key of a conversational turn is the id of its envelope, and an      *)
(* envelope is addressed to one session.                                   *)
ASSUME EnvelopeAssumption ==
    \A t, u \in Turns : KeyOf[t] = KeyOf[u] => SessionOf[t] = SessionOf[u]

VARIABLES
    attempt,      \* delivery attempt number of a turn, 0 before its delivery
    actor,        \* the SessionActor.Handle call of a turn
    settled,      \* what the transport knows of an envelope
    hostStopping, \* ActorHost.Stop has cancelled the consumer context
    faults,       \* faults so far, as MaxFaults bounds them
    handled,      \* history: keys whose text a Run got and finished with
    excused,      \* history: keys of batches hit by a CancelSession call
    overwritten,  \* history: keys of queued turns whose own text was replaced
    interrupted,  \* history: keys of batches cut short by no cancel call
    late          \* history: attempts started after their command was acked

handlerVars == <<attempt, actor, settled>>
historyVars == <<handled, excused, overwritten, interrupted, late>>
sessionVars == <<vars, handlerVars, hostStopping, faults, historyVars>>

Keys == {KeyOf[t] : t \in Turns}
Attempts(k) == {t \in Turns : KeyOf[t] = k /\ attempt[t] > 0}
KeysOf(S) == {KeyOf[t] : t \in S}

(* messageDeliveryAttempt of the next delivery of k *)
NextAttempt(k) == Cardinality(Attempts(k)) + 1

(* enqueueTurn up to the Enqueue call.  taskAlreadyDone looks at job turns *)
(* only: a turn that waited on the lane while its command was settled is   *)
(* enqueued like any other.                                                *)
Start(t) ==
    /\ Enqueue(t)
    /\ actor' = [actor EXCEPT ![t] = "called"]
    /\ overwritten' = overwritten \cup KeysOf({b \in Turns \ {t} :
          steering[b] = <<>> /\ steering'[b] # <<>>})
    /\ late' = IF settled[KeyOf[t]] = "acked" THEN late \cup {t} ELSE late
    /\ UNCHANGED <<settled, hostStopping, faults, handled, excused,
                   interrupted>>

(* The lane "session-command:<envelope id>" runs one handler at a time. *)
LaneFree(k) == \A u \in Attempts(k) : actor[u] = "returned"

(* A delivery: the first, or a redelivery after a retry or after ack_wait  *)
(* passed with an attempt still at work, behind which it has to wait.      *)
Deliver(t) ==
    LET k == KeyOf[t] IN
    /\ ~hostStopping
    /\ settled[k] = "unsettled"
    /\ attempt[t] = 0
    /\ Cardinality(Attempts(k)) < MaxDeliver
    /\ attempt' = [attempt EXCEPT ![t] = NextAttempt(k)]
    /\ \/ LaneFree(k) /\ Start(t)
       \/ /\ ~LaneFree(k)
          /\ actor' = [actor EXCEPT ![t] = "lane"]
          /\ UNCHANGED <<vars, settled, hostStopping, faults, historyVars>>

(* The lane is handed on, whatever became of the command meanwhile. *)
EnterLane(t) ==
    /\ actor[t] = "lane"
    /\ \A u \in Attempts(KeyOf[t]) : actor[u] # "called"
    /\ Start(t)
    /\ UNCHANGED attempt

(* A retryable error is negatively acknowledged until max_deliver, then    *)
(* dead-lettered; a settlement after the first one has no effect.          *)
Return(t, how) ==
    LET k == KeyOf[t]
        final == IF how = "retry"
                 THEN IF attempt[t] >= MaxDeliver THEN "dead" ELSE "unsettled"
                 ELSE how
    IN
    /\ actor' = [actor EXCEPT ![t] = "returned"]
    /\ settled' = IF settled[k] = "unsettled"
                  THEN [settled EXCEPT ![k] = final] ELSE settled
    /\ UNCHANGED <<vars, attempt, hostStopping, faults, historyVars>>

(* sessionSettlementCoordinator.settle for a result of the mailbox: a      *)
(* cancelled turn counts as handled, and a failed run is retried, dead-    *)
(* lettered, or acknowledged when its final outcome was already accepted.  *)
Verdicts(answer) ==
    CASE answer \in {"ok", "canceled"} -> {"acked"}
      [] answer = "other" -> {"retry", "dead", "acked"}
      [] OTHER -> {"retry"}

(* The select of enqueueTurn, and the immediate error returns. *)
ReceiveResult(t) ==
    /\ actor[t] = "called"
    /\ result[t] \in Answers \cup Refusals
    /\ \E how \in Verdicts(result[t]) : Return(t, how)

(* Mutant: an interrupted wait is reported as success. *)
MutGiveUpAcks(t) ==
    /\ actor[t] = "called"
    /\ t \in dead
    /\ result[t] \notin Refusals
    /\ Return(t, "acked")

GiveUp(t) ==
    /\ actor[t] = "called"
    /\ t \in dead
    /\ result[t] \notin Refusals
    /\ Return(t, "retry")

(* The engine turns a waiting attempt away once the consumer context is    *)
(* cancelled.                                                              *)
LeaveLane(t) ==
    /\ hostStopping
    /\ actor[t] = "lane"
    /\ Return(t, "retry")

(* ActorHost.Stop cancels the consumer context; the contexts derived from  *)
(* it end one after the other.                                             *)
HostStop ==
    /\ ~hostStopping
    /\ hostStopping' = TRUE
    /\ UNCHANGED <<vars, handlerVars, faults, historyVars>>

EndDelivery(t) ==
    /\ hostStopping
    /\ actor[t] = "called"
    /\ InterruptDelivery(t)
    /\ UNCHANGED <<handlerVars, hostStopping, faults, historyVars>>

(* The stage after the actor host in the stop order of                     *)
(* application_lifecycle.go: by then every delivery context has ended.     *)
DispatcherStop ==
    /\ hostStopping
    /\ \A t \in Turns : actor[t] = "called" => t \in dead
    /\ Shutdown
    /\ interrupted' = interrupted \cup KeysOf(UNION {Members(b) :
          b \in UNION {Admitted(s) : s \in Sessions}})
    /\ UNCHANGED <<handlerVars, hostStopping, faults, handled, excused,
                   overwritten, late>>

(* /cancel and the interrupt queue mode *)
UserCancel(s, clearQueued) ==
    /\ faults < MaxFaults
    /\ faults' = faults + 1
    /\ CancelSession(s, clearQueued)
    /\ excused' = excused \cup KeysOf(UNION {Members(b) :
          b \in IF clearQueued THEN Admitted(s) ELSE {running[s]} \ {NoTurn}})
    /\ UNCHANGED <<handlerVars, hostStopping, handled, overwritten,
                   interrupted, late>>

(* A step of the session worker, with what it means for the commands.  A   *)
(* Run that reports a cancellation nobody asked for is one of the faults.  *)
Work(s) ==
    LET b == current[s]
        ends == worker[s] \in {"start", "exec"} /\ worker'[s] = "finish"
        cut == ends /\ outcome'[s] = "canceled"
    IN
    /\ WorkerStep(s) \/ IdleTimeout(s)
    /\ handled' = IF ends /\ ~cut THEN handled \cup KeysOf(Text(b)) ELSE handled
    /\ interrupted' = IF cut /\ b \notin canceled
                      THEN interrupted \cup KeysOf(Members(b)) ELSE interrupted
    /\ IF cut /\ ~RunCtxDone(b)
       THEN faults < MaxFaults /\ faults' = faults + 1 ELSE UNCHANGED faults
    /\ UNCHANGED <<handlerVars, hostStopping, excused, overwritten, late>>

FinishCall ==
    /\ CallStep
    /\ UNCHANGED <<handlerVars, hostStopping, faults, historyVars>>

(* The process ends at any point and starts again: the mailbox and the     *)
(* handlers are gone, the transport's state is not.                        *)
Restart ==
    /\ faults < MaxFaults
    /\ faults' = faults + 1
    /\ hostStopping' = FALSE
    /\ actor' = [t \in Turns |-> IF attempt[t] > 0 THEN "returned" ELSE "none"]
    /\ live' = {}
    /\ pending' = [s \in Sessions |-> <<>>]
    /\ running' = [s \in Sessions |-> NoTurn]
    /\ wake' = [s \in Sessions |-> FALSE]
    /\ replacement' = [s \in Sessions |-> NoTurn]
    /\ terminal' = [s \in Sessions |-> <<>>]
    /\ stopping' = FALSE
    /\ worker' = [s \in Sessions |-> "none"]
    /\ current' = [s \in Sessions |-> NoTurn]
    /\ outcome' = [s \in Sessions |-> "ok"]
    /\ constituents' = [t \in Turns |-> {}]
    /\ steering' = [t \in Turns |-> <<>>]
    /\ ctxOf' = [t \in Turns |-> t]
    /\ dead' = {}
    /\ canceled' = {}
    /\ calls' = {}
    /\ result' = [t \in Turns |-> "idle"]
    /\ ran' = {}
    /\ UNCHANGED <<attempt, settled, historyVars>>

SessionInit ==
    /\ Init
    /\ attempt = [t \in Turns |-> 0]
    /\ actor = [t \in Turns |-> "none"]
    /\ settled = [k \in Keys |-> "unsettled"]
    /\ hostStopping = FALSE
    /\ faults = 0
    /\ handled = {}
    /\ excused = {}
    /\ overwritten = {}
    /\ interrupted = {}
    /\ late = {}

SessionNext ==
    \/ \E t \in Turns : Deliver(t)
    \/ \E t \in Turns : EnterLane(t)
    \/ \E t \in Turns : ReceiveResult(t)
    \/ \E t \in Turns : GiveUp(t)
    \/ \E t \in Turns : LeaveLane(t)
    \/ \E t \in Turns : EndDelivery(t)
    \/ HostStop
    \/ DispatcherStop
    \/ \E s \in Sessions, clearQueued \in BOOLEAN : UserCancel(s, clearQueued)
    \/ \E s \in Sessions : Work(s)
    \/ FinishCall
    \/ Restart

SessionSpec == SessionInit /\ [][SessionNext]_sessionVars

-----------------------------------------------------------------------------
Acked == {k \in Keys : settled[k] = "acked"}

(* The handlers and the transport stay within their states. *)
SessionTypeOK ==
    /\ attempt \in [Turns -> 0..MaxDeliver]
    /\ actor \in [Turns -> {"none", "lane", "called", "returned"}]
    /\ settled \in [Keys -> {"unsettled", "acked", "dead"}]
    /\ hostStopping \in BOOLEAN
    /\ faults \in 0..MaxFaults
    /\ handled \cup excused \cup overwritten \cup interrupted \subseteq Keys
    /\ late \subseteq Turns

(* An acknowledged command was given to a Run that finished, or a user     *)
(* cancelled it, or it is one of two known losses: its text was replaced   *)
(* by a merge (NoTextLost), or its batch was cut short, by the end of      *)
(* another command's delivery context or by its Run.  Nothing else is      *)
(* acknowledged unexecuted, neither by a handler that gave up, nor by a    *)
(* restart, nor by a redelivery.                                           *)
AckAccounted == Acked \subseteq handled \cup excused \cup overwritten \cup interrupted

(* An acknowledgement leaves no turn of its command behind: no attempt     *)
(* started before it, not even one whose handler gave up, is in a queued   *)
(* or running batch.  Only a redelivery that was waiting on the lane and   *)
(* started after the acknowledgement can run the command again.            *)
NothingLeftBehind ==
    \A s \in Sessions : \A b \in Admitted(s) : \A m \in Members(b) :
        KeyOf[m] \in Acked => m \in late

(* docs/architecture/actor-runtime.md, "Command settlement happens after   *)
(* actor side effects complete": a command acknowledged without            *)
(* cancellation had its text executed.                                     *)
NoTextLost == Acked \subseteq handled \cup excused \cup interrupted
=============================================================================
