-------------------------- MODULE QuestionLifecycle --------------------------
(***************************************************************************)
(* One interactive question, from Ask to the asker that hears its outcome. *)
(* The row of balda_questions is settled once, by an answer from a         *)
(* channel, by the durable timeout job, by the in-process deadline of a    *)
(* blocked permission review, or by a delivery that failed for good.  What *)
(* is settled goes on as a continuation command, and the controls of the   *)
(* prompt are removed.  Every step is one statement of the store or one    *)
(* call to another component; a restart loses what the process held and    *)
(* keeps the rows, the commands and the prompt.                            *)
(*                                                                         *)
(* The transport delivers every admitted continuation at least once        *)
(* (CommandDelivery), the outbox row of the prompt is DeliveryOutbox's,    *)
(* and the timer is the one-shot job of ScheduledRuns.                     *)
(***************************************************************************)
EXTENDS Naturals

CONSTANTS
    Messages,     \* inbound replies and selections, of allowed responders
    Options,      \* the choices of the question
    NoMessage,
    NoResult,
    MaxArrivals,  \* bound: messages and their repetitions from channels
    MaxFailures,  \* bound: calls that fail
    MaxRestarts   \* bound: restarts of the process

ASSUME QuestionAssumption ==
    /\ \A m \in Messages : /\ m.kind \in {"reply", "selection"}
                           /\ m.option \in Options
    /\ NoMessage \notin Messages
    /\ NoResult \notin Options \cup {"denied", "error"}
    /\ {"denied", "error"} \cap Options = {}
    /\ MaxArrivals \in Nat /\ MaxFailures \in Nat /\ MaxRestarts \in Nat

Settled == {"answered", "timed_out", "failed"}

Questions == [status : {"none", "pending"} \cup Settled,
              answer : Messages \cup {NoMessage},
              continuation : BOOLEAN,   \* answer_continuation_pending
              controls : BOOLEAN,       \* answer_controls_pending
              bound : BOOLEAN]          \* provider_message_id is set

Continuations == [kind : Settled, answer : Messages \cup {NoMessage}]

VARIABLES
    question,   \* the row
    job,        \* its timeout job: none, active, dispatched, paused, deleted
    wake,       \* the command of the timeout job, and its handler
    asker,      \* AskSession or StartSession: the step it is at
    blocking,   \* it waits for the result (AskSession)
    buffer,     \* the channel of the waiter
    result,     \* what AskSession returned
    delivery,   \* the command that presents the prompt, and its handler
    prompt,     \* its outbox row: none, sending, sent, unnamed (no id)
    inbound,    \* message -> the step of its handler
    arrivals,   \* deliveries by the channels so far
    runner,     \* the step of the question outbox
    seen,       \* was the row bound when ConfirmAnswerAdmission read it
    admitted,   \* continuations admitted by the dispatcher
    resumed,    \* continuations their target has handled
    cleaned,    \* a cleanup of the prompt's controls was admitted
    failures, restarts

row == <<question, job>>
askerVars == <<asker, blocking, buffer, result>>
inboundVars == <<inbound, arrivals>>
promptVars == <<delivery, prompt>>
runnerVars == <<runner, seen>>
outVars == <<admitted, resumed, cleaned>>
vars == <<row, wake, askerVars, promptVars, inboundVars, runnerVars, outVars,
          failures, restarts>>

Fail == failures < MaxFailures /\ failures' = failures + 1

-----------------------------------------------------------------------------
(* The store: each settlement is an UPDATE guarded by the pending status.  *)

MarkQuestionAnswered(m) ==
    IF question.status = "pending"
    THEN [question EXCEPT !.status = "answered", !.answer = m,
                          !.continuation = TRUE, !.controls = TRUE]
    ELSE question

MarkQuestionTimedOut ==
    IF question.status = "pending"
    THEN [question EXCEPT !.status = "timed_out"]
    ELSE question

(* Mutant: a question that timed out can still fail.                       *)
MutMarkFailed ==
    IF question.status \in {"pending", "timed_out"}
    THEN [question EXCEPT !.status = "failed"]
    ELSE question

MarkQuestionFailed ==
    IF question.status = "pending"
    THEN [question EXCEPT !.status = "failed"]
    ELSE question

(* A binding that arrives after the answer raises the controls marker.     *)
BindQuestionDeliveryRef ==
    [question EXCEPT !.bound = TRUE,
                     !.controls = \/ @
                                  \/ /\ question.status = "answered"
                                     /\ ~question.bound]

(* Mutant: the marker is cleared whatever was bound since.                 *)
MutControlsCleared ==
    IF ~question.continuation
    THEN [question EXCEPT !.controls = FALSE]
    ELSE question

(* Clears the marker only for the reference that was cleaned.              *)
MarkQuestionAnswerControlsCleared ==
    IF ~question.continuation /\ question.bound = seen
    THEN [question EXCEPT !.controls = FALSE]
    ELSE question

-----------------------------------------------------------------------------
(* The continuation a settled row stands for.                              *)
Continuation == [kind |-> question.status, answer |-> question.answer]

(* Dispatch of a continuation, locally durable or refused.                 *)
Admit(c) == admitted' = admitted \cup {c}

(* clearControls: best effort, and left to the question outbox while an    *)
(* answer's continuation is not admitted.                                  *)
ClearControls ==
    LET due == /\ question.bound
               /\ question.status = "answered" =>
                    ~question.continuation /\ question.controls
    IN  \/ cleaned' = (cleaned \/ due) /\ UNCHANGED failures
        \/ due /\ Fail /\ UNCHANGED cleaned

-----------------------------------------------------------------------------
(* Ask, StartSession and AskSession.                                       *)

CreatePendingQuestion(blocks) ==
    /\ asker = "idle"
    /\ asker' = "asked" /\ blocking' = blocks
    /\ question' = [question EXCEPT !.status = "pending"]
    /\ UNCHANGED <<job, wake, buffer, result, promptVars, inboundVars,
                   runnerVars, outVars, failures, restarts>>

(* The timeout job follows the row in a statement of its own.              *)
ScheduleTimeout ==
    /\ asker = "asked"
    /\ \/ /\ asker' = "registered" /\ job' = "active"
          /\ UNCHANGED <<result, failures>>
       \/ /\ Fail
          /\ asker' = "done" /\ result' = "error"
          /\ UNCHANGED job
    /\ UNCHANGED <<question, wake, blocking, buffer, promptVars, inboundVars,
                   runnerVars, outVars, restarts>>

DispatchPrompt ==
    /\ asker = "registered"
    /\ \/ /\ asker' = IF blocking THEN "waiting" ELSE "done"
          /\ delivery' = "queued"
          /\ UNCHANGED failures
       \/ /\ Fail
          /\ asker' = "abandoned"
          /\ UNCHANGED delivery
    /\ UNCHANGED <<row, wake, blocking, buffer, result, prompt, inboundVars,
                   runnerVars, outVars, restarts>>

(* The prompt was not accepted: the waiter is removed, the row times out.  *)
AbandonQuestion ==
    /\ asker = "abandoned"
    /\ question' = MarkQuestionTimedOut
    /\ asker' = "done" /\ result' = "error"
    /\ UNCHANGED <<job, wake, blocking, buffer, promptVars, inboundVars,
                   runnerVars, outVars, failures, restarts>>

AskerHears ==
    /\ asker = "waiting" /\ buffer # NoResult
    /\ result' = buffer
    /\ asker' = "done"
    /\ UNCHANGED <<row, wake, blocking, buffer, promptVars, inboundVars,
                   runnerVars, outVars, failures, restarts>>

(* The deadline of the blocked caller passes, or its context is canceled.  *)
AskerExpires ==
    /\ asker = "waiting"
    /\ question' = MarkQuestionTimedOut
    /\ asker' = "expired"
    /\ UNCHANGED <<job, wake, blocking, buffer, result, promptVars,
                   inboundVars, runnerVars, outVars, failures, restarts>>

(* Mutant: a deadline that has passed is a denial.                         *)
MutTimeoutResult == "denied"

(* What the settled row says to the caller whose deadline has passed.      *)
TimeoutResult ==
    IF question.answer # NoMessage THEN question.answer.option ELSE "denied"

(* A canceled caller gets the error of its context with the result.        *)
SessionTimeoutResult ==
    /\ asker = "expired"
    /\ asker' = "done"
    /\ result' \in {TimeoutResult, "error"}
    /\ ClearControls
    /\ UNCHANGED <<row, wake, blocking, buffer, promptVars, inboundVars,
                   runnerVars, admitted, resumed, restarts>>

-----------------------------------------------------------------------------
(* The durable timeout: the one-shot job and the session actor's handler.  *)

(* MaxRetries is 0: a dispatch that fails pauses the job.                  *)
DispatchTimeoutJob ==
    /\ job = "active"
    /\ \/ job' = "dispatched" /\ wake' = "queued" /\ UNCHANGED failures
       \/ job' = "paused" /\ Fail /\ UNCHANGED wake
    /\ UNCHANGED <<question, askerVars, promptVars, inboundVars, runnerVars,
                   outVars, restarts>>

(* Mutant: the timeout command leaves the row alone.                       *)
MutTimeoutHandler ==
    /\ wake = "queued"
    /\ wake' = "done"
    /\ UNCHANGED <<row, askerVars, promptVars, inboundVars, runnerVars,
                   outVars, failures, restarts>>

(* handleScheduledQuestionTimeout marks the row ...                        *)
HandleScheduledTimeout ==
    /\ wake = "queued"
    /\ question' = MarkQuestionTimedOut
    /\ wake' = IF question.status = "pending" THEN "won" ELSE "lost"
    /\ UNCHANGED <<job, askerVars, promptVars, inboundVars, runnerVars,
                   outVars, failures, restarts>>

(* ... removes the controls, whoever settled it, ...                       *)
ClearAfterTimeout ==
    /\ wake \in {"won", "lost"}
    /\ wake' = IF wake = "won" THEN "resuming" ELSE "done"
    /\ ClearControls
    /\ UNCHANGED <<row, askerVars, promptVars, inboundVars, runnerVars,
                   admitted, resumed, restarts>>

(* ... and resumes the asker.  After an error the redelivered command      *)
(* finds the row settled and ends without a continuation.                  *)
ResumeTimedOut ==
    /\ wake = "resuming"
    /\ \/ Admit(Continuation) /\ wake' = "done" /\ UNCHANGED failures
       \/ Fail /\ wake' = "queued" /\ UNCHANGED admitted
    /\ UNCHANGED <<row, askerVars, promptVars, inboundVars, runnerVars,
                   resumed, cleaned, restarts>>

-----------------------------------------------------------------------------
(* The delivery workflow, for the part that touches the question.          *)

(* resumeSettledQuestionDelivery, then the outbox row: a row left sending  *)
(* is not sent again, a sent one is bound again if it has a message id.    *)
CheckDelivery ==
    /\ delivery = "queued"
    /\ delivery' = IF question.status = "failed" THEN "failing"
                   ELSE IF question.status \in Settled \/ prompt \in {"sending", "unnamed"}
                   THEN "done"
                   ELSE IF prompt = "sent" THEN "bind"
                   ELSE "checked"
    /\ UNCHANGED <<row, wake, askerVars, prompt, inboundVars, runnerVars,
                   outVars, failures, restarts>>

PresentPrompt ==
    /\ delivery = "checked"
    /\ delivery' = "shown" /\ prompt' = "sending"
    /\ UNCHANGED <<row, wake, askerVars, inboundVars, runnerVars, outVars,
                   failures, restarts>>

(* The provider may have had no message id to return: nothing is bound.    *)
RecordSent ==
    /\ delivery = "shown"
    /\ \/ prompt' = "sent" /\ delivery' = "bind"
       \/ prompt' = "unnamed" /\ delivery' = "done"
    /\ UNCHANGED <<row, wake, askerVars, inboundVars, runnerVars, outVars,
                   failures, restarts>>

BindDelivery ==
    /\ delivery = "bind"
    /\ question' = BindQuestionDeliveryRef
    /\ delivery' = "clear"
    /\ UNCHANGED <<job, wake, askerVars, prompt, inboundVars, runnerVars,
                   outVars, failures, restarts>>

(* Mutant: a late binding does not look at the status.                     *)
MutClearAfterBind ==
    /\ delivery = "clear"
    /\ delivery' = "done"
    /\ UNCHANGED <<row, wake, askerVars, prompt, inboundVars, runnerVars,
                   outVars, failures, restarts>>

(* A prompt bound after the settlement loses its controls at once.         *)
ClearAfterBind ==
    /\ delivery = "clear"
    /\ delivery' = "done"
    /\ IF question.status # "pending"
       THEN ClearControls
       ELSE UNCHANGED <<cleaned, failures>>
    /\ UNCHANGED <<row, wake, askerVars, prompt, inboundVars, runnerVars,
                   admitted, resumed, restarts>>

(* The provider refuses for good.                                          *)
FailDelivery ==
    /\ delivery = "checked"
    /\ question' = MarkQuestionFailed
    /\ delivery' = IF question.status \in {"pending", "failed"}
                   THEN "failing" ELSE "done"
    /\ UNCHANGED <<job, wake, askerVars, prompt, inboundVars, runnerVars,
                   outVars, failures, restarts>>

(* The redelivered command finds the failed row and publishes again.       *)
ResumeFailed ==
    /\ delivery = "failing"
    /\ \/ Admit(Continuation) /\ delivery' = "done" /\ UNCHANGED failures
       \/ Fail /\ delivery' = "queued" /\ UNCHANGED admitted
    /\ UNCHANGED <<row, wake, askerVars, prompt, inboundVars, runnerVars,
                   resumed, cleaned, restarts>>

-----------------------------------------------------------------------------
(* The channels: ResolveReplyDetailed and ResolveSelectionDetailed.        *)

(* Only the message that settled the question may replay its answer, or a  *)
(* selection of the same option by the same user.                          *)
Replays(m) ==
    /\ question.status = "answered"
    /\ question.answer.user = m.user
    /\ IF m.kind = "reply" THEN question.answer.id = m.id
                           ELSE question.answer.option = m.option

(* A reply is matched by the bound reference, a selection by its id.       *)
Arrive(m) ==
    /\ inbound[m] = "out" /\ arrivals < MaxArrivals
    /\ prompt # "none"
    /\ arrivals' = arrivals + 1
    /\ inbound' = [inbound EXCEPT ![m] =
                     IF m.kind = "reply" /\ ~question.bound THEN "out"
                     ELSE IF question.status = "pending" THEN "settle"
                     ELSE IF Replays(m) THEN "resume"
                     ELSE "out"]
    /\ IF m.kind = "selection" /\ question.status # "pending"
       THEN ClearControls
       ELSE UNCHANGED <<cleaned, failures>>
    /\ UNCHANGED <<row, wake, askerVars, promptVars, runnerVars, admitted,
                   resumed, restarts>>

SettleAnswer(m) ==
    /\ inbound[m] = "settle"
    /\ question' = MarkQuestionAnswered(m)
    /\ inbound' = [inbound EXCEPT ![m] =
                     IF question.status = "pending" THEN "won" ELSE "lost"]
    /\ UNCHANGED <<job, wake, askerVars, promptVars, arrivals, runnerVars,
                   outVars, failures, restarts>>

(* A selection that lost clears the controls too; a reply does not.        *)
AfterSettlement(m) ==
    /\ inbound[m] \in {"won", "lost"}
    /\ inbound' = [inbound EXCEPT ![m] = IF Replays(m) THEN "resume" ELSE "out"]
    /\ IF inbound[m] = "won" \/ m.kind = "selection"
       THEN ClearControls
       ELSE UNCHANGED <<cleaned, failures>>
    /\ UNCHANGED <<row, wake, askerVars, promptVars, arrivals, runnerVars,
                   admitted, resumed, restarts>>

(* A failed dispatch is left to the question outbox.                       *)
ResumeAnswered(m) ==
    /\ inbound[m] = "resume"
    /\ inbound' = [inbound EXCEPT ![m] = "out"]
    /\ \/ Admit(Continuation) /\ UNCHANGED failures
       \/ Fail /\ UNCHANGED admitted
    /\ UNCHANGED <<row, wake, askerVars, promptVars, arrivals, runnerVars,
                   resumed, cleaned, restarts>>

-----------------------------------------------------------------------------
(* The question outbox: Flush, admit and ConfirmAnswerAdmission.           *)

(* Mutant: only the markers are confirmed, nothing is published.           *)
MutFlush ==
    /\ runner = "idle"
    /\ question.status = "answered"
    /\ question.continuation \/ question.controls
    /\ runner' = "confirm"
    /\ UNCHANGED <<row, wake, askerVars, promptVars, inboundVars, seen,
                   outVars, failures, restarts>>

Flush ==
    /\ runner = "idle"
    /\ question.status = "answered"
    /\ question.continuation \/ question.controls
    /\ runner' = IF question.continuation THEN "dispatch" ELSE "confirm"
    /\ UNCHANGED <<row, wake, askerVars, promptVars, inboundVars, seen,
                   outVars, failures, restarts>>

RecoverAnswered ==
    /\ runner = "dispatch"
    /\ \/ Admit(Continuation) /\ runner' = "confirm" /\ UNCHANGED failures
       \/ Fail /\ runner' = "idle" /\ UNCHANGED admitted
    /\ UNCHANGED <<row, wake, askerVars, promptVars, inboundVars, seen,
                   resumed, cleaned, restarts>>

ConfirmAnswerAdmission ==
    /\ runner = "confirm"
    /\ question' = [question EXCEPT !.continuation = FALSE]
    /\ seen' = question.bound
    /\ runner' = IF question.controls THEN "clean" ELSE "idle"
    /\ UNCHANGED <<job, wake, askerVars, promptVars, inboundVars, outVars,
                   failures, restarts>>

PublishControlCleanup ==
    /\ runner = "clean"
    /\ \/ /\ cleaned' = (cleaned \/ seen) /\ runner' = "mark"
          /\ UNCHANGED failures
       \/ seen /\ Fail /\ runner' = "idle" /\ UNCHANGED cleaned
    /\ UNCHANGED <<row, wake, askerVars, promptVars, inboundVars, seen,
                   admitted, resumed, restarts>>

ConfirmControls ==
    /\ runner = "mark"
    /\ question' = MarkQuestionAnswerControlsCleared
    /\ runner' = "idle"
    /\ UNCHANGED <<job, wake, askerVars, promptVars, inboundVars, seen,
                   outVars, failures, restarts>>

-----------------------------------------------------------------------------
(* The question actor hands a continuation to its target.  The permission  *)
(* actor fills the buffer of a waiter that is still registered; a second   *)
(* result is dropped.                                                      *)
Resume(c) ==
    /\ resumed' = resumed \cup {c}
    /\ buffer' = IF /\ blocking
                    /\ asker \in {"registered", "waiting", "expired"}
                    /\ buffer = NoResult
                 THEN IF c.kind = "answered" THEN c.answer.option ELSE "denied"
                 ELSE buffer
    /\ UNCHANGED <<row, wake, asker, blocking, result, promptVars,
                   inboundVars, runnerVars, admitted, cleaned, failures,
                   restarts>>

(* A restart.  Waiters, handlers and the runner are gone; commands are     *)
(* delivered again; reconcileConfiguredJobs deletes the internal jobs.     *)
Restart ==
    /\ restarts < MaxRestarts
    /\ restarts' = restarts + 1
    /\ job' = IF job = "none" THEN "none" ELSE "deleted"
    /\ wake' = IF wake \in {"won", "lost", "resuming"} THEN "queued" ELSE wake
    /\ asker' = IF asker = "idle" THEN "idle" ELSE "done"
    /\ buffer' = NoResult
    /\ delivery' = IF delivery \in {"none", "done"} THEN delivery ELSE "queued"
    /\ inbound' = [m \in Messages |-> "out"]
    /\ runner' = "idle"
    /\ UNCHANGED <<question, blocking, result, prompt, arrivals, seen,
                   outVars, failures>>

-----------------------------------------------------------------------------
Init ==
    /\ question = [status |-> "none", answer |-> NoMessage,
                   continuation |-> FALSE, controls |-> FALSE, bound |-> FALSE]
    /\ job = "none" /\ wake = "none"
    /\ asker = "idle" /\ blocking = FALSE
    /\ buffer = NoResult /\ result = NoResult
    /\ delivery = "none" /\ prompt = "none"
    /\ inbound = [m \in Messages |-> "out"]
    /\ arrivals = 0
    /\ runner = "idle" /\ seen = FALSE
    /\ admitted = {} /\ resumed = {}
    /\ cleaned = FALSE
    /\ failures = 0 /\ restarts = 0

Asker == \/ \E b \in BOOLEAN : CreatePendingQuestion(b)
         \/ ScheduleTimeout \/ DispatchPrompt \/ AbandonQuestion
         \/ AskerHears \/ AskerExpires \/ SessionTimeoutResult
Timeouts == \/ DispatchTimeoutJob \/ HandleScheduledTimeout
            \/ ClearAfterTimeout \/ ResumeTimedOut
Workflow == \/ CheckDelivery \/ PresentPrompt \/ RecordSent
            \/ BindDelivery \/ ClearAfterBind \/ FailDelivery \/ ResumeFailed
Channel(m) == Arrive(m) \/ SettleAnswer(m) \/ AfterSettlement(m)
              \/ ResumeAnswered(m)
Runner == \/ Flush \/ RecoverAnswered \/ ConfirmAnswerAdmission
          \/ PublishControlCleanup \/ ConfirmControls

Next ==
    \/ Asker \/ Timeouts \/ Workflow \/ Runner \/ Restart
    \/ \E m \in Messages : Channel(m)
    \/ \E c \in admitted : Resume(c)

Spec == Init /\ [][Next]_vars

FairSpec == /\ Spec
            /\ WF_vars(Timeouts) /\ WF_vars(Workflow) /\ WF_vars(Runner)
            /\ WF_vars(\E c \in admitted : Resume(c))
            /\ \A m \in Messages :
                 WF_vars(SettleAnswer(m) \/ AfterSettlement(m)
                         \/ ResumeAnswered(m))

-----------------------------------------------------------------------------
(* Every variable stays in its domain; the row has an answer exactly when  *)
(* it is answered, and the recovery markers belong to an answer.           *)
TypeOK ==
    /\ question \in Questions
    /\ (question.answer # NoMessage) <=> (question.status = "answered")
    /\ question.continuation => question.controls
    /\ question.controls => question.status = "answered"
    /\ job \in {"none", "active", "dispatched", "paused", "deleted"}
    /\ wake \in {"none", "queued", "won", "lost", "resuming", "done"}
    /\ asker \in {"idle", "asked", "registered", "waiting", "expired",
                  "abandoned", "done"}
    /\ blocking \in BOOLEAN
    /\ buffer \in Options \cup {"denied", NoResult}
    /\ result \in Options \cup {"denied", "error", NoResult}
    /\ delivery \in {"none", "queued", "checked", "shown", "bind", "clear",
                     "failing", "done"}
    /\ prompt \in {"none", "sending", "sent", "unnamed"}
    /\ inbound \in [Messages -> {"out", "settle", "won", "lost", "resume"}]
    /\ arrivals \in 0 .. MaxArrivals
    /\ runner \in {"idle", "dispatch", "confirm", "clean", "mark"}
    /\ seen \in BOOLEAN
    /\ admitted \subseteq Continuations /\ resumed \subseteq admitted
    /\ cleaned \in BOOLEAN
    /\ failures \in 0 .. MaxFailures /\ restarts \in 0 .. MaxRestarts

(* The first settlement wins for everyone: whatever order answers, the     *)
(* timeout job, the caller's deadline, a refused delivery, their retries   *)
(* and a restart come in, every continuation that was ever admitted says   *)
(* what the row says, so two of them never disagree (MarkQuestionAnswered, *)
(* MarkQuestionTimedOut, MarkQuestionFailed and the replay rules).         *)
OneOutcome == \A c \in admitted : c = Continuation

(* What AskSession returns to a blocked permission review without an error *)
(* agrees with the row: an option only if that option is the recorded      *)
(* answer, a denial only if the question was not answered, also when the   *)
(* deadline races the answer (sessionTimeoutResult).                       *)
CallerAgrees ==
    /\ result \in Options => /\ question.status = "answered"
                             /\ question.answer.option = result
    /\ result = "denied" => question.status \in {"timed_out", "failed"}

(* The controls marker of an answer is lowered only when nothing is left   *)
(* to clean: a prompt that is bound at any time around the answer has its  *)
(* cleanup admitted (BindQuestionDeliveryRef and the reference that        *)
(* MarkQuestionAnswerControlsCleared compares).                            *)
NoControlsForgotten ==
    question.status = "answered" /\ ~question.controls /\ question.bound
        => cleaned

(* Without a failed call or a restart, a timed-out question keeps no       *)
(* controls: the timeout and a late binding race, and one of them cleans   *)
(* (Timeout and BindDelivery).                                             *)
TimeoutCleansControls ==
    ( /\ question.status = "timed_out" /\ question.bound
      /\ failures = 0 /\ restarts = 0
      /\ delivery # "clear" /\ asker # "expired" /\ wake \notin {"won", "lost"} )
        => cleaned

(* A recorded answer reaches the asker and both markers come down for      *)
(* good, whether or not the channel's own dispatch failed or the process   *)
(* restarted (questionoutbox).                                             *)
AnswerRecovered ==
    question.status = "answered" ~>
        [](/\ Continuation \in resumed
           /\ ~question.continuation /\ ~question.controls)

(* A question whose timeout job is alive is settled, unless the job is     *)
(* paused by a failed dispatch or deleted by a restart                     *)
(* (handleScheduledQuestionTimeout).                                       *)
DeadlineHonoured ==
    job = "active" ~> (question.status \in Settled
                       \/ job \in {"paused", "deleted"})

(* A question with a deadline is settled, restarts or not.                 *)
DeadlineSurvivesRestart == job = "active" ~> question.status \in Settled
=============================================================================
