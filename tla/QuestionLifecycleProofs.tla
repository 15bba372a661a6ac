---------------------- MODULE QuestionLifecycleProofs -----------------------
(***************************************************************************)
(* Proofs about one interactive question, for every set of messages and    *)
(* options and every number of arrivals, failures and restarts: types, one *)
(* outcome for everyone, a caller that agrees with the row, and no control *)
(* left behind by an answer or a timeout.                                  *)
(***************************************************************************)
EXTENDS QuestionLifecycle, TLAPS

(* What is settled is what continuations may be admitted for; each handler *)
(* that is about to admit one has seen the settlement it speaks of.        *)
StageInv ==
    /\ asker = "idle" <=> question.status = "none"
    /\ admitted # {} => question.status \in Settled
    /\ asker = "expired" => question.status \in Settled
    /\ wake \in {"won", "resuming"} => question.status = "timed_out"
    /\ delivery = "failing" => question.status = "failed"
    /\ \A m \in Messages : inbound[m] = "resume" => question.status = "answered"
    /\ runner # "idle" => question.status = "answered"

(* What waits in the buffer of the caller agrees with the row too. *)
BufferAgrees ==
    /\ buffer \in Options => /\ question.status = "answered"
                             /\ question.answer.option = buffer
    /\ buffer = "denied" => question.status \in {"timed_out", "failed"}

(* Who still has to clean: a binding that was just made, and the outbox    *)
(* between the cleanup of a reference and the lowering of the marker.      *)
CleanInv ==
    /\ delivery = "clear" => question.bound
    /\ runner = "mark" /\ seen => cleaned
    /\ asker = "abandoned" => failures > 0

(* The timeout job fires once, and the prompt is queued once: until then   *)
(* neither has a command.                                                  *)
FreshInv ==
    /\ job \in {"none", "active"} => wake = "none"
    /\ asker \in {"idle", "asked", "registered"} => delivery = "none"
    /\ asker \in {"idle", "asked"} => job = "none"

(* The inductive invariant, relative to FreshInv. *)
Inv == /\ TypeOK /\ StageInv /\ OneOutcome /\ BufferAgrees /\ CallerAgrees
       /\ CleanInv /\ NoControlsForgotten /\ TimeoutCleansControls

-----------------------------------------------------------------------------
(* What a settled row has to say is a continuation.                        *)
LEMMA ContinuationTypes ==
  ASSUME TypeOK, question.status \in Settled
  PROVE  Continuation \in Continuations
  BY DEF TypeOK, Questions, Continuation, Continuations

(* A failed call is counted, so it is not forgotten by the properties that *)
(* speak of an undisturbed run.                                            *)
LEMMA FailCounts ==
  ASSUME TypeOK, Fail
  PROVE  failures' \in 0..MaxFailures /\ failures' > 0 /\ failures' # 0
  BY QuestionAssumption DEF TypeOK, Fail

(* The first wake-up comes from the active job and leaves it dispatched or *)
(* paused; the first delivery comes from the caller, who goes on.          *)
LEMMA FreshStep == FreshInv /\ [Next]_vars => FreshInv'
  <1>. SUFFICES ASSUME FreshInv, [Next]_vars PROVE FreshInv'
    OBVIOUS
  <1>. USE DEF FreshInv, row, askerVars, promptVars
  <1>1. CASE Asker
    <2>1. CASE \E b \in BOOLEAN : CreatePendingQuestion(b)
      BY <2>1 DEF CreatePendingQuestion
    <2>2. CASE ScheduleTimeout
      BY <2>2 DEF ScheduleTimeout
    <2>3. CASE DispatchPrompt
      <3>1. asker' \notin {"idle", "asked", "registered"}
        BY <2>3 DEF DispatchPrompt
      <3>. QED  BY <2>3, <3>1 DEF DispatchPrompt
    <2>4. CASE AbandonQuestion \/ AskerHears \/ AskerExpires \/ SessionTimeoutResult
      BY <2>4 DEF AbandonQuestion, AskerHears, AskerExpires, SessionTimeoutResult
    <2>. QED  BY <1>1, <2>1, <2>2, <2>3, <2>4 DEF Asker
  <1>2. CASE Timeouts
    BY <1>2 DEF Timeouts, DispatchTimeoutJob, HandleScheduledTimeout,
       ClearAfterTimeout, ResumeTimedOut
  <1>3. CASE Workflow
    BY <1>3 DEF Workflow, CheckDelivery, PresentPrompt, RecordSent, BindDelivery,
       ClearAfterBind, FailDelivery, ResumeFailed
  <1>4. CASE \E m \in Messages : Channel(m)
    BY <1>4 DEF Channel, Arrive, SettleAnswer, AfterSettlement, ResumeAnswered
  <1>5. CASE Runner
    BY <1>5 DEF Runner, Flush, RecoverAnswered, ConfirmAnswerAdmission,
       PublishControlCleanup, ConfirmControls
  <1>6. CASE (\E c \in admitted : Resume(c)) \/ Restart
    BY <1>6 DEF Resume, Restart
  <1>7. CASE UNCHANGED vars
    BY <1>7 DEF vars
  <1>. QED  BY <1>1, <1>2, <1>3, <1>4, <1>5, <1>6, <1>7 DEF Next

LEMMA FreshAlways == Spec => []FreshInv
  <1>1. Init => FreshInv
    BY DEF Init, FreshInv
  <1>. QED  BY <1>1, FreshStep, PTL DEF Spec

(* No question yet.                                                        *)
LEMMA InitInv == Init => Inv
  <1>. SUFFICES ASSUME Init PROVE Inv
    OBVIOUS
  <1>1. TypeOK
    <2>1. question \in Questions
      BY DEF Init, Questions
    <2>2. /\ question.answer = NoMessage /\ question.status = "none"
          /\ ~question.continuation /\ ~question.controls
      BY DEF Init
    <2>3. inbound \in [Messages -> {"out", "settle", "won", "lost", "resume"}]
      BY DEF Init
    <2>4. /\ arrivals \in 0 .. MaxArrivals /\ failures \in 0 .. MaxFailures
          /\ restarts \in 0 .. MaxRestarts
      BY QuestionAssumption DEF Init
    <2>5. admitted \subseteq Continuations /\ resumed \subseteq admitted
      BY DEF Init
    <2>6. blocking \in BOOLEAN /\ seen \in BOOLEAN /\ cleaned \in BOOLEAN
      BY DEF Init
    <2>7. /\ job = "none" /\ wake = "none" /\ asker = "idle" /\ delivery = "none"
          /\ prompt = "none" /\ runner = "idle" /\ buffer = NoResult /\ result = NoResult
      BY DEF Init
    <2>. QED  BY <2>1, <2>2, <2>3, <2>4, <2>5, <2>6, <2>7 DEF TypeOK
  <1>2. StageInv /\ OneOutcome
    BY DEF Init, StageInv, OneOutcome
  <1>3. BufferAgrees /\ CallerAgrees
    BY QuestionAssumption DEF Init, BufferAgrees, CallerAgrees
  <1>4. CleanInv /\ NoControlsForgotten /\ TimeoutCleansControls
    BY DEF Init, CleanInv, NoControlsForgotten, TimeoutCleansControls
  <1>. QED  BY <1>1, <1>2, <1>3, <1>4 DEF Inv

(* The caller: AskSession and StartSession.                                *)
LEMMA CreatePendingQuestionInv ==
  ASSUME Inv, NEW b \in BOOLEAN, CreatePendingQuestion(b)
  PROVE  Inv'
  <1>1. TypeOK'
    <2>1. question' \in Questions /\ question'.status = "pending" /\ question'.answer = NoMessage
          /\ ~question'.continuation /\ ~question'.controls
      BY DEF TypeOK, StageInv, Questions, CreatePendingQuestion, Inv
    <2>. QED  BY <2>1 DEF CreatePendingQuestion, inboundVars, promptVars, runnerVars, outVars, Inv, TypeOK
  <1>2. StageInv' /\ OneOutcome'
    BY DEF CreatePendingQuestion, inboundVars, promptVars, runnerVars, outVars, Inv, Settled,
       StageInv, OneOutcome
  <1>3. BufferAgrees' /\ CallerAgrees'
    BY DEF CreatePendingQuestion, Inv, StageInv, BufferAgrees, CallerAgrees
  <1>4. CleanInv' /\ NoControlsForgotten' /\ TimeoutCleansControls'
    BY DEF CreatePendingQuestion, promptVars, runnerVars, Inv, StageInv, CleanInv,
       NoControlsForgotten, TimeoutCleansControls
  <1>. QED  BY <1>1, <1>2, <1>3, <1>4 DEF Inv

LEMMA ScheduleTimeoutInv ==
  ASSUME Inv, ScheduleTimeout
  PROVE  Inv'
  <1>1. TypeOK'
    BY QuestionAssumption DEF ScheduleTimeout, Fail, inboundVars, promptVars, runnerVars,
       outVars, Inv, TypeOK
  <1>2. StageInv' /\ OneOutcome'
    BY DEF ScheduleTimeout, inboundVars, promptVars, runnerVars, outVars, Inv, StageInv,
       OneOutcome, Continuation
  <1>3. BufferAgrees' /\ CallerAgrees'
    BY QuestionAssumption DEF ScheduleTimeout, Inv, BufferAgrees, CallerAgrees
  <1>4. CleanInv' /\ NoControlsForgotten' /\ TimeoutCleansControls'
    BY DEF ScheduleTimeout, Fail, promptVars, runnerVars, outVars, Inv, TypeOK, CleanInv,
       NoControlsForgotten, TimeoutCleansControls
  <1>. QED  BY <1>1, <1>2, <1>3, <1>4 DEF Inv

LEMMA DispatchPromptInv ==
  ASSUME Inv, FreshInv, DispatchPrompt
  PROVE  Inv'
  <1>1. TypeOK'
    BY QuestionAssumption DEF DispatchPrompt, Fail, row, inboundVars, runnerVars, outVars, Inv,
       TypeOK
  <1>2. StageInv' /\ OneOutcome'
    BY DEF DispatchPrompt, row, inboundVars, runnerVars, outVars, Inv, StageInv, OneOutcome,
       Continuation
  <1>3. BufferAgrees' /\ CallerAgrees'
    BY DEF DispatchPrompt, row, Inv, BufferAgrees, CallerAgrees
  <1>4. /\ failures' > 0 \/ failures' = failures
        /\ asker' = "abandoned" => failures' > 0
    BY FailCounts DEF DispatchPrompt, Inv
  <1>5. CleanInv' /\ NoControlsForgotten' /\ TimeoutCleansControls'
    BY <1>1, <1>4 DEF FreshInv, DispatchPrompt, row, inboundVars, runnerVars, outVars, Inv,
       CleanInv, NoControlsForgotten, TimeoutCleansControls, TypeOK
  <1>. QED  BY <1>1, <1>2, <1>3, <1>5 DEF Inv

LEMMA AbandonQuestionInv ==
  ASSUME Inv, AbandonQuestion
  PROVE  Inv'
  <1>1. TypeOK'
    BY DEF AbandonQuestion, MarkQuestionTimedOut, inboundVars, promptVars, runnerVars, outVars,
       Inv, TypeOK, Questions, Settled
  <1>2. StageInv' /\ OneOutcome'
    BY DEF AbandonQuestion, MarkQuestionTimedOut, inboundVars, promptVars, runnerVars, outVars,
       Inv, Settled, StageInv, OneOutcome, Continuation
  <1>3. BufferAgrees' /\ CallerAgrees'
    BY QuestionAssumption DEF AbandonQuestion, MarkQuestionTimedOut, Inv, BufferAgrees,
       CallerAgrees
  <1>4. CleanInv' /\ NoControlsForgotten' /\ TimeoutCleansControls'
    BY DEF AbandonQuestion, MarkQuestionTimedOut, promptVars, runnerVars, outVars, Inv, CleanInv,
       NoControlsForgotten, TimeoutCleansControls
  <1>. QED  BY <1>1, <1>2, <1>3, <1>4 DEF Inv

LEMMA AskerHearsInv ==
  ASSUME Inv, AskerHears
  PROVE  Inv'
  <1>1. TypeOK'
    BY DEF AskerHears, row, inboundVars, promptVars, runnerVars, outVars, Inv, TypeOK
  <1>2. StageInv' /\ OneOutcome'
    BY DEF AskerHears, row, inboundVars, promptVars, runnerVars, outVars, Inv, StageInv,
       OneOutcome, Continuation
  <1>3. BufferAgrees' /\ CallerAgrees'
    BY DEF AskerHears, row, Inv, BufferAgrees, CallerAgrees
  <1>4. CleanInv' /\ NoControlsForgotten' /\ TimeoutCleansControls'
    BY DEF AskerHears, row, promptVars, runnerVars, outVars, Inv, CleanInv, NoControlsForgotten,
       TimeoutCleansControls
  <1>. QED  BY <1>1, <1>2, <1>3, <1>4 DEF Inv

LEMMA AskerExpiresInv ==
  ASSUME Inv, AskerExpires
  PROVE  Inv'
  <1>1. TypeOK'
    BY DEF AskerExpires, MarkQuestionTimedOut, inboundVars, promptVars, runnerVars, outVars, Inv,
       TypeOK, Questions, Settled
  <1>2. StageInv' /\ OneOutcome'
    BY DEF AskerExpires, MarkQuestionTimedOut, inboundVars, promptVars, runnerVars, outVars, Inv,
       TypeOK, Questions, Settled, StageInv, OneOutcome, Continuation
  <1>3. BufferAgrees' /\ CallerAgrees'
    BY DEF AskerExpires, MarkQuestionTimedOut, Inv, BufferAgrees, CallerAgrees
  <1>4. CleanInv' /\ NoControlsForgotten' /\ TimeoutCleansControls'
    BY DEF AskerExpires, MarkQuestionTimedOut, promptVars, runnerVars, outVars, Inv, CleanInv,
       NoControlsForgotten, TimeoutCleansControls
  <1>. QED  BY <1>1, <1>2, <1>3, <1>4 DEF Inv

LEMMA SessionTimeoutResultInv ==
  ASSUME Inv, SessionTimeoutResult
  PROVE  Inv'
  <1>1. TypeOK'
    BY QuestionAssumption DEF SessionTimeoutResult, TimeoutResult, ClearControls, Fail, row,
       inboundVars, promptVars, runnerVars, Inv, TypeOK, Questions
  <1>2. StageInv' /\ OneOutcome'
    BY DEF SessionTimeoutResult, row, inboundVars, promptVars, runnerVars, Inv, StageInv,
       OneOutcome, Continuation
  <1>3. BufferAgrees' /\ CallerAgrees'
    BY QuestionAssumption DEF SessionTimeoutResult, TimeoutResult, row, Inv, TypeOK, Questions,
       Settled, StageInv, BufferAgrees, CallerAgrees
  <1>4. CleanInv' /\ NoControlsForgotten' /\ TimeoutCleansControls'
    BY DEF SessionTimeoutResult, ClearControls, Fail, row, promptVars, runnerVars, Inv, TypeOK,
       Questions, CleanInv, NoControlsForgotten, TimeoutCleansControls
  <1>. QED  BY <1>1, <1>2, <1>3, <1>4 DEF Inv

(* The durable timeout and its handler.                                    *)
LEMMA DispatchTimeoutJobInv ==
  ASSUME Inv, FreshInv, DispatchTimeoutJob
  PROVE  Inv'
  <1>1. TypeOK'
    BY QuestionAssumption DEF DispatchTimeoutJob, Fail, askerVars, inboundVars, promptVars,
       runnerVars, outVars, Inv, TypeOK
  <1>2. StageInv' /\ OneOutcome'
    BY DEF DispatchTimeoutJob, askerVars, inboundVars, promptVars, runnerVars, outVars, Inv,
       StageInv, OneOutcome, Continuation
  <1>3. BufferAgrees' /\ CallerAgrees'
    BY DEF DispatchTimeoutJob, askerVars, Inv, BufferAgrees, CallerAgrees
  <1>4. failures' > 0 \/ failures' = failures
    BY FailCounts DEF DispatchTimeoutJob, Inv
  <1>5. CleanInv' /\ NoControlsForgotten' /\ TimeoutCleansControls'
    BY <1>1, <1>4 DEF FreshInv, DispatchTimeoutJob, askerVars, inboundVars, promptVars, runnerVars, outVars, Inv,
       CleanInv, NoControlsForgotten, TimeoutCleansControls, TypeOK
  <1>. QED  BY <1>1, <1>2, <1>3, <1>5 DEF Inv

LEMMA HandleScheduledTimeoutInv ==
  ASSUME Inv, HandleScheduledTimeout
  PROVE  Inv'
  <1>1. TypeOK'
    BY DEF HandleScheduledTimeout, MarkQuestionTimedOut, askerVars, inboundVars, promptVars,
       runnerVars, outVars, Inv, TypeOK, Questions, Settled
  <1>2. StageInv' /\ OneOutcome'
    BY DEF HandleScheduledTimeout, MarkQuestionTimedOut, askerVars, inboundVars, promptVars,
       runnerVars, outVars, Inv, Settled, StageInv, OneOutcome, Continuation
  <1>3. BufferAgrees' /\ CallerAgrees'
    BY DEF HandleScheduledTimeout, MarkQuestionTimedOut, askerVars, Inv, BufferAgrees,
       CallerAgrees
  <1>4. CleanInv' /\ NoControlsForgotten' /\ TimeoutCleansControls'
    BY DEF HandleScheduledTimeout, MarkQuestionTimedOut, askerVars, promptVars, runnerVars,
       outVars, Inv, CleanInv, NoControlsForgotten, TimeoutCleansControls
  <1>. QED  BY <1>1, <1>2, <1>3, <1>4 DEF Inv

LEMMA ClearAfterTimeoutInv ==
  ASSUME Inv, ClearAfterTimeout
  PROVE  Inv'
  <1>1. TypeOK'
    BY QuestionAssumption DEF ClearAfterTimeout, ClearControls, Fail, row, askerVars,
       inboundVars, promptVars, runnerVars, Inv, TypeOK, Questions
  <1>2. StageInv' /\ OneOutcome'
    BY DEF ClearAfterTimeout, row, askerVars, inboundVars, promptVars, runnerVars, Inv, StageInv,
       OneOutcome, Continuation
  <1>3. BufferAgrees' /\ CallerAgrees'
    BY DEF ClearAfterTimeout, row, askerVars, Inv, BufferAgrees, CallerAgrees
  <1>4. CleanInv' /\ NoControlsForgotten' /\ TimeoutCleansControls'
    BY DEF ClearAfterTimeout, ClearControls, Fail, row, askerVars, promptVars, runnerVars, Inv,
       TypeOK, Questions, CleanInv, NoControlsForgotten, TimeoutCleansControls
  <1>. QED  BY <1>1, <1>2, <1>3, <1>4 DEF Inv

LEMMA ResumeTimedOutInv ==
  ASSUME Inv, ResumeTimedOut
  PROVE  Inv'
  <1>1. TypeOK'
    <2>1. Continuation \in Continuations
      BY ContinuationTypes DEF StageInv, Settled, ResumeTimedOut, Inv
    <2>. QED  BY <2>1, QuestionAssumption DEF ResumeTimedOut, Admit, Fail, row, askerVars, inboundVars,
   promptVars, runnerVars, Inv, TypeOK
  <1>2. StageInv' /\ OneOutcome'
    BY DEF ResumeTimedOut, Admit, row, askerVars, inboundVars, promptVars, runnerVars, Inv,
       Settled, StageInv, OneOutcome, Continuation
  <1>3. BufferAgrees' /\ CallerAgrees'
    BY DEF ResumeTimedOut, row, askerVars, Inv, BufferAgrees, CallerAgrees
  <1>4. CleanInv' /\ NoControlsForgotten' /\ TimeoutCleansControls'
    BY DEF ResumeTimedOut, Fail, row, askerVars, promptVars, runnerVars, Inv, TypeOK, CleanInv,
       NoControlsForgotten, TimeoutCleansControls
  <1>. QED  BY <1>1, <1>2, <1>3, <1>4 DEF Inv

(* The delivery of the prompt.                                             *)
LEMMA CheckDeliveryInv ==
  ASSUME Inv, CheckDelivery
  PROVE  Inv'
  <1>1. TypeOK'
    BY DEF CheckDelivery, row, askerVars, inboundVars, runnerVars, outVars, Inv, TypeOK
  <1>2. StageInv' /\ OneOutcome'
    BY DEF CheckDelivery, row, askerVars, inboundVars, runnerVars, outVars, Inv, StageInv,
       OneOutcome, Continuation
  <1>3. BufferAgrees' /\ CallerAgrees'
    BY DEF CheckDelivery, row, askerVars, Inv, BufferAgrees, CallerAgrees
  <1>4. CleanInv' /\ NoControlsForgotten' /\ TimeoutCleansControls'
    BY DEF CheckDelivery, row, askerVars, runnerVars, outVars, Inv, CleanInv,
       NoControlsForgotten, TimeoutCleansControls
  <1>. QED  BY <1>1, <1>2, <1>3, <1>4 DEF Inv

LEMMA PresentPromptInv ==
  ASSUME Inv, PresentPrompt
  PROVE  Inv'
  <1>1. TypeOK'
    BY DEF PresentPrompt, row, askerVars, inboundVars, runnerVars, outVars, Inv, TypeOK
  <1>2. StageInv' /\ OneOutcome'
    BY DEF PresentPrompt, row, askerVars, inboundVars, runnerVars, outVars, Inv, StageInv,
       OneOutcome, Continuation
  <1>3. BufferAgrees' /\ CallerAgrees'
    BY DEF PresentPrompt, row, askerVars, Inv, BufferAgrees, CallerAgrees
  <1>4. CleanInv' /\ NoControlsForgotten' /\ TimeoutCleansControls'
    BY DEF PresentPrompt, row, askerVars, runnerVars, outVars, Inv, CleanInv,
       NoControlsForgotten, TimeoutCleansControls
  <1>. QED  BY <1>1, <1>2, <1>3, <1>4 DEF Inv

LEMMA RecordSentInv ==
  ASSUME Inv, RecordSent
  PROVE  Inv'
  <1>1. TypeOK'
    BY DEF RecordSent, row, askerVars, inboundVars, runnerVars, outVars, Inv, TypeOK
  <1>2. StageInv' /\ OneOutcome'
    BY DEF RecordSent, row, askerVars, inboundVars, runnerVars, outVars, Inv, StageInv,
       OneOutcome, Continuation
  <1>3. BufferAgrees' /\ CallerAgrees'
    BY DEF RecordSent, row, askerVars, Inv, BufferAgrees, CallerAgrees
  <1>4. CleanInv' /\ NoControlsForgotten' /\ TimeoutCleansControls'
    BY DEF RecordSent, row, askerVars, runnerVars, outVars, Inv, CleanInv, NoControlsForgotten,
       TimeoutCleansControls
  <1>. QED  BY <1>1, <1>2, <1>3, <1>4 DEF Inv

LEMMA BindDeliveryInv ==
  ASSUME Inv, BindDelivery
  PROVE  Inv'
  <1>1. TypeOK'
    <2>1. /\ question' \in Questions /\ question'.status = question.status
          /\ question'.answer = question.answer /\ question'.continuation = question.continuation
          /\ question'.controls => question.controls \/ question.status = "answered"
          /\ question.controls => question'.controls
      BY DEF TypeOK, Questions, BindDelivery, BindQuestionDeliveryRef, Inv
    <2>. QED  BY <2>1 DEF BindDelivery, askerVars, inboundVars, runnerVars, outVars, Inv, TypeOK
  <1>2. StageInv' /\ OneOutcome'
    BY DEF BindDelivery, BindQuestionDeliveryRef, askerVars, inboundVars, runnerVars, outVars,
       Inv, StageInv, OneOutcome, Continuation
  <1>3. BufferAgrees' /\ CallerAgrees'
    BY DEF BindDelivery, BindQuestionDeliveryRef, askerVars, Inv, BufferAgrees, CallerAgrees
  <1>4. CleanInv' /\ NoControlsForgotten' /\ TimeoutCleansControls'
    BY DEF BindDelivery, BindQuestionDeliveryRef, askerVars, runnerVars, outVars, Inv, CleanInv,
       NoControlsForgotten, TimeoutCleansControls
  <1>. QED  BY <1>1, <1>2, <1>3, <1>4 DEF Inv

LEMMA ClearAfterBindInv ==
  ASSUME Inv, ClearAfterBind
  PROVE  Inv'
  <1>1. TypeOK'
    BY QuestionAssumption DEF ClearAfterBind, ClearControls, Fail, row, askerVars, inboundVars,
       runnerVars, Inv, TypeOK, Questions
  <1>2. StageInv' /\ OneOutcome'
    BY DEF ClearAfterBind, row, askerVars, inboundVars, runnerVars, Inv, StageInv, OneOutcome,
       Continuation
  <1>3. BufferAgrees' /\ CallerAgrees'
    BY DEF ClearAfterBind, row, askerVars, Inv, BufferAgrees, CallerAgrees
  <1>4. CleanInv' /\ NoControlsForgotten' /\ TimeoutCleansControls'
    BY DEF ClearAfterBind, ClearControls, Fail, row, askerVars, runnerVars, Inv, TypeOK,
       Questions, CleanInv, NoControlsForgotten, TimeoutCleansControls
  <1>. QED  BY <1>1, <1>2, <1>3, <1>4 DEF Inv

LEMMA FailDeliveryInv ==
  ASSUME Inv, FailDelivery
  PROVE  Inv'
  <1>1. TypeOK'
    BY DEF FailDelivery, MarkQuestionFailed, askerVars, inboundVars, runnerVars, outVars, Inv,
       TypeOK, Questions, Settled
  <1>2. StageInv' /\ OneOutcome'
    BY DEF FailDelivery, MarkQuestionFailed, askerVars, inboundVars, runnerVars, outVars, Inv,
       Settled, StageInv, OneOutcome, Continuation
  <1>3. BufferAgrees' /\ CallerAgrees'
    BY DEF FailDelivery, MarkQuestionFailed, askerVars, Inv, BufferAgrees, CallerAgrees
  <1>4. CleanInv' /\ NoControlsForgotten' /\ TimeoutCleansControls'
    BY DEF FailDelivery, MarkQuestionFailed, askerVars, runnerVars, outVars, Inv, CleanInv,
       NoControlsForgotten, TimeoutCleansControls
  <1>. QED  BY <1>1, <1>2, <1>3, <1>4 DEF Inv

LEMMA ResumeFailedInv ==
  ASSUME Inv, ResumeFailed
  PROVE  Inv'
  <1>1. TypeOK'
    <2>1. Continuation \in Continuations
      BY ContinuationTypes DEF StageInv, Settled, ResumeFailed, Inv
    <2>. QED  BY <2>1, QuestionAssumption DEF ResumeFailed, Admit, Fail, row, askerVars, inboundVars,
   runnerVars, Inv, TypeOK
  <1>2. StageInv' /\ OneOutcome'
    BY DEF ResumeFailed, Admit, row, askerVars, inboundVars, runnerVars, Inv, Settled, StageInv,
       OneOutcome, Continuation
  <1>3. BufferAgrees' /\ CallerAgrees'
    BY DEF ResumeFailed, row, askerVars, Inv, BufferAgrees, CallerAgrees
  <1>4. CleanInv' /\ NoControlsForgotten' /\ TimeoutCleansControls'
    BY DEF ResumeFailed, Fail, row, askerVars, runnerVars, Inv, TypeOK, CleanInv,
       NoControlsForgotten, TimeoutCleansControls
  <1>. QED  BY <1>1, <1>2, <1>3, <1>4 DEF Inv

(* The channels: an answer arrives, settles, and resumes the asker.        *)
LEMMA ArriveInv ==
  ASSUME Inv, NEW m \in Messages, Arrive(m)
  PROVE  Inv'
  <1>1. TypeOK'
    BY QuestionAssumption DEF Arrive, ClearControls, Fail, row, askerVars, promptVars,
       runnerVars, Inv, TypeOK, Questions
  <1>2. StageInv' /\ OneOutcome'
    BY DEF Arrive, Replays, row, askerVars, promptVars, runnerVars, Inv, StageInv, OneOutcome,
       Continuation
  <1>3. BufferAgrees' /\ CallerAgrees'
    BY DEF Arrive, row, askerVars, Inv, BufferAgrees, CallerAgrees
  <1>4. CleanInv' /\ NoControlsForgotten' /\ TimeoutCleansControls'
    BY DEF Arrive, ClearControls, Fail, row, askerVars, promptVars, runnerVars, Inv, TypeOK,
       CleanInv, NoControlsForgotten, TimeoutCleansControls
  <1>. QED  BY <1>1, <1>2, <1>3, <1>4 DEF Inv

LEMMA SettleAnswerInv ==
  ASSUME Inv, NEW m \in Messages, SettleAnswer(m)
  PROVE  Inv'
  <1>1. TypeOK'
    <2>1. \/ question' = question
          \/ /\ question' \in Questions /\ question'.status = "answered" /\ question'.answer = m
             /\ question'.continuation /\ question'.controls
      BY DEF TypeOK, Questions, Settled, SettleAnswer, MarkQuestionAnswered, Inv
    <2>. QED  BY <2>1, QuestionAssumption DEF SettleAnswer, askerVars, promptVars, runnerVars, outVars, Inv,
   TypeOK
  <1>2. StageInv' /\ OneOutcome'
    BY DEF SettleAnswer, MarkQuestionAnswered, askerVars, promptVars, runnerVars, outVars, Inv,
       Settled, StageInv, OneOutcome, Continuation
  <1>3. BufferAgrees' /\ CallerAgrees'
    BY DEF SettleAnswer, MarkQuestionAnswered, askerVars, Inv, BufferAgrees, CallerAgrees
  <1>4. CleanInv' /\ NoControlsForgotten' /\ TimeoutCleansControls'
    BY DEF SettleAnswer, MarkQuestionAnswered, askerVars, promptVars, runnerVars, outVars, Inv,
       CleanInv, NoControlsForgotten, TimeoutCleansControls
  <1>. QED  BY <1>1, <1>2, <1>3, <1>4 DEF Inv

LEMMA AfterSettlementInv ==
  ASSUME Inv, NEW m \in Messages, AfterSettlement(m)
  PROVE  Inv'
  <1>1. TypeOK'
    BY QuestionAssumption DEF AfterSettlement, ClearControls, Fail, row, askerVars, promptVars,
       runnerVars, Inv, TypeOK, Questions
  <1>2. StageInv' /\ OneOutcome'
    BY DEF AfterSettlement, Replays, row, askerVars, promptVars, runnerVars, Inv, StageInv,
       OneOutcome, Continuation
  <1>3. BufferAgrees' /\ CallerAgrees'
    BY DEF AfterSettlement, row, askerVars, Inv, BufferAgrees, CallerAgrees
  <1>4. CleanInv' /\ NoControlsForgotten' /\ TimeoutCleansControls'
    BY DEF AfterSettlement, ClearControls, Fail, row, askerVars, promptVars, runnerVars, Inv,
       TypeOK, CleanInv, NoControlsForgotten, TimeoutCleansControls
  <1>. QED  BY <1>1, <1>2, <1>3, <1>4 DEF Inv

LEMMA ResumeAnsweredInv ==
  ASSUME Inv, NEW m \in Messages, ResumeAnswered(m)
  PROVE  Inv'
  <1>1. TypeOK'
    <2>1. Continuation \in Continuations
      BY ContinuationTypes DEF StageInv, Settled, ResumeAnswered, Inv
    <2>. QED  BY <2>1, QuestionAssumption DEF ResumeAnswered, Admit, Fail, row, askerVars, promptVars,
   runnerVars, Inv, TypeOK
  <1>2. StageInv' /\ OneOutcome'
    BY DEF ResumeAnswered, Admit, row, askerVars, promptVars, Inv, Settled, StageInv, OneOutcome,
       Continuation
  <1>3. BufferAgrees' /\ CallerAgrees'
    BY DEF ResumeAnswered, row, askerVars, Inv, BufferAgrees, CallerAgrees
  <1>4. CleanInv' /\ NoControlsForgotten' /\ TimeoutCleansControls'
    BY DEF ResumeAnswered, Fail, row, askerVars, promptVars, runnerVars, Inv, TypeOK, CleanInv,
       NoControlsForgotten, TimeoutCleansControls
  <1>. QED  BY <1>1, <1>2, <1>3, <1>4 DEF Inv

(* The question outbox.                                                    *)
LEMMA FlushInv ==
  ASSUME Inv, Flush
  PROVE  Inv'
  <1>1. TypeOK'
    BY DEF Flush, row, askerVars, inboundVars, promptVars, outVars, Inv, TypeOK
  <1>2. StageInv' /\ OneOutcome'
    BY DEF Flush, row, askerVars, promptVars, outVars, Inv, StageInv, OneOutcome, Continuation
  <1>3. BufferAgrees' /\ CallerAgrees'
    BY DEF Flush, row, askerVars, Inv, BufferAgrees, CallerAgrees
  <1>4. CleanInv' /\ NoControlsForgotten' /\ TimeoutCleansControls'
    BY DEF Flush, row, askerVars, promptVars, Inv, TypeOK, CleanInv, NoControlsForgotten,
       TimeoutCleansControls
  <1>. QED  BY <1>1, <1>2, <1>3, <1>4 DEF Inv

LEMMA RecoverAnsweredInv ==
  ASSUME Inv, RecoverAnswered
  PROVE  Inv'
  <1>1. TypeOK'
    <2>1. Continuation \in Continuations
      BY ContinuationTypes DEF StageInv, Settled, RecoverAnswered, Inv
    <2>. QED  BY <2>1, QuestionAssumption DEF RecoverAnswered, Admit, Fail, row, askerVars, inboundVars,
   promptVars, Inv, TypeOK
  <1>2. StageInv' /\ OneOutcome'
    BY DEF RecoverAnswered, Admit, row, askerVars, promptVars, Inv, Settled, StageInv,
       OneOutcome, Continuation
  <1>3. BufferAgrees' /\ CallerAgrees'
    BY DEF RecoverAnswered, row, askerVars, Inv, BufferAgrees, CallerAgrees
  <1>4. CleanInv' /\ NoControlsForgotten' /\ TimeoutCleansControls'
    BY DEF RecoverAnswered, Fail, row, askerVars, promptVars, Inv, TypeOK, CleanInv,
       NoControlsForgotten, TimeoutCleansControls
  <1>. QED  BY <1>1, <1>2, <1>3, <1>4 DEF Inv

LEMMA ConfirmAnswerAdmissionInv ==
  ASSUME Inv, ConfirmAnswerAdmission
  PROVE  Inv'
  <1>1. TypeOK'
    <2>1. question' \in Questions /\ ~question'.continuation
      BY DEF TypeOK, Questions, ConfirmAnswerAdmission, Inv
    <2>2. /\ question'.status = question.status /\ question'.answer = question.answer
          /\ question'.controls = question.controls
      BY DEF ConfirmAnswerAdmission
    <2>. QED  BY <2>1 DEF ConfirmAnswerAdmission, askerVars, inboundVars, promptVars, outVars, Inv, TypeOK,
   Questions
  <1>2. StageInv' /\ OneOutcome'
    BY DEF ConfirmAnswerAdmission, askerVars, promptVars, outVars, Inv, StageInv, OneOutcome,
       Continuation
  <1>3. BufferAgrees' /\ CallerAgrees'
    BY DEF ConfirmAnswerAdmission, askerVars, Inv, BufferAgrees, CallerAgrees
  <1>4. CleanInv' /\ NoControlsForgotten' /\ TimeoutCleansControls'
    BY DEF ConfirmAnswerAdmission, askerVars, promptVars, outVars, Inv, CleanInv,
       NoControlsForgotten, TimeoutCleansControls
  <1>. QED  BY <1>1, <1>2, <1>3, <1>4 DEF Inv

LEMMA PublishControlCleanupInv ==
  ASSUME Inv, PublishControlCleanup
  PROVE  Inv'
  <1>1. TypeOK'
    BY QuestionAssumption DEF PublishControlCleanup, Fail, row, askerVars, inboundVars,
       promptVars, Inv, TypeOK
  <1>2. StageInv' /\ OneOutcome'
    BY DEF PublishControlCleanup, row, askerVars, promptVars, Inv, StageInv, OneOutcome,
       Continuation
  <1>3. BufferAgrees' /\ CallerAgrees'
    BY DEF PublishControlCleanup, row, askerVars, Inv, BufferAgrees, CallerAgrees
  <1>4. CleanInv' /\ NoControlsForgotten' /\ TimeoutCleansControls'
    BY DEF PublishControlCleanup, Fail, row, askerVars, promptVars, Inv, TypeOK, CleanInv,
       NoControlsForgotten, TimeoutCleansControls
  <1>. QED  BY <1>1, <1>2, <1>3, <1>4 DEF Inv

LEMMA ConfirmControlsInv ==
  ASSUME Inv, ConfirmControls
  PROVE  Inv'
  <1>1. TypeOK'
    <2>1. question' \in Questions /\ question'.status = question.status
          /\ question'.answer = question.answer /\ (question'.continuation => question'.controls)
          /\ (question'.controls => question.controls)
      BY DEF TypeOK, Questions, ConfirmControls, MarkQuestionAnswerControlsCleared, Inv
    <2>. QED  BY <2>1 DEF ConfirmControls, askerVars, inboundVars, promptVars, outVars, Inv, TypeOK
  <1>2. StageInv' /\ OneOutcome'
    BY DEF ConfirmControls, MarkQuestionAnswerControlsCleared, askerVars, promptVars, outVars,
       Inv, StageInv, OneOutcome, Continuation
  <1>3. BufferAgrees' /\ CallerAgrees'
    BY DEF ConfirmControls, MarkQuestionAnswerControlsCleared, askerVars, Inv, BufferAgrees,
       CallerAgrees
  <1>4. CleanInv' /\ NoControlsForgotten' /\ TimeoutCleansControls'
    BY DEF ConfirmControls, MarkQuestionAnswerControlsCleared, askerVars, promptVars, outVars,
       Inv, CleanInv, NoControlsForgotten, TimeoutCleansControls
  <1>. QED  BY <1>1, <1>2, <1>3, <1>4 DEF Inv

(* The targets of the continuations, and a restart.                        *)
LEMMA ResumeInv ==
  ASSUME Inv, NEW c \in admitted, Resume(c)
  PROVE  Inv'
  <1>1. TypeOK'
    <2>1. c = Continuation /\ question.status \in Settled
      BY DEF StageInv, OneOutcome, Inv
    <2>2. c.kind = "answered" => c.answer.option \in Options
      BY <2>1, QuestionAssumption DEF Continuation, TypeOK, Questions, Inv
    <2>. QED  BY <2>2 DEF Resume, row, inboundVars, promptVars, runnerVars, Inv, TypeOK
  <1>2. StageInv' /\ OneOutcome'
    BY DEF Resume, row, inboundVars, promptVars, runnerVars, Inv, StageInv, OneOutcome,
       Continuation
  <1>3. BufferAgrees' /\ CallerAgrees'
    BY QuestionAssumption DEF Resume, row, Inv, TypeOK, Questions, Settled, StageInv,
       BufferAgrees, CallerAgrees, OneOutcome, Continuation
  <1>4. CleanInv' /\ NoControlsForgotten' /\ TimeoutCleansControls'
    BY DEF Resume, row, promptVars, runnerVars, Inv, CleanInv, NoControlsForgotten,
       TimeoutCleansControls
  <1>. QED  BY <1>1, <1>2, <1>3, <1>4 DEF Inv

LEMMA RestartInv ==
  ASSUME Inv, Restart
  PROVE  Inv'
  <1>1. TypeOK'
    BY QuestionAssumption DEF Restart, outVars, Inv, TypeOK
  <1>2. StageInv' /\ OneOutcome'
    BY DEF Restart, outVars, Inv, StageInv, OneOutcome, Continuation
  <1>3. BufferAgrees' /\ CallerAgrees'
    BY QuestionAssumption DEF Restart, Inv, BufferAgrees, CallerAgrees
  <1>4. CleanInv' /\ NoControlsForgotten' /\ TimeoutCleansControls'
    BY DEF Restart, outVars, Inv, TypeOK, CleanInv, NoControlsForgotten, TimeoutCleansControls
  <1>. QED  BY <1>1, <1>2, <1>3, <1>4 DEF Inv

(* A stuttering step, and every step.                                      *)
LEMMA StutterInv ==
  ASSUME Inv, UNCHANGED vars
  PROVE  Inv'
  <1>. USE DEF vars, row, askerVars, promptVars, inboundVars, runnerVars, outVars
  <1>1. TypeOK' /\ StageInv' /\ OneOutcome'
    BY DEF Inv, TypeOK, StageInv, OneOutcome, Continuation
  <1>2. BufferAgrees' /\ CallerAgrees'
    BY DEF Inv, BufferAgrees, CallerAgrees
  <1>3. CleanInv' /\ NoControlsForgotten' /\ TimeoutCleansControls'
    BY DEF Inv, CleanInv, NoControlsForgotten, TimeoutCleansControls
  <1>. QED  BY <1>1, <1>2, <1>3 DEF Inv

LEMMA NextInv == Inv /\ FreshInv /\ [Next]_vars => Inv'
  <1>. SUFFICES ASSUME Inv, FreshInv, [Next]_vars PROVE Inv'
    OBVIOUS
  <1>1. CASE Asker
    BY <1>1, CreatePendingQuestionInv, ScheduleTimeoutInv, DispatchPromptInv,
       AbandonQuestionInv, AskerHearsInv, AskerExpiresInv, SessionTimeoutResultInv DEF Asker
  <1>2. CASE Timeouts
    BY <1>2, DispatchTimeoutJobInv, HandleScheduledTimeoutInv, ClearAfterTimeoutInv,
       ResumeTimedOutInv DEF Timeouts
  <1>3. CASE Workflow
    BY <1>3, CheckDeliveryInv, PresentPromptInv, RecordSentInv, BindDeliveryInv,
       ClearAfterBindInv, FailDeliveryInv, ResumeFailedInv DEF Workflow
  <1>4. CASE \E m \in Messages : Channel(m)
    BY <1>4, ArriveInv, SettleAnswerInv, AfterSettlementInv, ResumeAnsweredInv DEF Channel
  <1>5. CASE Runner
    BY <1>5, FlushInv, RecoverAnsweredInv, ConfirmAnswerAdmissionInv,
       PublishControlCleanupInv, ConfirmControlsInv DEF Runner
  <1>6. CASE \E c \in admitted : Resume(c)
    BY <1>6, ResumeInv
  <1>7. CASE Restart
    BY <1>7, RestartInv
  <1>8. CASE UNCHANGED vars
    BY <1>8, StutterInv
  <1>. QED  BY <1>1, <1>2, <1>3, <1>4, <1>5, <1>6, <1>7, <1>8 DEF Next

-----------------------------------------------------------------------------
(* The strengthened invariant holds in every state, whatever order the     *)
(* answers, the timeout job, the prompt's delivery, the question outbox    *)
(* and restarts come in.                                                   *)
THEOREM Invariance == Spec => []Inv
  <1>. QED  BY InitInv, NextInv, FreshAlways, PTL DEF Spec

(* The row, the waiter's buffer and the handlers keep their types; in      *)
(* particular an answer is recorded exactly when the status is answered.   *)
THEOREM TypeCorrect == Spec => []TypeOK
  <1>1. Inv => TypeOK
    BY DEF Inv
  <1>. QED  BY <1>1, Invariance, PTL

(* The guarded UPDATEs of MarkQuestionAnswered, MarkQuestionTimedOut and   *)
(* MarkQuestionFailed admit one settlement, and every continuation that    *)
(* any handler, retry or recovery admits speaks of that one.               *)
THEOREM Agreement == Spec => []OneOutcome
  <1>1. Inv => OneOutcome
    BY DEF Inv
  <1>. QED  BY <1>1, Invariance, PTL

(* What AskSession returns is what the row says, also when its deadline    *)
(* races the answer that is already in its buffer.                         *)
THEOREM Caller == Spec => []CallerAgrees
  <1>1. Inv => CallerAgrees
    BY DEF Inv
  <1>. QED  BY <1>1, Invariance, PTL

(* The question outbox lowers the marker of an answered row only when the  *)
(* controls of a bound prompt were cleaned: MarkQuestionAnswerControls-    *)
(* Cleared compares the reference that was read, and a later binding       *)
(* raises the marker again.                                                *)
THEOREM ControlsCleaned == Spec => []NoControlsForgotten
  <1>1. Inv => NoControlsForgotten
    BY DEF Inv
  <1>. QED  BY <1>1, Invariance, PTL

(* A timed out question whose prompt is bound has lost its controls once   *)
(* nothing is under way, unless a call failed or the process restarted.    *)
THEOREM TimeoutCleans == Spec => []TimeoutCleansControls
  <1>1. Inv => TimeoutCleansControls
    BY DEF Inv
  <1>. QED  BY <1>1, Invariance, PTL
=============================================================================
