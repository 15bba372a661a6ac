--------------------------- MODULE DeliveryOutbox ---------------------------
(***************************************************************************)
(* The delivery workflow: Service.Handle of deliveryworkflow/service.go    *)
(* over the outbox rows of state/sqlite_jobs.go and the question rows of   *)
(* state/sqlite_questions.go, with the channel provider behind the         *)
(* dispatcher.  A command is one delivery envelope; the transport hands it *)
(* to Handle up to MaxDeliver times.  Commands with one delivery key share *)
(* a lane, so their Handle calls do not overlap within a process; a        *)
(* delivery that waits for the lane may start after the command is         *)
(* settled.  Every statement on the store, and every call of the provider, *)
(* is one action.                                                          *)
(***************************************************************************)
EXTENDS Naturals, FiniteSets

CONSTANTS
    Commands,    \* delivery envelopes
    KeyOf,       \* command -> delivery key (the envelope's DedupeKey)
    HashOf,      \* command -> hash of its payload
    Durable,     \* the commands for which RequiresOutbox holds
    Questions,   \* questions
    NoQuestion,
    QuestionOf,  \* command -> its question_id ref, or NoQuestion
    MaxDeliver,  \* max_deliver of the command consumer
    MaxFailures, \* bound: store and dispatch errors
    MaxCrashes   \* bound: process crashes

ASSUME OutboxAssumption ==
    /\ Durable \subseteq Commands
    /\ NoQuestion \notin Questions
    /\ QuestionOf \in [Commands -> Questions \cup {NoQuestion}]
    /\ \A c \in Commands \ Durable : QuestionOf[c] = NoQuestion
    /\ MaxDeliver \in Nat \ {0}
    /\ MaxFailures \in Nat
    /\ MaxCrashes \in Nat

Keys == {KeyOf[c] : c \in Commands}
NoHash == "none"

(* The keys that only commands through the outbox claim: a bypassing       *)
(* command calls the provider whatever the row says.                       *)
DurableKeys == {k \in Keys : \A c \in Commands : KeyOf[c] = k => c \in Durable}

VARIABLES
    row,          \* key -> its row of execution_delivery_outbox
    question,     \* question -> status
    bound,        \* questions with a provider message reference
    continued,    \* questions whose QuestionFailed continuation is published
    at,           \* command -> control point of its Handle call
    outcome,      \* command -> what the provider call returned
    attempts,     \* command -> deliveries so far
    waiting,      \* command -> deliveries that wait for the lane
    settled,      \* command -> "open", "acked" or "dead"
    \* history, of the durable keys:
    calls,        \* key -> provider calls
    shown,        \* key -> the calls the provider accepted
    unsure,       \* keys with an ambiguous call
    unclassified, \* key -> accepted calls that an adapter did not classify
    failures,
    crashes

storeVars == <<row, question, bound, continued>>
handlerVars == <<at, outcome, attempts, waiting, settled>>
historyVars == <<calls, shown, unsure, unclassified>>
boundVars == <<failures, crashes>>
vars == <<storeVars, handlerVars, historyVars, boundVars>>

(* A provider call is accepted or not; "ambiguous" and "unclassified"      *)
(* errors say nothing about it.  An adapter may have no message id to      *)
(* return for a call that succeeded: "unnamed".                            *)
Successes == {"ok", "unnamed"}
Outcomes ==
    [class : Successes, accepted : {TRUE}]
    \cup [class : {"retryable", "permanent"}, accepted : {FALSE}]
    \cup [class : {"ambiguous", "unclassified"}, accepted : BOOLEAN]

Asks(c) == QuestionOf[c] # NoQuestion

(* A store statement, or a publication, fails: nothing is written. *)
Fails ==
    /\ failures < MaxFailures
    /\ failures' = failures + 1
    /\ UNCHANGED <<storeVars, crashes>>

GoTo(c, p) ==
    /\ at' = [at EXCEPT ![c] = p]
    /\ UNCHANGED <<outcome, attempts, waiting, settled>>

(* How the command may stand when a Handle call of it has returned nil, a  *)
(* retryable error or a permanent one: the settlement may fail, the call   *)
(* may not have been the last delivery, and what is settled stays so.      *)
Settlements(c, how) ==
    IF settled[c] # "open" THEN {settled[c]}
    ELSE {"open"} \cup (IF how = "ok" THEN {"acked"}
                       ELSE IF how = "permanent" \/ attempts[c] >= MaxDeliver
                       THEN {"dead"} ELSE {})

Return(c, how) ==
    /\ at' = [at EXCEPT ![c] = "idle"]
    /\ outcome' = [outcome EXCEPT ![c] = "none"]
    /\ \E s \in Settlements(c, how) : settled' = [settled EXCEPT ![c] = s]
    /\ UNCHANGED <<attempts, waiting>>

-----------------------------------------------------------------------------
LaneFree(c) == \A d \in Commands : KeyOf[d] = KeyOf[c] => at[d] = "idle"

(* A command is fetched, also while Handle works on it, once ack_wait has  *)
(* passed.                                                                 *)
Fetch(c) ==
    /\ settled[c] = "open"
    /\ attempts[c] < MaxDeliver
    /\ attempts' = [attempts EXCEPT ![c] = @ + 1]
    /\ \/ /\ LaneFree(c)
          /\ at' = [at EXCEPT ![c] = "check"]
          /\ UNCHANGED waiting
       \/ /\ ~LaneFree(c)
          /\ waiting' = [waiting EXCEPT ![c] = @ + 1]
          /\ UNCHANGED at
    /\ UNCHANGED <<storeVars, outcome, settled, historyVars, boundVars>>

(* A delivery gets the lane: what has become of its command is not asked.  *)
EnterLane(c) ==
    /\ waiting[c] > 0
    /\ LaneFree(c)
    /\ waiting' = [waiting EXCEPT ![c] = @ - 1]
    /\ at' = [at EXCEPT ![c] = "check"]
    /\ UNCHANGED <<storeVars, outcome, attempts, settled, historyVars,
                   boundVars>>

(* Mutant: a failed question is settled like an answered one. *)
MutSuppressedFailed == {"answered", "timed_out", "failed"}

(* The statuses on which a retried prompt is dropped without more ado. *)
Suppressed == {"answered", "timed_out"}

(* resumeSettledQuestionDelivery *)
CheckQuestion(c) ==
    LET q == QuestionOf[c] IN
    /\ at[c] = "check"
    /\ \/ /\ Asks(c) => question[q] = "pending"
          /\ GoTo(c, IF c \in Durable THEN "reserve" ELSE "prepare")
          /\ UNCHANGED <<storeVars, boundVars>>
       \/ /\ Asks(c) /\ question[q] = "failed"
          /\ GoTo(c, "continue")
          /\ UNCHANGED <<storeVars, boundVars>>
       \/ /\ Asks(c) /\ question[q] \in Suppressed
          /\ Return(c, "ok")
          /\ UNCHANGED <<storeVars, boundVars>>
       \/ Asks(c) /\ Fails /\ Return(c, "retry")
    /\ UNCHANGED historyVars

(* dispatchQuestionContinuation *)
Continue(c) ==
    /\ at[c] = "continue"
    /\ \/ /\ continued' = continued \cup {QuestionOf[c]}
          /\ Return(c, "ok")
          /\ UNCHANGED <<row, question, bound, boundVars>>
       \/ Fails /\ Return(c, "retry")
    /\ UNCHANGED historyVars

(* Mutant: a row left in sending is tried again. *)
MutReadyIfSending(r) ==
    \/ r.status = "sending"
    \/ r.status = "pending" /\ ~r.recent
    \/ r.status = "failed" /\ r.error # "permanent"

ReadyForAttempt(r) ==
    \/ r.status = "pending" /\ ~r.recent
    \/ r.status = "failed" /\ r.error # "permanent"

(* Mutant: the hash of the reserved payload is not compared. *)
MutNoConflict(r, c) == FALSE

Conflict(r, c) == r.hash # HashOf[c]

(* ReserveDelivery, then the decisions on the row it read back. *)
Reserve(c) ==
    LET r == row[KeyOf[c]] IN
    /\ at[c] = "reserve"
    /\ \/ /\ r.status = "none"
          /\ row' = [row EXCEPT ![KeyOf[c]] =
                [status |-> "pending", hash |-> HashOf[c], error |-> "none",
                 recent |-> TRUE, ref |-> FALSE]]
          /\ GoTo(c, "prepare")
          /\ UNCHANGED <<question, bound, continued, boundVars>>
       \/ /\ r.status # "none"
          /\ \/ Conflict(r, c) /\ Return(c, "permanent")
             \/ /\ ~Conflict(r, c)
                /\ \/ r.status = "sent" /\ GoTo(c, "bind")
                   \/ /\ r.status = "failed" /\ r.error = "permanent"
                      /\ Return(c, "ok")
                   \/ ReadyForAttempt(r) /\ GoTo(c, "prepare")
                   \/ /\ \/ r.status = "sending"
                         \/ r.status = "pending" /\ r.recent
                      /\ Return(c, "retry")
          /\ UNCHANGED <<storeVars, boundVars>>
       \/ Fails /\ Return(c, "retry")
    /\ UNCHANGED historyVars

(* MarkDeliverySending and MarkDeliveryFailed *)
SetRow(k, status, error) ==
    /\ row' = [row EXCEPT ![k].status = status, ![k].error = error,
                          ![k].recent = FALSE]
    /\ UNCHANGED <<question, bound, continued, boundVars>>

(* MarkDeliverySent, with the provider's message id, if there is one *)
MarkDeliverySent(k, named) ==
    /\ row' = [row EXCEPT ![k].status = "sent", ![k].error = "none",
                          ![k].recent = FALSE, ![k].ref = named]
    /\ UNCHANGED <<question, bound, continued, boundVars>>

(* prepareDelivery: a payload that cannot be formatted is a permanent      *)
(* failure.                                                                *)
Prepare(c) ==
    /\ at[c] = "prepare"
    /\ \/ /\ GoTo(c, IF c \in Durable THEN "mark" ELSE "send")
          /\ UNCHANGED <<storeVars, boundVars>>
       \/ /\ c \notin Durable
          /\ Return(c, "permanent")
          /\ UNCHANGED <<storeVars, boundVars>>
       \/ /\ c \in Durable
          /\ SetRow(KeyOf[c], "failed", "permanent")
          /\ Return(c, "permanent")
       \/ c \in Durable /\ Fails /\ Return(c, "retry")
    /\ UNCHANGED historyVars

(* Mutant: the provider is called with the row still pending. *)
MutSendUnmarked(c) ==
    /\ at[c] = "mark"
    /\ GoTo(c, "send")
    /\ UNCHANGED <<storeVars, historyVars, boundVars>>

MarkDeliverySending(c) ==
    /\ at[c] = "mark"
    /\ \/ SetRow(KeyOf[c], "sending", "none") /\ GoTo(c, "send")
       \/ Fails /\ Return(c, "retry")
    /\ UNCHANGED historyVars

(* dispatcher.Dispatch *)
Send(c, o) ==
    LET k == KeyOf[c]
        counts == k \in DurableKeys
    IN
    /\ at[c] = "send"
    /\ at' = [at EXCEPT ![c] = "record"]
    /\ outcome' = [outcome EXCEPT ![c] = o.class]
    /\ calls' = IF counts THEN [calls EXCEPT ![k] = @ + 1] ELSE calls
    /\ shown' = IF counts /\ o.accepted
                THEN [shown EXCEPT ![k] = @ \cup {<<calls[k] + 1, HashOf[c]>>}]
                ELSE shown
    /\ unsure' = IF counts /\ o.class = "ambiguous"
                 THEN unsure \cup {k} ELSE unsure
    /\ unclassified' = IF counts /\ o.class = "unclassified" /\ o.accepted
                       THEN [unclassified EXCEPT ![k] = @ + 1]
                       ELSE unclassified
    /\ UNCHANGED <<storeVars, attempts, waiting, settled, boundVars>>

(* Which error of the provider call fails the question at once. *)
AfterError(c) ==
    IF outcome[c] \in {"retryable", "ambiguous"} THEN Return(c, "retry")
    ELSE GoTo(c, "failQuestion")

(* The statement after the provider call: none for an ambiguous error or a *)
(* bypass, MarkDeliverySent, or MarkDeliveryFailed whose error is ignored. *)
RecordOutcome(c) ==
    LET k == KeyOf[c]
        class == IF outcome[c] = "unclassified" THEN "ambiguous" ELSE outcome[c]
    IN
    /\ at[c] = "record"
    /\ \/ /\ outcome[c] \in Successes
          /\ \/ /\ c \in Durable
                /\ MarkDeliverySent(k, outcome[c] = "ok")
                /\ GoTo(c, "bind")
             \/ c \in Durable /\ Fails /\ Return(c, "retry")
             \/ /\ c \notin Durable
                /\ GoTo(c, "bind")
                /\ UNCHANGED <<storeVars, boundVars>>
       \/ /\ outcome[c] \notin Successes
          /\ c \in Durable => outcome[c] = "ambiguous"
          /\ AfterError(c)
          /\ UNCHANGED <<storeVars, boundVars>>
       \/ /\ outcome[c] \notin Successes \cup {"ambiguous"} /\ c \in Durable
          /\ SetRow(k, "failed", class) \/ Fails
          /\ AfterError(c)
    /\ UNCHANGED historyVars

(* failQuestionDelivery and FailDelivery, and the return that follows when *)
(* there is no question to fail.                                           *)
FailQuestion(c) ==
    LET q == QuestionOf[c]
        unhandled == IF outcome[c] = "permanent" THEN "permanent" ELSE "retry"
    IN
    /\ at[c] = "failQuestion"
    /\ \/ /\ Asks(c) => question[q] \in {"answered", "timed_out"}
          /\ Return(c, unhandled)
          /\ UNCHANGED <<storeVars, boundVars>>
       \/ /\ Asks(c) /\ question[q] \in {"pending", "failed"}
          /\ question' = [question EXCEPT ![q] = "failed"]
          /\ GoTo(c, "continue")
          /\ UNCHANGED <<row, bound, continued, boundVars>>
       \/ Asks(c) /\ Fails /\ Return(c, "retry")
    /\ UNCHANGED historyVars

(* A question whose prompt has a message id; prompts always pass through   *)
(* the outbox, so their row has it too.                                    *)
Binds(c) == Asks(c) /\ row[KeyOf[c]].ref

(* Mutant: an error of the binding is ignored. *)
MutBindIgnored(c) ==
    /\ at[c] = "bind"
    /\ \/ /\ bound' = IF Binds(c) THEN bound \cup {QuestionOf[c]} ELSE bound
          /\ Return(c, "ok")
          /\ UNCHANGED <<row, question, continued, boundVars>>
       \/ Binds(c) /\ Fails /\ Return(c, "ok")
    /\ UNCHANGED historyVars

(* bindQuestionDelivery, and the return of nil: without a message id       *)
(* nothing is bound.                                                       *)
Bind(c) ==
    /\ at[c] = "bind"
    /\ \/ /\ bound' = IF Binds(c) THEN bound \cup {QuestionOf[c]} ELSE bound
          /\ Return(c, "ok")
          /\ UNCHANGED <<row, question, continued, boundVars>>
       \/ Binds(c) /\ Fails /\ Return(c, "retry")
    /\ UNCHANGED historyVars

-----------------------------------------------------------------------------
(* A pending row turns 30 seconds old. *)
RowAges(k) ==
    /\ row[k].recent
    /\ row' = [row EXCEPT ![k].recent = FALSE]
    /\ UNCHANGED <<question, bound, continued, handlerVars, historyVars,
                   boundVars>>

(* The responder answers a prompt that can be matched, or the question's   *)
(* deadline passes.                                                        *)
Resolve(q, status) ==
    /\ question[q] = "pending"
    /\ status = "answered" => \E c \in Commands :
          QuestionOf[c] = q /\ (KeyOf[c] \in DurableKeys => shown[KeyOf[c]] # {})
    /\ question' = [question EXCEPT ![q] = status]
    /\ UNCHANGED <<row, bound, continued, handlerVars, historyVars, boundVars>>

(* The process dies; every Handle call is gone and its command unsettled.  *)
Crash ==
    /\ crashes < MaxCrashes
    /\ crashes' = crashes + 1
    /\ at' = [c \in Commands |-> "idle"]
    /\ outcome' = [c \in Commands |-> "none"]
    /\ waiting' = [c \in Commands |-> 0]
    /\ UNCHANGED <<storeVars, attempts, settled, historyVars, failures>>

Init ==
    /\ row = [k \in Keys |-> [status |-> "none", hash |-> NoHash,
                              error |-> "none", recent |-> FALSE,
                              ref |-> FALSE]]
    /\ question = [q \in Questions |-> "pending"]
    /\ bound = {}
    /\ continued = {}
    /\ at = [c \in Commands |-> "idle"]
    /\ outcome = [c \in Commands |-> "none"]
    /\ attempts = [c \in Commands |-> 0]
    /\ waiting = [c \in Commands |-> 0]
    /\ settled = [c \in Commands |-> "open"]
    /\ calls = [k \in Keys |-> 0]
    /\ shown = [k \in Keys |-> {}]
    /\ unsure = {}
    /\ unclassified = [k \in Keys |-> 0]
    /\ failures = 0
    /\ crashes = 0

Handle(c) ==
    \/ Fetch(c)
    \/ EnterLane(c)
    \/ CheckQuestion(c)
    \/ Continue(c)
    \/ Reserve(c)
    \/ Prepare(c)
    \/ MarkDeliverySending(c)
    \/ \E o \in Outcomes : Send(c, o)
    \/ RecordOutcome(c)
    \/ FailQuestion(c)
    \/ Bind(c)

Next ==
    \/ \E c \in Commands : Handle(c)
    \/ \E k \in Keys : RowAges(k)
    \/ \E q \in Questions, status \in {"answered", "timed_out"} :
          Resolve(q, status)
    \/ Crash

Spec == Init /\ [][Next]_vars

-----------------------------------------------------------------------------
Hashes == {HashOf[c] : c \in Commands}
Rows == [status : {"none", "pending", "sending", "sent", "failed"},
         hash : Hashes \cup {NoHash},
         error : {"none", "retryable", "permanent", "ambiguous"},
         recent : BOOLEAN,
         ref : BOOLEAN]
HandlePoints == {"idle", "check", "continue", "reserve", "prepare", "mark",
                 "send", "record", "failQuestion", "bind"}

(* Every variable holds a value of its type. *)
TypeOK ==
    /\ row \in [Keys -> Rows]
    /\ question \in [Questions -> {"pending", "answered", "timed_out", "failed"}]
    /\ bound \subseteq Questions
    /\ continued \subseteq Questions
    /\ at \in [Commands -> HandlePoints]
    /\ outcome \in [Commands -> {o.class : o \in Outcomes} \cup {"none"}]
    /\ attempts \in [Commands -> 0..MaxDeliver]
    /\ waiting \in [Commands -> Nat]
    /\ settled \in [Commands -> {"open", "acked", "dead"}]
    /\ calls \in [Keys -> Nat]
    /\ shown \in [Keys -> SUBSET (Nat \X Hashes)]
    /\ unsure \subseteq Keys
    /\ unclassified \in [Keys -> Nat]
    /\ failures \in 0..MaxFailures
    /\ crashes \in 0..MaxCrashes

(* Through the outbox the user sees a message once, plus once for every    *)
(* accepted call whose error an adapter did not classify: redeliveries,    *)
(* failed status updates and crashes at any statement add nothing.         *)
ShownOnce ==
    \A k \in DurableKeys : Cardinality(shown[k]) <= 1 + unclassified[k]

(* Everything shown under one delivery key is one payload, whatever        *)
(* commands claim the key.                                                 *)
OnePayloadPerKey ==
    \A k \in DurableKeys : \A m, n \in shown[k] : m[2] = n[2]

(* Once a durable send is recorded as sent, or its outcome was ambiguous,  *)
(* the provider is not called again for its key: by a retry, after a       *)
(* crash, or for another command.                                          *)
NeverResent ==
    [][\A k \in DurableKeys :
          row[k].status = "sent" \/ k \in unsure => calls'[k] = calls[k]]_vars

(* A question failed by its delivery is told to its owner before the last  *)
(* command that could tell it is acknowledged, even when the failure was   *)
(* recorded by an earlier attempt that died before publishing the          *)
(* continuation.                                                           *)
FailureContinued ==
    \A q \in Questions : question[q] = "failed" =>
        \/ q \in continued
        \/ \E c \in Commands : QuestionOf[c] = q /\ settled[c] # "acked"

(* An acknowledged prompt that is recorded as sent under a message id is   *)
(* bound to its question while the question is pending, so a reply can be  *)
(* matched: a binding that failed after the send is made up for by the     *)
(* retry, from the id in the row.                                          *)
SentPromptBound ==
    \A c \in Durable :
        /\ Asks(c)
        /\ settled[c] = "acked"
        /\ row[KeyOf[c]].status = "sent" /\ row[KeyOf[c]].ref
        /\ question[QuestionOf[c]] = "pending"
        => QuestionOf[c] \in bound

=============================================================================
