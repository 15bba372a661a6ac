-------------------------- MODULE CommandDelivery --------------------------
(***************************************************************************)
(* The command consumer: eventbus/nats/runtime.go (Run, handleMessage and  *)
(* the settlement of a commandMessage) with the delivery wrapper of        *)
(* execution/, between the JetStream work queue BALDA_COMMANDS and the     *)
(* actors.  An attempt <<e, n>> is the n-th delivery of envelope e and the *)
(* goroutine that handles it.  JetStream and the dispatch engine of        *)
(* go-actorlayer are external: what they do is taken from how this code    *)
(* uses them.                                                              *)
(***************************************************************************)
EXTENDS Naturals, FiniteSets

CONSTANTS
    Envelopes,    \* command envelopes
    Poison,       \* the ones DecodeEnvelope rejects
    WithJob,      \* the session commands that carry a job id
    LaneOf,       \* envelope -> actorLaneKeyFromEnvelope
    MaxDeliver,   \* max_deliver, of the consumer and of the retry policy alike
    WorkerLimit,  \* commandWorkerLimit
    MaxFailures,  \* bound: calls to the transport that fail
    MaxCrashes    \* bound: process crashes

ASSUME CommandAssumption ==
    /\ Poison \subseteq Envelopes
    /\ WithJob \subseteq Envelopes \ Poison
    /\ MaxDeliver \in Nat \ {0}
    /\ WorkerLimit \in Nat \ {0}
    /\ MaxFailures \in Nat
    /\ MaxCrashes \in Nat

VARIABLES
    stored,     \* envelopes in the work queue
    accepted,   \* envelopes ever accepted by it
    delivered,  \* envelope -> NumDelivered
    leased,     \* delivered, and neither nacked nor past ack_wait
    point,      \* attempt -> control point of its goroutine
    verdict,    \* attempt -> class of the error to settle with
    dlq,        \* envelopes with a record in BALDA_DLQ
    jobDead,    \* envelopes whose job the host marked deadlettered
    handled,    \* history: envelopes whose handler succeeded
    refused,    \* history: envelopes once settled with a terminal error
    failures,   \* failed transport calls so far
    crashes     \* crashes so far

queueVars == <<stored, accepted, delivered, leased>>
attemptVars == <<point, verdict>>
recordVars == <<dlq, jobDead, handled, refused>>
boundVars == <<failures, crashes>>
vars == <<queueVars, attemptVars, recordVars, boundVars>>

Attempts == Envelopes \X (1..MaxDeliver)
Classes == {"ok", "retryable", "terminal"}
(* Mutant: a worker is not returned to the pool. *)
MutActiveLeaks(a) == point[a] # "none"

Active(a) == point[a] \notin {"none", "done"}

GoTo(a, p) == point' = [point EXCEPT ![a] = p]

(* The goroutine of a ends, and its local state with it. *)
Done(a) ==
    /\ GoTo(a, "done")
    /\ verdict' = [verdict EXCEPT ![a] = "ok"]

(* A call to the transport fails, within the bound. *)
Fails ==
    /\ failures < MaxFailures
    /\ failures' = failures + 1
    /\ UNCHANGED crashes

-----------------------------------------------------------------------------
Dispatch(e) ==
    /\ e \notin accepted
    /\ accepted' = accepted \cup {e}
    /\ stored' = stored \cup {e}
    /\ UNCHANGED <<delivered, leased, attemptVars, recordVars, boundVars>>

(* The loop of Run: fetchSize never exceeds the free workers. *)
Fetch(e) ==
    LET a == <<e, delivered[e] + 1>> IN
    /\ e \in stored \ leased
    /\ delivered[e] < MaxDeliver
    /\ Cardinality({b \in Attempts : Active(b)}) < WorkerLimit
    /\ delivered' = [delivered EXCEPT ![e] = @ + 1]
    /\ leased' = leased \cup {e}
    /\ GoTo(a, IF e \in Poison THEN "poison" ELSE "lane")
    /\ UNCHANGED <<stored, accepted, verdict, recordVars, boundVars>>

(* ack_wait passes: a lost heartbeat, or nobody left to settle. *)
AckWait(e) ==
    /\ e \in stored \cap leased
    /\ leased' = leased \ {e}
    /\ UNCHANGED <<stored, accepted, delivered, attemptVars, recordVars,
                   boundVars>>

(* handleMessage for an undecodable message: the outcome of publishRawDLQ  *)
(* is ignored, and so is that of TermWithReason.                           *)
PoisonRecord(a) ==
    /\ point[a] = "poison"
    /\ GoTo(a, "poisonTerm")
    /\ \/ /\ dlq' = dlq \cup {a[1]}
          /\ UNCHANGED boundVars
       \/ Fails /\ UNCHANGED dlq
    /\ UNCHANGED <<queueVars, verdict, jobDead, handled, refused>>

PoisonTerm(a) ==
    /\ point[a] = "poisonTerm"
    /\ GoTo(a, "done")
    /\ \/ stored' = stored \ {a[1]} /\ UNCHANGED boundVars
       \/ Fails /\ UNCHANGED stored
    /\ UNCHANGED <<accepted, delivered, leased, verdict, recordVars>>

(* The engine runs one handler at a time in a lane. *)
Start(a) ==
    /\ point[a] = "lane"
    /\ \A b \in Attempts : LaneOf[b[1]] = LaneOf[a[1]] => point[b] # "run"
    /\ GoTo(a, "run")
    /\ UNCHANGED <<queueVars, verdict, recordVars, boundVars>>

(* The handler returns.  taskAlreadyDone: with its job in a terminal       *)
(* status a session command is acknowledged without running.               *)
HandlerReturns(a, class) ==
    /\ point[a] = "run"
    /\ a[1] \in jobDead => class = "ok"
    /\ GoTo(a, "settle")
    /\ verdict' = [verdict EXCEPT ![a] = class]
    /\ handled' = IF class = "ok" /\ a[1] \notin jobDead
                  THEN handled \cup {a[1]} ELSE handled
    /\ UNCHANGED <<queueVars, dlq, jobDead, refused, boundVars>>

(* Mutant: the attempt number is taken to start at zero. *)
MutRetryExhaustedEarly(a) == a[2] + 1 >= MaxDeliver

RetryExhausted(a) == a[2] >= MaxDeliver

(* Mutant: a retryable error without retries left is acknowledged. *)
MutSettlementDrops(a) ==
    CASE verdict[a] = "terminal" -> "deadletter"
      [] verdict[a] = "retryable" /\ ~RetryExhausted(a) -> "retry"
      [] OTHER -> "ack"

(* What settles attempt a: Ack, Retry or DeadLetter. *)
Settlement(a) ==
    CASE verdict[a] = "ok" -> "ack"
      [] verdict[a] = "retryable" /\ ~RetryExhausted(a) -> "retry"
      [] OTHER -> "deadletter"

(* A settlement call failed.  The engine's own attempt leaves the message  *)
(* unsettled and reports an error, which handleMessage classifies again;   *)
(* after that the message is left to ack_wait.                             *)
SettleFails(a) ==
    /\ Fails
    /\ \/ /\ point[a] \in {"settle", "term"}
          /\ GoTo(a, "fallback")
          /\ \E class \in {"retryable", "terminal"} :
                verdict' = [verdict EXCEPT ![a] = class]
       \/ /\ point[a] \in {"fallback", "fallbackTerm"}
          /\ Done(a)

SettlePoints == {"settle", "fallback"}

Ack(a) ==
    /\ point[a] \in SettlePoints
    /\ Settlement(a) = "ack"
    /\ \/ /\ stored' = stored \ {a[1]}
          /\ Done(a)
          /\ UNCHANGED boundVars
       \/ SettleFails(a) /\ UNCHANGED stored
    /\ UNCHANGED <<accepted, delivered, leased, recordVars>>

Retry(a) ==
    /\ point[a] \in SettlePoints
    /\ Settlement(a) = "retry"
    /\ \/ /\ leased' = leased \ {a[1]}
          /\ Done(a)
          /\ UNCHANGED boundVars
       \/ SettleFails(a) /\ UNCHANGED leased
    /\ UNCHANGED <<stored, accepted, delivered, recordVars>>

(* runtimeDelivery.DeadLetter marks the job before the transport is asked, *)
(* and an error of that is only logged; the fallback of handleMessage does *)
(* not pass through it.                                                    *)
DeadLetter(a) ==
    /\ point[a] \in SettlePoints
    /\ Settlement(a) = "deadletter"
    /\ jobDead' \in {jobDead} \cup
          (IF point[a] = "settle" THEN {jobDead \cup ({a[1]} \cap WithJob)}
           ELSE {})
    /\ refused' = IF verdict[a] = "terminal"
                  THEN refused \cup {a[1]} ELSE refused
    /\ \/ /\ dlq' = dlq \cup {a[1]}
          /\ GoTo(a, IF point[a] = "settle" THEN "term" ELSE "fallbackTerm")
          /\ UNCHANGED <<verdict, boundVars>>
       \/ SettleFails(a) /\ UNCHANGED dlq
    /\ UNCHANGED <<queueVars, handled>>

Term(a) ==
    /\ point[a] \in {"term", "fallbackTerm"}
    /\ \/ /\ stored' = stored \ {a[1]}
          /\ Done(a)
          /\ UNCHANGED boundVars
       \/ SettleFails(a) /\ UNCHANGED stored
    /\ UNCHANGED <<accepted, delivered, leased, recordVars>>

(* The process ends; its goroutines are gone. *)
Crash ==
    /\ crashes < MaxCrashes
    /\ crashes' = crashes + 1
    /\ point' = [a \in Attempts |->
          IF point[a] = "none" THEN "none" ELSE "done"]
    /\ verdict' = [a \in Attempts |-> "ok"]
    /\ UNCHANGED <<queueVars, recordVars, failures>>

-----------------------------------------------------------------------------
Init ==
    /\ stored = {}
    /\ accepted = {}
    /\ delivered = [e \in Envelopes |-> 0]
    /\ leased = {}
    /\ point = [a \in Attempts |-> "none"]
    /\ verdict = [a \in Attempts |-> "ok"]
    /\ dlq = {}
    /\ jobDead = {}
    /\ handled = {}
    /\ refused = {}
    /\ failures = 0
    /\ crashes = 0

AttemptStep(a) ==
    \/ PoisonRecord(a)
    \/ PoisonTerm(a)
    \/ Start(a)
    \/ \E class \in Classes : HandlerReturns(a, class)
    \/ Ack(a)
    \/ Retry(a)
    \/ DeadLetter(a)
    \/ Term(a)

Next ==
    \/ \E e \in Envelopes : Dispatch(e)
    \/ \E e \in Envelopes : Fetch(e)
    \/ \E e \in Envelopes : AckWait(e)
    \/ \E a \in Attempts : AttemptStep(a)
    \/ Crash

Spec == Init /\ [][Next]_vars

(* Goroutines are scheduled and handlers return; ack_wait and the fetch    *)
(* loop go on for as long as the process lives or is restarted.  A lane    *)
(* and the workers are handed on, so Start and Fetch get strong fairness.  *)
FairSpec ==
    /\ Spec
    /\ \A a \in Attempts : WF_vars(AttemptStep(a)) /\ SF_vars(Start(a))
    /\ \A e \in Envelopes : SF_vars(Fetch(e)) /\ WF_vars(AckWait(e))

-----------------------------------------------------------------------------
Points == {"none", "poison", "poisonTerm", "lane", "run", "settle", "fallback",
           "term", "fallbackTerm", "done"}

(* Every variable holds a value of its type, and the work queue holds only *)
(* what it accepted.                                                       *)
TypeOK ==
    /\ accepted \subseteq Envelopes
    /\ stored \subseteq accepted
    /\ delivered \in [Envelopes -> 0..MaxDeliver]
    /\ leased \subseteq accepted
    /\ point \in [Attempts -> Points]
    /\ verdict \in [Attempts -> Classes]
    /\ dlq \subseteq Envelopes
    /\ jobDead \subseteq WithJob
    /\ handled \subseteq Envelopes \ Poison
    /\ refused \subseteq Envelopes
    /\ failures \in 0..MaxFailures
    /\ crashes \in 0..MaxCrashes

Removed == accepted \ stored

(* A decodable command leaves the work queue only once a handler has       *)
(* succeeded with it, its record is in BALDA_DLQ, or its job says it was   *)
(* dead-lettered: whatever settlement calls fail, whichever of two         *)
(* overlapping attempts settles first, and wherever the process dies.      *)
RemovedAccounted == Removed \ Poison \subseteq handled \cup dlq \cup jobDead

(* A command that never failed with a terminal error is dead-lettered only *)
(* after its last delivery: no retry is given away.                        *)
BudgetRespected ==
    \A e \in (dlq \cup jobDead) \ (Poison \cup refused) :
        delivered[e] = MaxDeliver

(* Every accepted command leaves the work queue or uses up its deliveries. *)
EventuallySettled ==
    \A e \in Envelopes :
        e \in accepted ~> \/ e \notin stored
                          \/ delivered[e] = MaxDeliver
=============================================================================
