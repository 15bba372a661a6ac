---------------------------- MODULE JobLifecycle ----------------------------
(***************************************************************************)
(* The durable job record of jobs/ and state/sqlite_jobs.go: guarded       *)
(* status transitions, each in one transaction with its row in the event   *)
(* outbox; two publishers of that outbox, the best-effort call after the   *)
(* commit and the polling OutboxPublisher; the event stream, which drops   *)
(* duplicates only for a while; and the projector that fills the history.  *)
(* JetStream is external.  An event is named <<job, status, source>>: its  *)
(* id is a hash of the job, the status and what the caller passed, so a    *)
(* repeated call makes the same event.                                     *)
(***************************************************************************)
EXTENDS Naturals, FiniteSets

CONSTANTS
    Jobs,
    Callers,      \* goroutines that call the lifecycle service
    Sources,      \* what a call passes besides job and status
    Creation,     \* the source of the event job.created
    Targets,      \* bound: statuses the callers ask for
    NoEvent,
    MaxDeliver,   \* max_deliver of the event consumer
    FetchBatch,   \* messages it takes at a time
    MaxCalls,     \* bound: calls
    MaxFailures,  \* bound: statements and transport calls that fail
    MaxCrashes    \* bound: crashes

Active == {"created", "queued", "running", "waiting_for_agent",
           "waiting_for_user", "validating"}
Terminal == {"completed", "failed", "canceled", "deadlettered"}
Statuses == Active \cup Terminal
CreatedEvent(j) == <<j, "created", Creation>>
Events == {CreatedEvent(j) : j \in Jobs}
          \cup (Jobs \X (Targets \cup {"canceled"}) \X Sources)

ASSUME JobAssumption ==
    /\ Targets \subseteq Statuses \ {"created"}
    /\ NoEvent \notin Events
    /\ MaxDeliver \in Nat \ {0} /\ FetchBatch \in Nat \ {0}
    /\ MaxCalls \in Nat /\ MaxFailures \in Nat
    /\ MaxCrashes \in Nat

VARIABLES
    status,     \* job -> status column, "absent" without a row
    outbox,     \* events with a row in execution_job_event_outbox
    published,  \* the ones with published_at
    pc,         \* caller -> where its call is
    ev,         \* caller -> the event it publishes
    left,       \* caller -> jobs CancelBySession has still to cancel
    listed,     \* caller -> jobs CancelBySession listed
    listing,    \* event the poller listed and has not tried
    sent,       \* event the poller published and has not marked
    stream,     \* messages in BALDA_EVENTS the projector has not settled:
                \* deliveries made so far, and whether one is in its hands
    recent,     \* events in the duplicate window
    history,    \* events with a row in execution_job_events
    dropped,    \* events of messages terminated without success
    swept,      \* history: jobs listed by a CancelBySession that succeeded
    refused,    \* history: terminal statuses answered with the guard's error
    calls, failures, crashes

storeVars == <<status, outbox, published>>
callVars == <<pc, ev, left, listed>>
pollVars == <<listing, sent>>
streamVars == <<stream, recent>>
readVars == <<history, dropped>>
boundVars == <<calls, failures, crashes>>
vars == <<storeVars, callVars, pollVars, streamVars, readVars, swept, refused,
          boundVars>>

Fails ==
    /\ failures < MaxFailures
    /\ failures' = failures + 1
    /\ UNCHANGED <<calls, crashes>>

Succeeds == UNCHANGED boundVars

Begin(c) ==
    /\ pc[c] = "idle"
    /\ calls < MaxCalls
    /\ calls' = calls + 1
    /\ UNCHANGED <<failures, crashes>>

GoTo(c, p) == pc' = [pc EXCEPT ![c] = p]

(* A call is over: a sweep goes on with its next job, and is complete when *)
(* none is left.                                                           *)
Return(c) ==
    /\ ev' = [ev EXCEPT ![c] = NoEvent]
    /\ GoTo(c, IF left[c] = {} THEN "idle" ELSE "sweep")
    /\ listed' = [listed EXCEPT ![c] = IF left[c] = {} THEN {} ELSE @]
    /\ swept' = IF left[c] = {} THEN swept \cup listed[c] ELSE swept
    /\ UNCHANGED left

(* A call, and a sweep it belongs to, ends with an error. *)
Abort(c) ==
    /\ GoTo(c, "idle")
    /\ ev' = [ev EXCEPT ![c] = NoEvent]
    /\ left' = [left EXCEPT ![c] = {}]
    /\ listed' = [listed EXCEPT ![c] = {}]
    /\ UNCHANGED swept

-----------------------------------------------------------------------------
(* Mutant: any two statuses may follow each other. *)
MutGuardOpen(current, next) == next # "created"

(* Mutant: only a running job can be completed. *)
MutGuardStrict(current, next) ==
    \/ current = next
    \/ /\ current \notin Terminal /\ next # "created"
       /\ next = "completed" => current = "running"

(* guardJobStatusTransition *)
GuardJobStatusTransition(current, next) ==
    \/ current = next
    \/ current \notin Terminal /\ next # "created"

(* The transaction: the row of the job and, unless its id is there, the    *)
(* row of the event.                                                       *)
Commit(j, s, e) ==
    /\ status' = [status EXCEPT ![j] = s]
    /\ outbox' = outbox \cup {e}
    /\ UNCHANGED published

(* Create: the insert of an existing job is ignored, and its event is      *)
(* published once more.                                                    *)
Create(c, j) ==
    /\ Begin(c)
    /\ Commit(j, IF status[j] = "absent" THEN "created" ELSE status[j],
              CreatedEvent(j))
    /\ ev' = [ev EXCEPT ![c] = CreatedEvent(j)]
    /\ GoTo(c, "publish")
    /\ UNCHANGED <<left, listed, pollVars, streamVars, readVars, swept, refused>>

(* The store half of MarkStatus and SetResult for a job that exists.  A    *)
(* refused status that is not terminal goes back to the caller as an error. *)
Transition(c, j, s, x) ==
    /\ status[j] # "absent"
    /\ IF GuardJobStatusTransition(status[j], s)
       THEN /\ Commit(j, s, <<j, s, x>>)
            /\ GoTo(c, "publish")
            /\ ev' = [ev EXCEPT ![c] = <<j, s, x>>]
            /\ UNCHANGED <<listed, swept>>
       ELSE /\ UNCHANGED storeVars
            /\ IF s \in Terminal
               THEN /\ GoTo(c, "reread")
                    /\ ev' = [ev EXCEPT ![c] = <<j, s, x>>]
                    /\ UNCHANGED <<listed, swept>>
               ELSE Return(c)

(* MarkStatus, SetResult, CancelJob and DeadLetter differ in the columns   *)
(* they fill besides the status.                                           *)
MarkStatus(c, j, s, x) ==
    /\ Begin(c)
    /\ Transition(c, j, s, x)
    /\ UNCHANGED <<left, pollVars, streamVars, readVars, refused>>

(* suppressStaleTerminalTransition reads the job again.  When that fails   *)
(* too, the caller gets the error of the guard.                            *)
SuppressStaleTerminalTransition(c) ==
    LET j == ev[c][1] IN
    /\ pc[c] = "reread"
    /\ \/ /\ status[j] \in Terminal
          /\ Return(c)
          /\ Succeeds
          /\ UNCHANGED <<left, refused>>
       \/ /\ Abort(c)
          /\ (status[j] \notin Terminal /\ Succeeds) \/ Fails
          /\ refused' = refused \cup {ev[c]}
    /\ UNCHANGED <<storeVars, pollVars, streamVars, readVars>>

CancelBySession(c) ==
    LET active == {j \in Jobs : status[j] \in Active} IN
    /\ Begin(c)
    /\ active # {}
    /\ left' = [left EXCEPT ![c] = active]
    /\ listed' = [listed EXCEPT ![c] = active]
    /\ GoTo(c, "sweep")
    /\ UNCHANGED <<storeVars, ev, pollVars, streamVars, readVars, swept, refused>>

(* Mutant: the sweep takes a job that is already over for the end. *)
MutCancelNext(c, x) ==
    /\ pc[c] = "sweep"
    /\ \E j \in left[c] :
        IF GuardJobStatusTransition(status[j], "canceled")
        THEN /\ left' = [left EXCEPT ![c] = @ \ {j}]
             /\ Transition(c, j, "canceled", x)
        ELSE /\ left' = [left EXCEPT ![c] = {}]
             /\ GoTo(c, "reread")
             /\ ev' = [ev EXCEPT ![c] = <<j, "canceled", x>>]
             /\ UNCHANGED <<storeVars, listed, swept>>
    /\ Succeeds
    /\ UNCHANGED <<pollVars, streamVars, readVars, refused>>

(* The loop of CancelBySession: one job after the other, in any order of   *)
(* creation, until an error.                                               *)
CancelNext(c, x) ==
    /\ pc[c] = "sweep"
    /\ \/ \E j \in left[c] :
            /\ left' = [left EXCEPT ![c] = @ \ {j}]
            /\ Transition(c, j, "canceled", x)
            /\ Succeeds
       \/ Abort(c) /\ Fails /\ UNCHANGED storeVars
    /\ UNCHANGED <<pollVars, streamVars, readVars, refused>>

-----------------------------------------------------------------------------
Message(e, copy, tries, held) ==
    [event |-> e, copy |-> copy, tries |-> tries, held |-> held]

(* PublishEvent with the event's id as MsgID. *)
Accept(e) ==
    /\ recent' = recent \cup {e}
    /\ stream' = IF e \in recent THEN stream
                 ELSE stream \cup {Message(e, crashes, 0, FALSE)}

(* publishOutboxBestEffort: the event is published and marked; or the mark *)
(* fails; or the publication fails, with or without the message stored.    *)
(* Both failures are only logged.                                          *)
PublishBestEffort(c) ==
    /\ pc[c] = "publish"
    /\ \/ Accept(ev[c]) /\ published' = published \cup {ev[c]} /\ Succeeds
       \/ Accept(ev[c]) /\ UNCHANGED published /\ Fails
       \/ UNCHANGED <<streamVars, published>> /\ Fails
    /\ Return(c)
    /\ UNCHANGED <<status, outbox, pollVars, readVars, refused>>

(* Flush treats the records it listed one after the other, each with its   *)
(* own outcome, so the model follows one at a time.  What it listed may be *)
(* published and marked by its caller before its turn comes.               *)
FlushList(e) ==
    /\ listing = NoEvent /\ sent = NoEvent
    /\ e \in outbox \ published
    /\ listing' = e
    /\ UNCHANGED <<storeVars, callVars, sent, streamVars, readVars, swept,
                   refused, boundVars>>

(* Mutant: the record is marked whatever became of its publication. *)
MutFlushPublish ==
    /\ listing # NoEvent
    /\ listing' = NoEvent
    /\ sent' = listing
    /\ \/ Accept(listing) /\ Succeeds
       \/ Fails /\ (Accept(listing) \/ UNCHANGED streamVars)
    /\ UNCHANGED <<storeVars, callVars, readVars, swept, refused>>

FlushPublish ==
    /\ listing # NoEvent
    /\ listing' = NoEvent
    /\ \/ Accept(listing) /\ sent' = listing /\ Succeeds
       \/ Fails /\ (Accept(listing) \/ UNCHANGED streamVars) /\ UNCHANGED sent
    /\ UNCHANGED <<storeVars, callVars, readVars, swept, refused>>

FlushMark ==
    /\ sent # NoEvent
    /\ sent' = NoEvent
    /\ \/ published' = published \cup {sent} /\ Succeeds
       \/ UNCHANGED published /\ Fails
    /\ UNCHANGED <<status, outbox, callVars, listing, streamVars, readVars,
                   swept, refused>>

-----------------------------------------------------------------------------
(* A message whose deliveries are used up stays where it is: the stream    *)
(* has no dead letters of its own.                                         *)
RetryLeft(m) == m.tries < MaxDeliver
Exhausted(m) == ~m.held /\ ~RetryLeft(m)

Replace(m, n) == stream' = (stream \ {m}) \cup {n}
PutBack(m) == Message(m.event, m.copy, m.tries, FALSE)
Fetched(m) == Message(m.event, m.copy, m.tries + 1, TRUE)

(* RunEventConsumer fetches a message, which counts as a delivery. *)
FetchEvent(m) ==
    /\ ~m.held /\ RetryLeft(m)
    /\ Cardinality({n \in stream : n.held}) < FetchBatch
    /\ Replace(m, Fetched(m))
    /\ UNCHANGED <<storeVars, callVars, pollVars, recent, readVars, swept,
                   refused, boundVars>>

(* Project and AppendJobEvent, INSERT OR IGNORE by event id, for a         *)
(* projection that succeeds.  When DoubleAck fails the message is          *)
(* delivered again after ack_wait.                                         *)
Project(m) ==
    /\ m.held
    /\ history' = history \cup {m.event}
    /\ \/ stream' = stream \ {m} /\ Succeeds
       \/ Replace(m, PutBack(m)) /\ Fails
    /\ UNCHANGED <<storeVars, callVars, pollVars, recent, dropped, swept,
                   refused>>

(* The projection fails: NakWithDelay for a retryable error with           *)
(* deliveries left; otherwise DLQ and TermWithReason, which may fail, so   *)
(* that the message is not settled after all.                              *)
ProjectFails(m) ==
    /\ m.held
    /\ Fails
    /\ \/ Replace(m, PutBack(m)) /\ UNCHANGED dropped
       \/ stream' = stream \ {m} /\ dropped' = dropped \cup {m.event}
    /\ UNCHANGED <<storeVars, callVars, pollVars, recent, history, swept,
                   refused>>

(* What the projector held is delivered again, within max_deliver.  While  *)
(* the process is down the duplicate window of the stream may pass.        *)
Crash ==
    /\ crashes < MaxCrashes
    /\ crashes' = crashes + 1
    /\ pc' = [c \in Callers |-> "idle"]
    /\ ev' = [c \in Callers |-> NoEvent]
    /\ left' = [c \in Callers |-> {}]
    /\ listed' = [c \in Callers |-> {}]
    /\ listing' = NoEvent /\ sent' = NoEvent
    /\ stream' = {PutBack(m) : m \in stream}
    /\ recent' \in {recent, {}}
    /\ UNCHANGED <<storeVars, readVars, swept, refused, calls, failures>>

-----------------------------------------------------------------------------
(* An earlier process may have created jobs and projected the fact. *)
InitWith(known) ==
    LET past == {CreatedEvent(j) : j \in known} IN
    /\ status = [j \in Jobs |-> IF j \in known THEN "created" ELSE "absent"]
    /\ outbox = past /\ published = past
    /\ history = past

Init ==
    /\ \E known \in SUBSET Jobs : InitWith(known)
    /\ pc = [c \in Callers |-> "idle"]
    /\ ev = [c \in Callers |-> NoEvent]
    /\ left = [c \in Callers |-> {}]
    /\ listed = [c \in Callers |-> {}]
    /\ listing = NoEvent /\ sent = NoEvent
    /\ stream = {} /\ recent = {}
    /\ dropped = {}
    /\ swept = {} /\ refused = {}
    /\ calls = 0 /\ failures = 0 /\ crashes = 0

CallStep(c) ==
    \/ \E j \in Jobs :
        \/ Create(c, j)
        \/ \E s \in Targets, x \in Sources : MarkStatus(c, j, s, x)
    \/ CancelBySession(c)
    \/ \E x \in Sources : CancelNext(c, x)
    \/ SuppressStaleTerminalTransition(c)
    \/ PublishBestEffort(c)

Poll == FlushPublish \/ FlushMark \/ \E e \in outbox : FlushList(e)

Consume == \E m \in stream : FetchEvent(m) \/ Project(m) \/ ProjectFails(m)

Next ==
    \/ \E c \in Callers : CallStep(c)
    \/ Poll
    \/ Consume
    \/ Crash

Spec == Init /\ [][Next]_vars

(* The poller and the projector keep running; callers may stop anywhere.   *)
(* Flush takes the oldest rows first, so no row is passed over for ever:   *)
(* here, where calls are bounded, fairness of the loops is enough.         *)
FairSpec ==
    /\ Spec
    /\ WF_vars(Poll)
    /\ WF_vars(\E m \in stream : FetchEvent(m))
    /\ WF_vars(\E m \in stream : Project(m))

-----------------------------------------------------------------------------
(* Every variable has its type, only outbox rows are marked, and the ids   *)
(* in flight name outbox rows.                                             *)
TypeOK ==
    /\ status \in [Jobs -> Statuses \cup {"absent"}]
    /\ outbox \subseteq Events
    /\ published \subseteq outbox
    /\ pc \in [Callers -> {"idle", "publish", "reread", "sweep"}]
    /\ ev \in [Callers -> Events \cup {NoEvent}]
    /\ left \in [Callers -> SUBSET Jobs]
    /\ listed \in [Callers -> SUBSET Jobs]
    /\ listing \in outbox \cup {NoEvent}
    /\ sent \in outbox \cup {NoEvent}
    /\ stream \subseteq [event : outbox, copy : Nat, tries : 0..MaxDeliver,
                         held : BOOLEAN]
    /\ recent \subseteq outbox
    /\ history \subseteq outbox
    /\ dropped \subseteq outbox
    /\ swept \subseteq Jobs
    /\ refused \subseteq Events
    /\ calls \in 0..MaxCalls
    /\ failures \in 0..MaxFailures
    /\ crashes \in 0..MaxCrashes

(* A row marked as published is in the history, or was terminated, or is   *)
(* still on the stream and will be delivered, unless every one of its      *)
(* max_deliver deliveries was cut short: neither publisher marks what the  *)
(* stream did not take, and the duplicate window and the crashes between   *)
(* publication, mark and projection take nothing away.                     *)
NoEventLost ==
    \A e \in published :
        \/ e \in history \cup dropped
        \/ \E m \in stream :
              /\ m.event = e
              /\ Exhausted(m) => failures + crashes >= MaxDeliver

(* Every job that a successful CancelBySession saw active is over, also    *)
(* when it ended by itself between the listing and its turn in the loop.   *)
SweptIsOver == \A j \in swept : status[j] \in Terminal

(* The loser of a race between terminal statuses finds the winner when it  *)
(* looks again: it is answered with the error of the status guard only     *)
(* after a read has failed, and about a job that is over all the same.     *)
LoserIsTold ==
    /\ \A e \in refused : status[e[1]] \in Terminal
    /\ refused # {} => failures > 0

(* The events of messages that are delivered no more: no row in the        *)
(* history, and no dead letter either.                                     *)
Stuck == {m.event : m \in {n \in stream : Exhausted(n)}}

Abstract == INSTANCE JobHistory WITH
    committed <- outbox,
    rejected <- dropped \cup Stuck

(* The service implements JobHistory: terminal statuses are final, a move  *)
(* commits its event with it, and every committed event gets into the      *)
(* history or is given up, terminated by the consumer or stuck with its    *)
(* deliveries used up.                                                     *)
ImplementsHistory == Abstract!Spec
=============================================================================
