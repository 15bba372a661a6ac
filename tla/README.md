# Balda: a TLA+ model of its durable command core

Balda runs coding agents behind chat channels. A chat message, a webhook or a
schedule becomes a durable *command envelope*; actors execute envelopes, and
what they have to say goes out through a *delivery outbox*. This directory
models the part of the program that has to be right when things happen in an
unlucky order: the outbox that accepts a command before the bus has it, the
command consumer that redelivers and dead-letters, the per-session turn mailbox
and the session actor that waits on it, the delivery workflow that must not show
a message twice, the jobs with their event history, the scheduler with its run
ledger, and the interactive questions that tie several of these together. Paths
below are relative to `internal/apps/balda/`.

## The system

| Component | State | Operations | Talks to |
|---|---|---|---|
| Turn dispatcher (`actors/turn_dispatcher.go`) | one queue per session: FIFO, running turn, wake token, pending replacement, cache of replacement results; one worker goroutine per session | `Enqueue`, `EnqueueReplacement`, `CancelSession`, `Shutdown`, worker loop with idle eviction | called by the session, control and model-change paths; calls `Run` |
| Session actor (`actors/session_actor.go`, `session_settlement.go`) | none of its own | decode, attach job, enqueue, wait for result or end of context, settle | mailbox, job lifecycle, delivery |
| Command transport (`eventbus/nats/runtime.go`, `connection.go`) | JetStream stream `BALDA_COMMANDS`, consumer with `max_deliver` and `ack_wait`, `BALDA_DLQ` | `Dispatch`, fetch loop with bounded workers, `Ack`, `Retry`, `DeadLetter`, poison handling | execution host |
| Execution host (`execution/`) | lanes of the external engine, heartbeat | lane keys, dead-letter wrapper, `Stop` | transport, actors, jobs |
| Delivery workflow (`deliveryworkflow/service.go`, `state/sqlite_jobs.go`) | rows of `execution_delivery_outbox` | reserve, prepare, mark sending, call provider, mark sent or failed | channel adapters, questions |
| Questions (`questions/`, `state/sqlite_questions.go`) | question status, provider reference, pending continuations | ask, bind, answer, time out, fail | delivery, session, permission actors |
| Jobs (`jobs/`) | job status, events, event outbox | create, mark, set result, cancel, dead-letter, publish, project | host, actors |
| Command outbox (`jobs/commandoutbox/`) | pending rows with a durable sequence number, tombstones of published and of expired commands | `Dispatch`, flush loop, expiry, collection | ingress, scheduler; command transport |
| Question outbox (`jobs/questionoutbox/`) | none of its own (markers in the question row) | flush: publish continuations, clean controls | questions, commands |
| Scheduled jobs (`scheduledjobs/`) | definitions with a cursor (`next_run_at`, `last_dispatch_key`), ledger of runs | rounds: admit, claim, publish, settle; Backoffice edits, manual runs, execution results | commands, jobs |
| Webhooks, job execution (`webhookapp/`, `jobexec/`) | admissions, finalizations | admit, execute, finalize | commands, jobs |
| Session manager (`session/`) | runtime slots, lifetimes, bindings | create, restore, replace, evict | agent runtime, mailbox |
| Session memory (`sessionmemoryapp/`) | ordered ingress outbox, worker | capture, forget, publish boundary | its own stream |
| MCP, plugins, skills, catalog, hooks, channels, HTTP, auth | see PROJECT.json | | |

What is hard here:

* **Two locks' worth of unlocked halves.** `CancelSession` and `Shutdown` take a
  snapshot under the lock and act on it afterwards, beside a worker that
  finishes turns in the same way.
* **Coalescing.** A reply can be merged into a queued batch; redeliveries attach
  to the batch that holds their key. One run answers several commands.
* **At-least-once delivery.** Every command may be delivered again, after a
  crash, a failed settlement or a passed `ack_wait`, also while its first
  attempt is still alive.
* **Provider calls that leave no trace.** A crash or a timeout around the call
  leaves the outbox row in `sending`.
* **Two writers of one row.** A job's completion, cancellation and dead-letter,
  or a question's answer, timeout and failed delivery, race; the loser must find
  out and say the same thing as the winner.
* **Two records of one fact.** Ledger and cursor of a schedule, row and tombstone
  of a command, job row and event outbox, question row and continuation are
  written one after the other, with a crash in between.
* **Partial failure** of multi-step settlements (job record, DLQ, termination;
  outbox row, question row, continuation).

## Modules

* **`TurnDispatcher`**: the mailbox. One action per locked section. `worker[s]`
  is the control point of `sessionWorker` (`next`, `wait`, `start`, `exec`,
  `finish`, `complete`); `current[s]` its local turn; `calls` the unlocked halves
  of `CancelSession` and `Shutdown`. A turn is one `queuedTurn` object, so two
  turns with one key are two deliveries of a command. Text is abstracted to the
  set of turns whose text a run would get (`Text`), message and reply ids are
  numbers, since anchors are compared by them.
* **`SessionTurns`** extends it with the handlers of `SessionActor`, the
  transport's verdict on what they return, host stop, dispatcher stop and
  process restart. A redelivery that is fetched while a handler of its command is
  at work waits on the lane `session-command:<id>` (`actor = "lane"`) and starts
  whatever became of the command meanwhile: `taskAlreadyDone` looks at job turns
  only. History variables record which commands' texts were executed
  (`handled`), cancelled by a user (`excused`), replaced in a merge
  (`overwritten`) or cut short by a delivery context or by a `Run` that reports a
  cancellation of its own (`interrupted`), and which attempts started after their
  command was acknowledged (`late`).
* **`CommandDelivery`**: the consumer. An attempt `<<e, n>>` is the goroutine of
  the n-th delivery of `e`; `point` is where it is. JetStream (redelivery, the
  lease `ack_wait`) and the lanes of `go-actorlayer` are external and modelled
  from their use. A failed settlement of the engine is followed by the fallback
  of `handleMessage`, as in the code.
* **`DeliveryOutbox`**: `Service.Handle`. Every statement on the store and every
  provider call is one action, so crashes and other commands fall in between.
  The provider accepts or not, and answers `ok`, `unnamed` (a success without a
  message id, which binds nothing), `retryable`, `permanent`, `ambiguous` or with
  an error an adapter did not classify. A delivery fetched while `Handle` is at
  work on its key waits for the lane (`waiting`) and starts even if the command
  has been settled by then.
* **`JobLifecycle`**: the job record. A caller is a goroutine inside
  `JobLifecycleService`; `pc` is where it is (`publish` after the commit, `reread`
  in `suppressStaleTerminalTransition`, `sweep` in the loop of `CancelBySession`).
  A caller whose second read fails, or finds nothing, gets the status guard's
  error (`refused`). Each transaction commits the status together with its row in
  the event outbox, which the best-effort call and the poller both drain. The
  stream drops duplicates only within its window; a crash may let the window
  pass. A message on the stream carries the number of its deliveries (`tries`)
  and whether the projector has it (`held`); after `max_deliver` of them, cut
  short by crashes or failures, it stays where it is and nobody gets it
  (`Stuck`).
* **`JobHistory`**: what a reader of jobs and history may rely on, without outbox,
  stream, callers or crashes. `JobLifecycle!Abstract` maps the outbox to the
  committed events, the rows of `execution_job_events` to the history and the
  messages given up to `rejected`: those the consumer terminated and those that
  are stuck with their deliveries used up.
* **`ScheduledRuns`**: one schedule. `pc`, `sel`, `key` and `cur` are the loop's
  place and the copies it read, which go stale while Backoffice saves edits,
  manual runs are admitted and `RecordExecution` writes back. A one-shot internal
  job takes the path without a ledger. A run whose snapshot cannot be dispatched
  fails at once (`reject`), without the retries of a failed publication. Slots
  are natural numbers, the dispatch key of a cron run is its slot.
* **`QuestionLifecycle`**: one question and everyone who may settle it: channel
  handlers (`inbound`), the timeout job and its command (`job`, `wake`), the blocked
  caller (`asker`) and the workflow that presents the prompt (`delivery`), with or
  without a message id to bind. The question outbox (`runner`) recovers answers.
  It takes the guarantees of
  `CommandDelivery` (at-least-once), `DeliveryOutbox` (no second showing) and the
  one-shot job of `ScheduledRuns` as given.
* **`CommandOutbox`**: the producer-local outbox. Everything under `d.mu` is one
  action with a variant for each point where the store can fail; the bus call,
  made without the lock, has steps of its own. The clock is three facts that
  become true at any time: a row's deadline, its next attempt, the end of a
  tombstone's retention.
* **`...Proofs`**: the theorems about the module of that name, eight in all. Each
  extends its module; `SessionTurnsProofs` also extends `TurnDispatcherProofs`,
  whose lemmas it uses for the steps of the mailbox.
* `MC*`: constants for TLC.

Definitions named `Mut...` are wrong versions of the definition they precede:
each one makes some property fail, which shows that the property depends on
that code.

## Runs

| Run | Shows | Bounds |
|---|---|---|
| `steering` | no caller is lost (`WaiterHeld`) or answered twice (`HeldOnce`), a key is admitted once, no wake-up is lost, success means a run | one session, 4 turns (a message, its reply twice, a reply to the reply), limit 2, one cancellation at a time |
| `replacement` | the boundary is exclusive, a remembered operation is not repeated | 4 turns, 2 operations, cache of 1 so that it overflows |
| `turn_liveness` | every waiter is answered, `Shutdown` drains | 3 turns, limit 1 so that refusals happen, two inputs for one operation |
| `session` | what an acknowledgement means (`AckAccounted`), and that it leaves no earlier attempt of the command behind (`NothingLeftBehind`) | 3 commands, one of them delivered twice, an interruptible delivery, queue limit 1, one fault: a cancellation, a restart or a `Run` cut short |
| `command` | nothing leaves the work queue unaccounted, no retry is given away, every message is removed or uses up its deliveries | 2 messages, 2 deliveries each, 2 workers, 2 failing calls, 1 crash |
| `outbox` | a durable message is shown once, one payload per key, never resent when sent or ambiguous, failures continued, prompts sent under a message id bound | a prompt, a command that claims its key and one that bypasses the outbox, 2 deliveries each, also late ones, 1 failing statement, 1 crash |
| `jobs` | no published event is lost while it has deliveries left (`NoEventLost`), complete sweeps, the loser of a terminal race gets the guard's error only after a failed read, refinement of `JobHistory` | 2 jobs, 2 callers, 2 calls, 2 deliveries of an event, fetched one at a time, 1 failure and 1 crash, which together use up the deliveries |
| `schedule` | one selection per key, no publication of a retired run, the cursor goes forward and follows the ledger, every run is decided | 2 ticks, 1 retry, 1 edit or manual run, 1 crash or store error |
| `questions` | one outcome for everyone, the blocked caller agrees with the row, controls are cleaned, answers are recovered, the deadline is honoured | 3 arrivals of a reply and a selection of one user, 1 failed call, 1 restart |
| `command_outbox` | order within a session, no loss, no replay after a tombstone, readmission only after retention, a decision for every command | 3 commands in 2 sessions, queue of 2, batches of 2, 3 sequence numbers, 2 store failures or restarts |

Sessions do not share state except `stopping`, so one session is enough for the
mailbox; the proofs cover any number. In `command` two deliveries
give an attempt that may be retried and a last one, which can overlap; two
failures let the engine's settlement and the fallback fail in one attempt. In
`session` faults are not combined: a restart forgets what
a cancellation has half done, and what the cancellation or the `Run` finished is
in the histories either way; the proofs have any number of them. In `outbox` two
commands share a key, so up to four attempts meet at one row. In `jobs` one
source makes a repeated call repeat the event id,
and two callers are enough for a sweep against a completion. In `schedule` two
slots give a cursor something to leave and something to reach, and one edit
covers each kind of request against each point of the loop. In `command_outbox`
three sequence numbers allow two commands and a gap, three commands, or the
readmission of a collected one; two faults are needed for a tombstone that
outlives its row's deletion and a collection cut short.
`CHECK_DEADLOCK FALSE` is used where the model ends (every turn is answered once,
deliveries, calls and failures are bounded); `command_outbox` never ends and is
checked for deadlock. `Interruptible` and the constants named `Max...` are the
bounds.

### Disagreements

Two runs check a sentence of the documentation that the code does not keep; each
is a finding in PROJECT.json.

* `lost_text`: a reply merged into a plain queued turn replaces its text, and
  the turn's command is acknowledged.
* `question_deadline`: a question's timeout job is stored as internal, and the
  scheduler deletes internal jobs when it starts, so a question that is pending
  over a restart is never timed out.

Further disagreements met while modelling. The models keep the behaviour, and
the properties name it as an exception or do not reach it:

* The end of the root's delivery context answers every constituent of its batch
  with `context.Canceled`, and their commands are acknowledged although their own
  deliveries are open (`AckAccounted` excepts texts in `interrupted`).
  `docs/architecture/actor-runtime.md:13` says they remain retryable.
* A crash, or a failed settlement, in the last delivery of a command leaves it in
  `BALDA_COMMANDS` with no delivery left and no dead letter (`EventuallySettled`
  says "removed or used up"). `docs/reference/command-runtime.md:505` says it is
  moved.
* A crash between `MarkDeliveryFailed` and `FailDelivery` leaves the question
  pending although its command is acknowledged: the retry finds the permanent row
  and returns nil. `docs/architecture/interactive-questions.md:218`
  has them as one step.
* An edit or an enable computes the next slot T, T comes due and is admitted for
  the old version, and then the request is saved. The run of the old version is
  canceled, which moves no cursor, and every later round finds that run under the
  key of the slot the new version waits at (`scheduledjobs/runs.go:25`): the
  schedule does not fire until its next edit. `docs/features/schedules.md:190`
  says it starts from the next future slot.
* A redelivery fetched after `ack_wait` waits on the lane of its command while the
  first attempt works, and is then enqueued although that attempt was
  acknowledged (`actors/session_actor.go:240`): the text can run a second time.
  `NothingLeftBehind` excepts the attempts in `late`.
* A crash or a failure in the last delivery of a job event leaves it on the
  stream with neither a history row nor a dead letter
  (`eventbus/nats/connection.go:335-340`). `ImplementsHistory` counts it among
  the rejected events (`Stuck`), and `NoEventLost` allows it only after
  `max_deliver` crashes and failures.
* A prompt that was sent without a provider message id is never bound: a reply to
  it cannot be matched and its controls stay
  (`deliveryworkflow/service.go:398-402`). `SentPromptBound` speaks of prompts
  with an id.
* The caller that loses a race between terminal statuses gets the status guard's
  error when its second read fails (`jobs/lifecycle_service.go:225-228`), although
  the job is over. `LoserIsTold` says that this takes a failed read.
* A question's timed-out continuation is lost when its dispatch fails: the
  redelivered timeout finds the row settled and ends. Its job has no retries, so
  one failed dispatch pauses it, and a failed `Upsert` in `Ask` leaves a pending
  row without any timer. `DeadlineHonoured` excepts paused and deleted jobs.
* `DeliveryBindingProjector` looks for references that delivery events do not
  carry, so only the workflow binds.
* `handleMessage` ignores the error of `publishRawDLQ` and terminates the poison
  message all the same.
* A command whose publication timed out after the bus stored it, and which then
  expires, is reported as expired although it will run.

`AckAccounted` names the losses above (texts replaced in a merge, batches ended
by a delivery context, by their `Run` or by the stop of the process) as exceptions, so it still
says that there is no third.

### Fairness

`turn_liveness` assumes weak fairness of each worker's steps (a runnable
goroutine is scheduled, `Run` returns, because provider runs have timeouts and
stop with their context) and of the unlocked halves. The idle timer, callers,
cancellations and shutdown get none. `command` assumes
that attempts make progress, that `ack_wait` passes, and strong fairness for
taking a lane or a worker, because both are handed on by others that finish;
a restarted process fetches again. No fairness is given to `Dispatch`, failures
or crashes. `jobs` assumes that the poller and the projector go on (both are
loops with a ticker or a consumer) and nothing of callers. `schedule` assumes
that the scheduler's loop goes on and that delays and leases pass, not that time
reaches another slot. `questions` and `question_deadline` assume that admitted
commands are handled, that the timeout job fires, and that the question outbox
keeps flushing; users, callers and restarts get none. `command_outbox` assumes
that the ticker keeps flushing and that time passes; the bus may refuse every
call for ever, and a command is then decided by its deadline.

## Proofs

TLC checks the instances above; TLAPS proves what follows for every value of the
constants, so for any number of sessions, turns, commands, jobs, slots, messages,
redeliveries, failing calls, crashes and restarts. Every invariant that a passing
run checks is proved, and so is every action property except
`ImplementsHistory`, of which the safety part is proved. The
argument is the same everywhere: an inductive invariant `Inv`, checked by TLC on
the instance of the run before it was proved; one lemma per action (or per kind
of step, where several actions change the same things); `Spec => []Inv`
(`Invariance`); and the properties as consequences. Every module also proves its
types (`TypeCorrect`).

| Module | Theorem | States |
|---|---|---|
| `TurnDispatcherProofs` | `WakeupNeverLost`, `ReplacementBoundary` | `NoLostWakeup`, `ReplacementIsBoundary` |
| | `NobodyForgotten`, `SingleOwner`, `KeyOnce`, `OperationOnce` | `WaiterHeld`, `HeldOnce`, `KeyAdmittedOnce`, `ReplacementFresh` |
| | `SuccessAfterRun` | the action property `SuccessOnlyAfterRun` |
| `SessionTurnsProofs` | `AckedAccounted`, `OnlyLateAttemptsRun` | `AckAccounted`, `NothingLeftBehind` |
| `CommandDeliveryProofs` | `Accounted`, `Budget` | `RemovedAccounted`, `BudgetRespected` |
| `DeliveryOutboxProofs` | `Once`, `OnePayload`, `Continuation`, `PromptBound` | `ShownOnce`, `OnePayloadPerKey`, `FailureContinued`, `SentPromptBound` |
| | `NoSecondCall` | the action property `NeverResent` |
| `JobLifecycleProofs` | `PublishedKept`, `CompleteSweep`, `GuardErrorExplained` | `NoEventLost`, `SweptIsOver`, `LoserIsTold` |
| | `Refinement` | `Spec => Abstract!SafeSpec`, the safety part of `JobHistory` |
| `ScheduledRunsProofs` | `OneSelection`, `Retirement` | `OneSelectionPerKey`, `RetiredNeverPublished` |
| | `Cursor` | the action property `CursorForward` |
| `QuestionLifecycleProofs` | `Agreement`, `Caller`, `ControlsCleaned`, `TimeoutCleans` | `OneOutcome`, `CallerAgrees`, `NoControlsForgotten`, `TimeoutCleansControls` |
| `CommandOutboxProofs` | `NothingLost`, `InOrder`, `NoReplay` | `AcceptedNotLost`, `PublishedInOrder`, `NoReplayAfterTombstone` |
| | `Readmission` | the action property `ReadmittedAfterRetention` |

Why the invariants need their strengthenings:

* **Mailbox.** `NoLostWakeup` needs that nothing is queued once `stopping` is set
  and that a session has a worker exactly when it has a queue (`QueueInv`). The
  boundary needs that `running` is the worker's turn exactly between `nextTask`
  and the locked end of the run (`WorkerInv`): otherwise the worker could clear a
  replacement it does not run, or evict one that runs. Ownership (`OwnInv`) needs
  more than `HeldOnce` says: that a turn is queued once (`QueuedOnce`), that two
  workers hold different turns (`HandInv`), and that a turn which is nowhere has
  no constituents (`MemberInv`), so that a late `Enqueue` starts clean.
* **Session actor.** `NothingLeftBehind` rests on the lane: while the handler of a
  key is called, the one admitted batch with that key holds its turn, and once
  the turn is answered no admitted batch has the key (`LaneInv`), so the
  acknowledgement finds none; what is admitted later started later. That a
  completion answers nobody who also waits elsewhere is `DisjointMembers` of the
  mailbox. `AckAccounted` follows a text from the batch (`TextInv`) through the
  end of the run (`FinishedInv`) or through the snapshot of a cancelling call
  (`CallInv`) to the answer (`AnswerInv`); a batch in such a snapshot can gain a
  redelivery of a key it has, never a new key. A step of the composition is a
  step of the mailbox, a stutter or a fresh start, so `Inv` and `OwnInv` are
  taken over (`MailboxStep`).
* **Command consumer.** What an attempt knows at its control point
  (`AttemptInv`), above all that it terminates a message only with the record in
  `BALDA_DLQ`; and that its number is a delivery that was made (`NumberInv`).
* **Delivery outbox.** One `Handle` call per delivery key (`LaneInv`); the row
  holds the caller's payload and is `sending` around the provider call
  (`RowInv`); as long as the provider may still be called, nothing but the
  unclassified calls has been shown (`ShownInv`); an ambiguous key stays in
  `sending` (`UnsureInv`); a failed question has a command left that will
  continue it (`FailInv`). An acknowledged prompt's question is over or its row
  is final (`LateInv`), so a delivery that starts late neither sends the prompt
  nor fails the question; and it is bound, settled or has nothing to bind
  (`BoundInv`).
* **Jobs.** What a caller in the middle of a call relies on (`CallInv`): the event
  it publishes is committed, the job it reads again is over, and so is every job
  its sweep is done with. `NoEventLost` needs more than what is marked: an event
  about to be marked, or refused by the stream as a duplicate, is kept as well
  (`KeptInv`), and every delivery of a message but the one in hand was cut short
  by a crash or a failure (`TriesInv`). `Refinement` maps the initial state to
  `JobHistory`'s and every action to a step or a stutter; the last delivery of an
  event that is cut short maps to its rejection.
* **Schedules.** The loop's copies agree with the row it works on, although edits
  go on beside it (`LoopInv`); every row is of a version the definition has had
  and of a slot that came due (`LedgerInv`); a published command carries the
  version of its row (`PubInv`); a retired row is of an older version than the
  definition, so nobody claims it (`RetiredInv`).
* **Questions.** A handler that is about to admit a continuation has seen the
  settlement it speaks of (`StageInv`); what waits in the caller's buffer agrees
  with the row (`BufferAgrees`); between cleanup and marker the outbox has
  cleaned what it saw (`CleanInv`); the timeout command and the prompt are
  each queued once (`FreshInv`, proved first).
* **Command outbox.** `PublishedInOrder` speaks of the command in the call only.
  What is inductive is that the bus has nothing of a scope newer than an open
  row of it (`OrderInv`), and, for the flush, that a row outside the batch is
  settled, blocked or newer than the batch (`WalkInv`). `NoReplayAfterTombstone`
  needs that a settled row keeps its tombstone (`TombstoneInv`).

The proofs use the named assumptions of the modules and nothing else. They say
that constants have their types, and besides: `EnvelopeAssumption`, that turns
with one key are addressed to one session (the key of a conversational turn is
its envelope's id); `SentinelAssumption`, that the values for "no run" and "no
job" are none of the runs, jobs and requests; `OutboxAssumption` of
`CommandOutbox`, that commands are finitely many; `OutboxAssumption` of
`DeliveryOutbox`, that a command which bypasses the outbox asks no question
(prompts are dispatched with settlement `outbox`,
`questions/session_orchestration.go:224` and `actors/goalkeeper/question_ask.go:81`);
`QuestionAssumption`, that
the results "denied", "error" and "none" are no options. TLC evaluates each of
them in the runs.

Only model-checked: the liveness properties `EveryWaiterAnswered`,
`ShutdownDrains`, `EventuallySettled`, `ImplementsHistory` (its fairness),
`RunsDecided`, `CursorFollows`, `AnswerRecovered`, `DeadlineHonoured` and
`AcceptedResolved`, because the prover has neither fairness nor `ENABLED`; and the
two disagreements, which are counterexamples.

## Plan

1. *Done*: mailbox, session actor, command consumer, delivery outbox, first
   theorems.
2. *Done*: job lifecycle with its event outbox and the refinement of
   `JobHistory`; scheduled runs; the life of a question; the command outbox.
3. *Done*: proofs of every safety invariant and action property the runs check,
   and of the safety part of the refinement of `JobHistory`.
4. Control actor over the mailbox and the consumer's worker slots: can waiting
   session commands keep out the command that would cancel them.
5. Webhook admission and finalization; runtime slots of the session manager;
   session-memory ingress outbox.
6. An abstract mailbox (each accepted command is answered once) that
   `TurnDispatcher` implements.

## Not modelled

Prompt construction, provider protocols, formatting, MCP, plugins, skills,
hooks, channel adapters, HTTP and authentication are I/O or record keeping; they
appear as outcomes of `Run` and of the provider call. The turn status recorder
only reports. In `SessionActor` the webhook replay, the redirect of recurring
schedules and auto mode are left for the modules of the plan that own their
state. SQL statements are atomic.

In the newer modules: job columns other than the status (outputs, bindings,
agent steps), the reconciler of configured schedules and the finalizer that
closes runs, responder rules and several questions in one thread, and pending
rows of the command outbox written before sequence numbers existed. Payloads in
the run ledger decode: the branches for undecodable ones (`scheduledjobs/runs.go:130`
and `:280-282`) are left out. `ConfirmAnswerAdmission`'s read and its update are one step, since
the update can be repeated without effect. A projection that outlasts `ack_wait`
is not redelivered while the projector holds it: the insert ignores a row that is
there.

The repository has some 800 implementation files, most of them adapters, HTTP
handlers, generated API code, migrations, provider clients and formatting. The
models cover the coordination core, which is a small share of those lines and
the share that has interleavings, crashes and retries to get wrong. PROJECT.json
lists every component with its status.

