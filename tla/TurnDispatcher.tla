--------------------------- MODULE TurnDispatcher ---------------------------
(***************************************************************************)
(* The per-session mailbox of internal/apps/balda/actors/turn_dispatcher.go *)
(*                                                                         *)
(* A member of Turns is one queuedTurn object: what a single call of       *)
(* Enqueue or EnqueueReplacement allocates, together with the delivery     *)
(* context and the result channel of its caller.  Two turns with the same  *)
(* key are two deliveries of the same command.  Everything a handler does  *)
(* between d.mu.Lock and d.mu.Unlock is one action; what it does after the *)
(* unlock (cancel, completeTurn) is a later action of its own.             *)
(***************************************************************************)
EXTENDS Naturals, Sequences, FiniteSets

CONSTANTS
    Sessions,      \* session ids
    Turns,         \* queuedTurn objects
    NoTurn,        \* Go's nil *queuedTurn
    Replacements,  \* the turns made by EnqueueReplacement
    SessionOf,     \* turn -> session id
    KeyOf,         \* ordinary turn -> DedupeKey (SessionActor always sets one)
    AuthorOf,      \* ordinary turn -> <<ArchiveID, RequesterUserID>>, or NoAuthor
    NoAuthor,      \* a payload without RequesterUserID
    MessageOf,     \* ordinary turn -> MessageID, 0 when absent
    ReplyOf,       \* ordinary turn -> ReplyToMessageID, 0 when absent
    OpOf,          \* replacement -> OperationID
    HashOf,        \* replacement -> InputHash
    QueueLimit,    \* perSessionQueueLimit
    TerminalLimit, \* terminalReplacementLimit
    MaxCalls,      \* bound: CancelSession calls in progress at once
    Interruptible  \* bound: the turns whose delivery context may end early

ASSUME TurnAssumption ==
    /\ NoTurn \notin Turns
    /\ Replacements \subseteq Turns
    /\ SessionOf \in [Turns -> Sessions]
    /\ MessageOf \in [Turns -> Nat]
    /\ ReplyOf \in [Turns -> Nat]

ASSUME LimitAssumption ==
    /\ QueueLimit \in Nat \ {0}
    /\ TerminalLimit \in Nat \ {0}
    /\ MaxCalls \in Nat
    /\ Interruptible \subseteq Turns

VARIABLES
    live,         \* DOMAIN d.sessions
    pending,      \* queue.pending
    running,      \* queue.runningTurn, NoTurn when queue.running is false
    wake,         \* whether queue.wakeCh holds its one token
    replacement,  \* queue.replacement
    terminal,     \* queue.terminalReplacements in terminalOrder
    stopping,     \* d.stopping; stopCh is closed exactly when it is TRUE
    worker,       \* control point of the session's sessionWorker goroutine
    current,      \* the worker's local variable turn
    outcome,      \* the worker's local variable err, "ok" for nil
    constituents, \* turn.constituents
    steering,     \* SteeringMessages of the turn's payload, as turns
    ctxOf,        \* turn.ctx, named by the call that supplied it
    dead,         \* delivery contexts that are done
    canceled,     \* turns whose in-flight cancel function has been called
    calls,        \* unlocked halves of CancelSession and Shutdown calls
    result,       \* what the caller of Enqueue has got
    ran           \* the held turns whose Run has been called

queueVars == <<live, pending, running, wake, replacement, terminal>>
workerVars == <<worker, current, outcome>>
batchVars == <<constituents, steering, ctxOf>>
contextVars == <<dead, canceled>>
vars == <<queueVars, workerVars, batchVars, contextVars, stopping, calls,
          result, ran>>

(* What Run may return.  "other" stands for every error that is neither a  *)
(* context error nor a replacement error.                                  *)
RunErrors == {"ok", "canceled", "other"}
Answers == RunErrors \cup {"failed"}
Refusals == {"stopping", "replacing", "conflict", "full"}

Ordinary == Turns \ Replacements
Elements(q) == {q[i] : i \in 1..Len(q)}
Members(b) == {b} \cup constituents[b]

(* RenderSteeringBatchText: a batch with steering messages runs their text *)
(* and nothing else; a plain turn runs its own.                            *)
Text(b) == IF steering[b] = <<>> THEN {b} ELSE Elements(steering[b])

(* The payload whose MessageID and ReplyToMessageID the batch carries now. *)
Latest(b) == IF steering[b] = <<>> THEN b ELSE steering[b][Len(steering[b])]

(* A worker holds b from nextTask until completeTurn. *)
InHand(b) == \E s \in Sessions : current[s] = b

RunCtxDone(t) == t \in canceled \/ ctxOf[t] \in dead

-----------------------------------------------------------------------------
(* Admission *)

(* turnDedupeKey and batchContainsConstituent *)
ContainsKey(b, t) ==
    \E m \in Members(b) \cap Ordinary : KeyOf[m] = KeyOf[t]

steeringAnchorMessageIDs(b) ==
    {MessageOf[m] : m \in {Latest(b)} \cup Elements(steering[b])} \ {0}

isSteeringCandidate(t) ==
    MessageOf[t] > 0 /\ ReplyOf[t] > 0 /\ AuthorOf[t] # NoAuthor

matchesRunningSteering(r, t) ==
    /\ r \in Ordinary
    /\ AuthorOf[r] # NoAuthor
    /\ AuthorOf[r] = AuthorOf[t]
    /\ ReplyOf[t] \in steeringAnchorMessageIDs(r)

(* The condition under which mergeIntoSteeringBatch takes t into b.  Its   *)
(* isDuplicate branch is unreachable: Enqueue attached every duplicate.    *)
mergesInto(b, t) ==
    /\ b \in Ordinary
    /\ AuthorOf[b] = AuthorOf[t]
    /\ \/ ReplyOf[t] \in steeringAnchorMessageIDs(b)
       \/ ReplyOf[Latest(b)] > 0 /\ ReplyOf[Latest(b)] = ReplyOf[t]

(* The pending positions tryMergeSteeringTurn accepts; it takes the last.  *)
MergePositions(s, t) ==
    IF running[s] # NoTurn /\ isSteeringCandidate(t)
    THEN {i \in 1..Len(pending[s]) : mergesInto(pending[s][i], t)}
    ELSE {}

(* Mutant: the running batch is not searched. *)
MutAttachPendingOnly(s, t) ==
    {b \in Elements(pending[s]) : b \in Ordinary /\ ContainsKey(b, t)}

(* The batch, running or pending, that already holds t's key. *)
AttachTargets(s, t) ==
    {b \in Elements(pending[s]) \cup ({running[s]} \ {NoTurn}) :
        b \in Ordinary /\ ContainsKey(b, t)}

(* The queue of a first call, and the goroutine started for it. *)
EnsureQueue(s) ==
    /\ live' = live \cup {s}
    /\ worker' = IF s \in live THEN worker
                 ELSE [worker EXCEPT ![s] = "next"]

(* Enqueue returns at once: with an error, or with a replayed answer. *)
Reply(t, what) ==
    /\ result' = [result EXCEPT ![t] = what]
    /\ UNCHANGED <<queueVars, workerVars, batchVars, contextVars, stopping,
                   calls, ran>>

Attach(t, b) ==
    /\ constituents' = [constituents EXCEPT ![b] = @ \cup {t}]
    /\ result' = [result EXCEPT ![t] = "waiting"]
    /\ UNCHANGED <<queueVars, workerVars, steering, ctxOf, contextVars,
                   stopping, calls, ran>>

(* Mutant: the worker is not signalled. *)
MutPushSilent(s, t) ==
    /\ pending' = [pending EXCEPT ![s] = Append(@, t)]
    /\ result' = [result EXCEPT ![t] = "waiting"]
    /\ EnsureQueue(s)
    /\ UNCHANGED <<running, wake, terminal, current, outcome, constituents,
                   ctxOf, contextVars, stopping, calls, ran>>

Push(s, t) ==
    /\ pending' = [pending EXCEPT ![s] = Append(@, t)]
    /\ wake' = [wake EXCEPT ![s] = TRUE]
    /\ result' = [result EXCEPT ![t] = "waiting"]
    /\ EnsureQueue(s)
    /\ UNCHANGED <<running, terminal, current, outcome, constituents, ctxOf,
                   contextVars, stopping, calls, ran>>

(* Mutant: the text is merged, its caller is not. *)
MutMergeForgets(b, t) ==
    /\ steering' = [steering EXCEPT ![b] = Append(@, t)]
    /\ result' = [result EXCEPT ![t] = "waiting"]
    /\ UNCHANGED <<queueVars, workerVars, constituents, ctxOf, contextVars,
                   stopping, calls, ran>>

(* mergeIntoSteeringBatch, once mergesInto(b, t) holds *)
Merge(b, t) ==
    /\ constituents' = [constituents EXCEPT ![b] = @ \cup {t}]
    /\ steering' = [steering EXCEPT ![b] = Append(@, t)]
    /\ ctxOf' = IF ctxOf[b] \in dead /\ t \notin dead
                THEN [ctxOf EXCEPT ![b] = t] ELSE ctxOf
    /\ result' = [result EXCEPT ![t] = "waiting"]
    /\ UNCHANGED <<queueVars, workerVars, contextVars, stopping, calls, ran>>

(* The outcomes of Enqueue in the order the code tests for them. *)
EnqueueStopping(t) ==
    stopping /\ Reply(t, "stopping")

EnqueueDuplicate(t) ==
    LET s == SessionOf[t] IN
    /\ ~stopping
    /\ \E b \in AttachTargets(s, t) : Attach(t, b)

(* Mutant: the limit is off by one. *)
MutAdmissibleOneMore(s, t) ==
    /\ ~stopping
    /\ AttachTargets(s, t) = {}
    /\ replacement[s] = NoTurn
    /\ Len(pending[s]) <= QueueLimit

(* Mutant: ordinary turns are admitted behind a replacement. *)
MutAdmissibleBehind(s, t) ==
    /\ ~stopping
    /\ AttachTargets(s, t) = {}
    /\ Len(pending[s]) < QueueLimit

Admissible(s, t) ==
    /\ ~stopping
    /\ AttachTargets(s, t) = {}
    /\ replacement[s] = NoTurn
    /\ Len(pending[s]) < QueueLimit

EnqueueBusy(t) ==
    LET s == SessionOf[t] IN
    /\ ~stopping
    /\ AttachTargets(s, t) = {}
    /\ \/ /\ replacement[s] # NoTurn
          /\ Reply(t, "replacing")
       \/ /\ replacement[s] = NoTurn
          /\ Len(pending[s]) >= QueueLimit
          /\ Reply(t, "full")

EnqueueMerged(t) ==
    LET s == SessionOf[t] IN
    /\ Admissible(s, t)
    /\ \E i \in MergePositions(s, t) :
          /\ \A j \in MergePositions(s, t) : j <= i
          /\ Merge(pending[s][i], t)

EnqueueAppended(t) ==
    LET s == SessionOf[t] IN
    /\ Admissible(s, t)
    /\ MergePositions(s, t) = {}
    /\ Push(s, t)
    /\ steering' = IF /\ running[s] # NoTurn
                      /\ isSteeringCandidate(t)
                      /\ matchesRunningSteering(running[s], t)
                   THEN [steering EXCEPT ![t] = <<t>>] ELSE steering
    /\ UNCHANGED replacement

Enqueue(t) ==
    /\ t \in Ordinary
    /\ result[t] = "idle"
    /\ \/ EnqueueStopping(t)
       \/ EnqueueDuplicate(t)
       \/ EnqueueBusy(t)
       \/ EnqueueMerged(t)
       \/ EnqueueAppended(t)

(* Mutant: remembered operations are not looked up. *)
MutTerminalOpsForgotten(s) == {}

TerminalOps(s) == {terminal[s][i].op : i \in 1..Len(terminal[s])}

EnqueueReplacementReplayed(t) ==
    LET s == SessionOf[t] IN
    /\ ~stopping
    /\ \E i \in 1..Len(terminal[s]) :
          /\ terminal[s][i].op = OpOf[t]
          /\ IF terminal[s][i].hash # HashOf[t] THEN Reply(t, "conflict")
             ELSE Reply(t, terminal[s][i].err)

EnqueueReplacementPending(t) ==
    LET s == SessionOf[t]
        r == replacement[s]
    IN
    /\ ~stopping
    /\ OpOf[t] \notin TerminalOps(s)
    /\ r # NoTurn
    /\ \/ OpOf[r] # OpOf[t] /\ Reply(t, "replacing")
       \/ OpOf[r] = OpOf[t] /\ HashOf[r] # HashOf[t] /\ Reply(t, "conflict")
       \/ OpOf[r] = OpOf[t] /\ HashOf[r] = HashOf[t] /\ Attach(t, r)

EnqueueReplacementAppended(t) ==
    LET s == SessionOf[t] IN
    /\ ~stopping
    /\ OpOf[t] \notin TerminalOps(s)
    /\ replacement[s] = NoTurn
    /\ \/ Len(pending[s]) >= QueueLimit /\ Reply(t, "full")
       \/ /\ Len(pending[s]) < QueueLimit
          /\ Push(s, t)
          /\ replacement' = [replacement EXCEPT ![s] = t]
          /\ UNCHANGED steering

EnqueueReplacement(t) ==
    /\ t \in Replacements
    /\ result[t] = "idle"
    /\ \/ stopping /\ Reply(t, "stopping")
       \/ EnqueueReplacementReplayed(t)
       \/ EnqueueReplacementPending(t)
       \/ EnqueueReplacementAppended(t)

-----------------------------------------------------------------------------
(* Replacement results *)

boundedReplacementError(e) == IF e = "other" THEN "failed" ELSE e

(* rememberReplacementResult: the oldest entry leaves a full cache.  The   *)
(* code's update of an existing entry is unreachable: see ReplacementFresh.*)
rememberReplacementResult(cache, op, hash, err) ==
    Append(IF Len(cache) = TerminalLimit THEN Tail(cache) ELSE cache,
           [op |-> op, hash |-> hash, err |-> err])

(* finishReplacementLocked over the turns that leave the queue of s with   *)
(* err: at most one of them can be queue.replacement.                      *)
finishReplacementLocked(s, leaving, err) ==
    LET r == replacement[s] IN
    IF r \in leaving
    THEN /\ replacement' = [replacement EXCEPT ![s] = NoTurn]
         /\ terminal' = [terminal EXCEPT ![s] =
                rememberReplacementResult(@, OpOf[r], HashOf[r],
                                          boundedReplacementError(err))]
    ELSE UNCHANGED <<replacement, terminal>>

(* completeTurn: every waiter of the batches that has not been answered    *)
(* gets err.  Nothing refers to the batches afterwards, so what the model  *)
(* keeps about them goes back to its initial value.                        *)
completeTurns(batches, err) ==
    /\ result' = [t \in Turns |->
          IF result[t] = "waiting" /\ \E b \in batches : t \in Members(b)
          THEN err ELSE result[t]]
    /\ constituents' = [b \in Turns |->
          IF b \in batches THEN {} ELSE constituents[b]]
    /\ steering' = [b \in Turns |->
          IF b \in batches THEN <<>> ELSE steering[b]]
    /\ ctxOf' = [b \in Turns |-> IF b \in batches THEN b ELSE ctxOf[b]]
    /\ canceled' = canceled \ batches
    /\ ran' = ran \ batches

-----------------------------------------------------------------------------
(* The session worker *)

(* delete(d.sessions, sessionID): the queue object is garbage afterwards.  *)
DeleteSession(s) ==
    /\ live' = live \ {s}
    /\ wake' = [wake EXCEPT ![s] = FALSE]
    /\ terminal' = [terminal EXCEPT ![s] = <<>>]
    /\ worker' = [worker EXCEPT ![s] = "none"]
    /\ UNCHANGED <<pending, running, replacement, current, outcome, batchVars,
                   contextVars, stopping, calls, result, ran>>

(* One pass of the loop of nextTask, under the lock. *)
NextTaskStop(s) ==
    worker[s] = "next" /\ stopping /\ DeleteSession(s)

NextTaskPop(s) ==
    /\ worker[s] = "next"
    /\ ~stopping
    /\ pending[s] # <<>>
    /\ pending' = [pending EXCEPT ![s] = Tail(@)]
    /\ running' = [running EXCEPT ![s] = Head(pending[s])]
    /\ current' = [current EXCEPT ![s] = Head(pending[s])]
    /\ worker' = [worker EXCEPT ![s] = "start"]
    /\ UNCHANGED <<live, wake, replacement, terminal, outcome, batchVars,
                   contextVars, stopping, calls, result, ran>>

NextTaskWait(s) ==
    /\ worker[s] = "next"
    /\ ~stopping
    /\ pending[s] = <<>>
    /\ worker' = [worker EXCEPT ![s] = "wait"]
    /\ UNCHANGED <<queueVars, current, outcome, batchVars, contextVars,
                   stopping, calls, result, ran>>

(* Mutant: a sleeping worker sees the stop only if it is also woken. *)
MutStopSignalMissed(s) ==
    worker[s] = "wait" /\ stopping /\ wake[s] /\ DeleteSession(s)

(* The three cases of the select in nextTask. *)
StopSignal(s) ==
    worker[s] = "wait" /\ stopping /\ DeleteSession(s)

WakeSignal(s) ==
    /\ worker[s] = "wait"
    /\ wake[s]
    /\ wake' = [wake EXCEPT ![s] = FALSE]
    /\ worker' = [worker EXCEPT ![s] = "next"]
    /\ UNCHANGED <<live, pending, running, replacement, terminal, current,
                   outcome, batchVars, contextVars, stopping, calls, result,
                   ran>>

mayEvict(s) == running[s] = NoTurn /\ pending[s] = <<>>

IdleTimeout(s) ==
    /\ worker[s] = "wait"
    /\ \/ mayEvict(s) /\ DeleteSession(s)
       \/ /\ ~mayEvict(s)
          /\ worker' = [worker EXCEPT ![s] = "next"]
          /\ UNCHANGED <<queueVars, current, outcome, batchVars, contextVars,
                         stopping, calls, result, ran>>

(* Mutant: a turn whose context is done is skipped without an error. *)
MutBeginRunSkips(s) ==
    /\ worker[s] = "start"
    /\ \/ /\ RunCtxDone(current[s])
          /\ worker' = [worker EXCEPT ![s] = "finish"]
          /\ UNCHANGED ran
       \/ /\ ~RunCtxDone(current[s])
          /\ worker' = [worker EXCEPT ![s] = "exec"]
          /\ ran' = ran \cup {current[s]}
    /\ UNCHANGED <<queueVars, current, outcome, batchVars, contextVars,
                   stopping, calls, result>>

(* The test of runCtx.Err before Run. *)
BeginRun(s) ==
    /\ worker[s] = "start"
    /\ \/ /\ RunCtxDone(current[s])
          /\ outcome' = [outcome EXCEPT ![s] = "canceled"]
          /\ worker' = [worker EXCEPT ![s] = "finish"]
          /\ UNCHANGED ran
       \/ /\ ~RunCtxDone(current[s])
          /\ worker' = [worker EXCEPT ![s] = "exec"]
          /\ ran' = ran \cup {current[s]}
          /\ UNCHANGED outcome
    /\ UNCHANGED <<queueVars, current, batchVars, contextVars, stopping,
                   calls, result>>

(* Run returns, with whatever error: a cancellation too, whether or not    *)
(* its own context is done.  The runner of a replacement bounds its error  *)
(* first.                                                                  *)
RunReturns(s, err) ==
    /\ worker[s] = "exec"
    /\ outcome' = [outcome EXCEPT ![s] =
          IF current[s] \in Replacements
          THEN boundedReplacementError(err) ELSE err]
    /\ worker' = [worker EXCEPT ![s] = "finish"]
    /\ UNCHANGED <<queueVars, current, batchVars, contextVars, stopping,
                   calls, result, ran>>

FinishRun(s) ==
    /\ worker[s] = "finish"
    /\ running' = [running EXCEPT ![s] = NoTurn]
    /\ finishReplacementLocked(s, {current[s]}, outcome[s])
    /\ worker' = [worker EXCEPT ![s] = "complete"]
    /\ UNCHANGED <<live, pending, wake, current, outcome, batchVars,
                   contextVars, stopping, calls, result, ran>>

CompleteRun(s) ==
    /\ worker[s] = "complete"
    /\ completeTurns({current[s]}, outcome[s])
    /\ current' = [current EXCEPT ![s] = NoTurn]
    /\ outcome' = [outcome EXCEPT ![s] = "ok"]
    /\ worker' = [worker EXCEPT ![s] = "next"]
    /\ UNCHANGED <<queueVars, dead, stopping, calls>>

-----------------------------------------------------------------------------
(* Cancellation and shutdown *)

(* Mutant: the dropped turns stay in the queue. *)
MutCancelKeepsPending(s, clearQueued) ==
    LET drop == IF clearQueued THEN Elements(pending[s]) ELSE {}
        hit == {running[s]} \ {NoTurn}
    IN
    /\ s \in live
    /\ Cardinality(calls) < MaxCalls
    /\ drop \cup hit # {}
    /\ calls' = calls \cup {[cancel |-> hit, drop |-> drop]}
    /\ UNCHANGED <<queueVars, workerVars, batchVars, contextVars, stopping,
                   result, ran>>

(* The locked half of CancelSession.  A call with nothing to cancel and    *)
(* nothing to drop has no second half.                                     *)
CancelSession(s, clearQueued) ==
    LET drop == IF clearQueued THEN Elements(pending[s]) ELSE {}
        hit == {running[s]} \ {NoTurn}
    IN
    /\ s \in live
    /\ Cardinality(calls) < MaxCalls
    /\ drop \cup hit # {}
    /\ pending' = IF clearQueued THEN [pending EXCEPT ![s] = <<>>] ELSE pending
    /\ finishReplacementLocked(s, drop, "canceled")
    /\ calls' = calls \cup {[cancel |-> hit, drop |-> drop]}
    /\ UNCHANGED <<live, running, wake, workerVars, batchVars, contextVars,
                   stopping, result, ran>>

(* The locked half of Shutdown, over every session. *)
Shutdown ==
    LET drop == UNION {Elements(pending[s]) : s \in live}
        leaving(s) == replacement[s] \in Elements(pending[s])
    IN
    /\ ~stopping
    /\ stopping' = TRUE
    /\ pending' = [s \in Sessions |-> <<>>]
    /\ replacement' = [s \in Sessions |->
          IF leaving(s) THEN NoTurn ELSE replacement[s]]
    /\ terminal' = [s \in Sessions |->
          IF leaving(s)
          THEN rememberReplacementResult(terminal[s], OpOf[replacement[s]],
                                         HashOf[replacement[s]], "canceled")
          ELSE terminal[s]]
    /\ calls' = calls \cup
          {[cancel |-> {running[s] : s \in live} \ {NoTurn}, drop |-> drop]}
    /\ UNCHANGED <<live, running, wake, workerVars, batchVars, contextVars,
                   result, ran>>

(* After the unlock: cancel() of the snapshot, which has no effect on a    *)
(* turn that finished in between, then completeTurns.                      *)
CancelInFlight(c) ==
    /\ c \in calls
    /\ c.cancel # {}
    /\ canceled' = canceled \cup {t \in c.cancel : InHand(t)}
    /\ calls' = (calls \ {c}) \cup {[c EXCEPT !.cancel = {}]}
    /\ UNCHANGED <<queueVars, workerVars, batchVars, dead, stopping, result,
                   ran>>

CompleteDropped(c) ==
    /\ c \in calls
    /\ c.cancel = {}
    /\ completeTurns(c.drop, "canceled")
    /\ calls' = calls \ {c}
    /\ UNCHANGED <<queueVars, workerVars, dead, stopping>>

(* The transport ends the delivery context of one call. *)
InterruptDelivery(t) ==
    /\ t \in Interruptible \ dead
    /\ result[t] \in {"idle", "waiting"}
    /\ dead' = dead \cup {t}
    /\ UNCHANGED <<queueVars, workerVars, batchVars, canceled, stopping,
                   calls, result, ran>>

-----------------------------------------------------------------------------
Init ==
    /\ live = {}
    /\ pending = [s \in Sessions |-> <<>>]
    /\ running = [s \in Sessions |-> NoTurn]
    /\ wake = [s \in Sessions |-> FALSE]
    /\ replacement = [s \in Sessions |-> NoTurn]
    /\ terminal = [s \in Sessions |-> <<>>]
    /\ stopping = FALSE
    /\ worker = [s \in Sessions |-> "none"]
    /\ current = [s \in Sessions |-> NoTurn]
    /\ outcome = [s \in Sessions |-> "ok"]
    /\ constituents = [t \in Turns |-> {}]
    /\ steering = [t \in Turns |-> <<>>]
    /\ ctxOf = [t \in Turns |-> t]
    /\ dead = {}
    /\ canceled = {}
    /\ calls = {}
    /\ result = [t \in Turns |-> "idle"]
    /\ ran = {}

WorkerStep(s) ==
    \/ NextTaskStop(s)
    \/ NextTaskPop(s)
    \/ NextTaskWait(s)
    \/ StopSignal(s)
    \/ WakeSignal(s)
    \/ BeginRun(s)
    \/ \E err \in RunErrors : RunReturns(s, err)
    \/ FinishRun(s)
    \/ CompleteRun(s)

CallStep == \E c \in calls : CancelInFlight(c) \/ CompleteDropped(c)

Next ==
    \/ \E t \in Turns : Enqueue(t)
    \/ \E t \in Turns : EnqueueReplacement(t)
    \/ \E t \in Turns : InterruptDelivery(t)
    \/ \E s \in Sessions : WorkerStep(s)
    \/ \E s \in Sessions : IdleTimeout(s)
    \/ \E s \in Sessions, clearQueued \in BOOLEAN : CancelSession(s, clearQueued)
    \/ Shutdown
    \/ CallStep

Spec == Init /\ [][Next]_vars

(* A runnable goroutine is scheduled, and Run returns: provider runs are   *)
(* bounded by their own timeouts and stop when their context is done.      *)
Fairness ==
    /\ \A s \in Sessions : WF_vars(WorkerStep(s))
    /\ WF_vars(CallStep)

FairSpec == Spec /\ Fairness

-----------------------------------------------------------------------------
(* Properties *)

WorkerPoints ==
    {"none", "next", "wait", "start", "exec", "finish", "complete"}
TurnOrNone == Turns \cup {NoTurn}
CachedResults ==
    [op : {OpOf[r] : r \in Replacements},
     hash : {HashOf[r] : r \in Replacements}, err : Answers]

QueueTypeOK ==
    /\ live \subseteq Sessions
    /\ pending \in [Sessions -> Seq(Turns)]
    /\ \A s \in Sessions : Len(pending[s]) <= QueueLimit
    /\ running \in [Sessions -> TurnOrNone]
    /\ wake \in [Sessions -> BOOLEAN]
    /\ replacement \in [Sessions -> Replacements \cup {NoTurn}]
    /\ terminal \in [Sessions -> Seq(CachedResults)]
    /\ \A s \in Sessions : Len(terminal[s]) <= TerminalLimit

WorkerTypeOK ==
    /\ worker \in [Sessions -> WorkerPoints]
    /\ current \in [Sessions -> TurnOrNone]
    /\ outcome \in [Sessions -> Answers]

BatchTypeOK ==
    /\ constituents \in [Turns -> SUBSET Turns]
    /\ steering \in [Turns -> Seq(Turns)]
    /\ ctxOf \in [Turns -> Turns]
    /\ ran \subseteq Turns

CallerTypeOK ==
    /\ stopping \in BOOLEAN
    /\ dead \subseteq Turns
    /\ canceled \subseteq Turns
    /\ calls \subseteq [cancel : SUBSET Turns, drop : SUBSET Turns]
    /\ result \in [Turns -> {"idle", "waiting"} \cup Answers \cup Refusals]

(* Every variable holds a value of the Go type it stands for; the cache of *)
(* replacement results and the FIFO stay within their limits.              *)
TypeOK == QueueTypeOK /\ WorkerTypeOK /\ BatchTypeOK /\ CallerTypeOK

Queued(b) == \E s \in Sessions : b \in Elements(pending[s])
Dropped(b) == \E c \in calls : b \in c.drop
Held(b) == Queued(b) \/ InHand(b) \/ Dropped(b)

(* A caller blocked on its result channel is in a batch that some          *)
(* goroutine still has to complete: queued in a session, in a worker's     *)
(* hand, or dropped by a CancelSession or Shutdown call whose completeTurns*)
(* is yet to run.  Nothing is forgotten by merging, eviction or shutdown.  *)
WaiterHeld ==
    \A t \in Turns : result[t] = "waiting" =>
        \E b \in Turns : Held(b) /\ t \in Members(b)

(* No caller waits in two batches, and no batch is held in two places, so  *)
(* the two goroutines that run completeTurn without the lock never answer  *)
(* the same result channel.                                                *)
HeldOnce ==
    /\ \A b1, b2 \in Turns :
          Held(b1) /\ Held(b2) /\ b1 # b2 => Members(b1) \cap Members(b2) = {}
    /\ \A b \in Turns :
          /\ ~(Queued(b) /\ InHand(b))
          /\ ~(Queued(b) /\ Dropped(b))
          /\ ~(InHand(b) /\ Dropped(b))

Admitted(s) == Elements(pending[s]) \cup ({running[s]} \ {NoTurn})

(* A dedupe key is admitted to at most one pending or running batch of its *)
(* session, so a redelivered command never runs beside or after itself     *)
(* while its first delivery is still in the mailbox.                       *)
KeyAdmittedOnce ==
    \A s \in Sessions : \A b1, b2 \in Admitted(s) \cap Ordinary :
        b1 # b2 => {KeyOf[m] : m \in Members(b1)} \cap
                   {KeyOf[m] : m \in Members(b2)} = {}

(* A replacement is an exclusive boundary: it is the last pending turn, or *)
(* it is in the worker's hand with nothing queued behind it, until its     *)
(* result is remembered.                                                   *)
ReplacementIsBoundary ==
    \A s \in Sessions : replacement[s] # NoTurn =>
        \/ /\ pending[s] # <<>>
           /\ pending[s][Len(pending[s])] = replacement[s]
        \/ /\ pending[s] = <<>>
           /\ running[s] = replacement[s]

(* An operation whose result is remembered is neither queued nor running   *)
(* again, and is remembered once: within the window a replayed operation   *)
(* is answered from the cache and its Run is not repeated.                 *)
ReplacementFresh ==
    \A s \in Sessions :
        /\ \A i \in 1..Len(terminal[s]) : replacement[s] # NoTurn =>
              terminal[s][i].op # OpOf[replacement[s]]
        /\ \A i, j \in 1..Len(terminal[s]) :
              terminal[s][i].op = terminal[s][j].op => i = j

(* A worker asleep in the select of nextTask with work queued has a wake   *)
(* token, whatever the order of enqueues, drains and idle timeouts.        *)
NoLostWakeup ==
    \A s \in Sessions :
        /\ worker[s] = "wait" /\ pending[s] # <<>> => wake[s]
        /\ s \notin live => pending[s] = <<>> /\ replacement[s] = NoTurn

(* A caller is told that its turn succeeded only if the batch holding it   *)
(* was given to Run: a batch whose context was already done is never       *)
(* reported as a success.                                                  *)
SuccessOnlyAfterRun ==
    [][\A t \in Turns : result[t] = "waiting" /\ result'[t] = "ok" =>
          \E b \in ran : InHand(b) /\ t \in Members(b)]_vars

(* Every admitted caller is answered, through merges, cancellations, idle  *)
(* evictions and shutdown.                                                 *)
EveryWaiterAnswered ==
    \A t \in Turns : result[t] = "waiting" ~> result[t] # "waiting"

(* Shutdown joins every worker: wg.Wait returns. *)
ShutdownDrains ==
    stopping ~> \A s \in Sessions : worker[s] = "none"
=============================================================================
