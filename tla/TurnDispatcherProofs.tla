----------------------- MODULE TurnDispatcherProofs ------------------------
(***************************************************************************)
(* Proofs about the turn mailbox, for every set of sessions and turns and  *)
(* every limit: the types, the wake-up protocol between Enqueue and the    *)
(* session worker, the replacement boundary, and who owns a batch and its  *)
(* waiters from Enqueue to completeTurn.                                   *)
(***************************************************************************)
EXTENDS TurnDispatcher, TLAPS

Busy == {"start", "exec", "finish"}

(* Where the worker is decides what it holds: the turn it runs is the one  *)
(* the queue calls running, until finishRun.                               *)
WorkerInv ==
    \A s \in Sessions :
        /\ worker[s] \in Busy => running[s] = current[s]
        /\ worker[s] \notin Busy => running[s] = NoTurn
        /\ worker[s] \in Busy \cup {"complete"} => current[s] \in Turns

(* A session without a queue has nothing queued, one with a sleeping       *)
(* worker and queued turns has its token, and after Shutdown nothing is    *)
(* queued anywhere.                                                        *)
QueueInv ==
    \A s \in Sessions :
        /\ s \in live <=> worker[s] # "none"
        /\ stopping => pending[s] = <<>>
        /\ worker[s] = "none" => pending[s] = <<>> /\ replacement[s] = NoTurn
        /\ worker[s] = "wait" /\ pending[s] # <<>> => wake[s]

CoreInv == WorkerInv /\ QueueInv /\ ReplacementIsBoundary

(* The inductive invariant. *)
Inv == TypeOK /\ CoreInv

coreVars == <<live, pending, running, wake, replacement, stopping, worker,
              current>>

-----------------------------------------------------------------------------
(* What Append does to the length, the emptiness and the last element of a *)
(* queue.                                                                  *)
LEMMA AppendFacts ==
  ASSUME NEW S, NEW q \in Seq(S), NEW e \in S
  PROVE  /\ Append(q, e) \in Seq(S)
         /\ Len(Append(q, e)) = Len(q) + 1
         /\ Append(q, e) # <<>>
         /\ Append(q, e)[Len(Append(q, e))] = e
  <1>1. Append(q, e) \in Seq(S) /\ Len(Append(q, e)) = Len(q) + 1 /\ Len(q) \in Nat
    OBVIOUS
  <1>2. Append(q, e)[Len(q) + 1] = e
    OBVIOUS
  <1>3. Append(q, e) # <<>>
    BY <1>1
  <1>. QED  BY <1>1, <1>2, <1>3

(* The same for Tail: the last element stays last, or was the only one. *)
LEMMA TailFacts ==
  ASSUME NEW S, NEW q \in Seq(S), q # <<>>
  PROVE  /\ Head(q) \in S
         /\ Tail(q) \in Seq(S)
         /\ Len(Tail(q)) = Len(q) - 1
         /\ Tail(q) = <<>> => Head(q) = q[Len(q)]
         /\ Tail(q) # <<>> => Tail(q)[Len(Tail(q))] = q[Len(q)]
  <1>1. Len(q) \in Nat /\ Len(q) > 0
    OBVIOUS
  <1>2. Head(q) \in S /\ Tail(q) \in Seq(S) /\ Len(Tail(q)) = Len(q) - 1
    OBVIOUS
  <1>3. ASSUME Tail(q) = <<>> PROVE Head(q) = q[Len(q)]
    <2>3. Len(<<>>) = 0
      OBVIOUS
    <2>2. Len(Tail(q)) = 0
      BY <1>3, <2>3, Zenon
    <2>1. Len(q) = 1
      BY <2>2, <1>1, <1>2
    <2>. QED  BY <2>1
  <1>4. ASSUME Tail(q) # <<>> PROVE Tail(q)[Len(Tail(q))] = q[Len(q)]
    <2>1. Len(Tail(q)) > 0
      BY <1>2, <1>4
    <2>. QED  BY <2>1, <1>1, <1>2
  <1>. QED  BY <1>2, <1>3, <1>4

(* CoreInv reads the queue and the position of the worker only. *)
LEMMA CoreFrame == ASSUME CoreInv, UNCHANGED coreVars PROVE CoreInv'
  BY DEF CoreInv, coreVars, WorkerInv, QueueInv, ReplacementIsBoundary

(* The initial state of the mailbox satisfies the invariant. *)
LEMMA InitInv == Init => Inv
  <1>. SUFFICES ASSUME Init PROVE Inv
    OBVIOUS
  <1>1. QueueTypeOK
    <2>1. \A s \in Sessions : Len(pending[s]) = 0 /\ Len(terminal[s]) = 0
      BY DEF Init
    <2>2. \A s \in Sessions :
            Len(pending[s]) <= QueueLimit /\ Len(terminal[s]) <= TerminalLimit
      BY <2>1, LimitAssumption
    <2>. QED  BY <2>2 DEF Init, QueueTypeOK, TurnOrNone
  <1>2. WorkerTypeOK
    BY DEF Init, WorkerTypeOK, WorkerPoints, TurnOrNone, Answers, RunErrors
  <1>3. BatchTypeOK
    BY DEF Init, BatchTypeOK
  <1>4. CallerTypeOK
    BY DEF Init, CallerTypeOK
  <1>5. CoreInv
    BY DEF Init, CoreInv, WorkerInv, QueueInv, ReplacementIsBoundary, Busy
  <1>. QED  BY <1>1, <1>2, <1>3, <1>4, <1>5 DEF Inv, TypeOK

(* An answer given at once changes nothing but the caller's result. *)
LEMMA ReplyInv ==
  ASSUME Inv, NEW t \in Turns,
         NEW what \in {"idle", "waiting"} \cup Answers \cup Refusals,
         Reply(t, what)
  PROVE  Inv'
  <1>1. TypeOK'
    BY DEF Inv, Reply, TypeOK, QueueTypeOK, WorkerTypeOK, BatchTypeOK,
           CallerTypeOK, queueVars, workerVars, batchVars, contextVars
  <1>2. CoreInv'
    BY CoreFrame DEF Inv, Reply, coreVars, queueVars, workerVars
  <1>. QED  BY <1>1, <1>2 DEF Inv

(* Attaching a duplicate changes a batch and the caller's result. *)
LEMMA AttachInv ==
  ASSUME Inv, NEW t \in Turns, NEW b \in Turns, Attach(t, b)
  PROVE  Inv'
  <1>1. QueueTypeOK' /\ WorkerTypeOK'
    BY DEF Inv, Attach, TypeOK, QueueTypeOK, WorkerTypeOK, queueVars, workerVars
  <1>2. BatchTypeOK' /\ CallerTypeOK'
    BY DEF Inv, Attach, TypeOK, BatchTypeOK, CallerTypeOK, contextVars
  <1>3. CoreInv'
    BY CoreFrame DEF Inv, Attach, coreVars, queueVars, workerVars
  <1>. QED  BY <1>1, <1>2, <1>3 DEF Inv, TypeOK

(* So does merging a reply. *)
LEMMA MergeInv ==
  ASSUME Inv, NEW t \in Turns, NEW b \in Turns, Merge(b, t)
  PROVE  Inv'
  <1>1. QueueTypeOK' /\ WorkerTypeOK'
    BY DEF Inv, Merge, TypeOK, QueueTypeOK, WorkerTypeOK, queueVars, workerVars
  <1>2. BatchTypeOK'
    BY DEF Inv, Merge, TypeOK, BatchTypeOK
  <1>3. CallerTypeOK'
    BY DEF Inv, Merge, TypeOK, CallerTypeOK, contextVars
  <1>4. CoreInv'
    BY CoreFrame DEF Inv, Merge, coreVars, queueVars, workerVars
  <1>. QED  BY <1>1, <1>2, <1>3, <1>4 DEF Inv, TypeOK

(* A turn appended to a queue with room, and with no replacement in it,    *)
(* leaves room for the limit and a token for the worker.                   *)
LEMMA PushInv ==
  ASSUME Inv, NEW t \in Turns, NEW s \in Sessions, Push(s, t), ~stopping,
         Len(pending[s]) < QueueLimit, replacement[s] = NoTurn,
         steering' \in [Turns -> Seq(Turns)],
         \/ UNCHANGED replacement
         \/ /\ t \in Replacements
            /\ replacement' = [replacement EXCEPT ![s] = t]
  PROVE  Inv'
  <1>. USE DEF Inv, TypeOK
  <1>1. QueueTypeOK'
    <2>1. pending' \in [Sessions -> Seq(Turns)]
      BY DEF Push, QueueTypeOK
    <2>2. \A r \in Sessions : Len(pending'[r]) <= QueueLimit
      BY LimitAssumption DEF Push, QueueTypeOK
    <2>3. replacement' \in [Sessions -> Replacements \cup {NoTurn}]
      BY DEF QueueTypeOK
    <2>. QED  BY <2>1, <2>2, <2>3 DEF Push, EnsureQueue, QueueTypeOK
  <1>2. WorkerTypeOK'
    BY DEF Push, EnsureQueue, WorkerTypeOK, WorkerPoints
  <1>3. BatchTypeOK' /\ CallerTypeOK'
    BY DEF Push, BatchTypeOK, CallerTypeOK, contextVars
  <1>4. WorkerInv'
    BY DEF Push, EnsureQueue, CoreInv, WorkerInv, QueueInv, Busy, WorkerTypeOK
  <1>5. QueueInv'
    BY DEF Push, EnsureQueue, CoreInv, QueueInv, QueueTypeOK, WorkerTypeOK
  <1>6. ReplacementIsBoundary'
    <2>1. /\ pending'[s] # <<>>
          /\ pending'[s][Len(pending'[s])] = t
      <3>1. pending[s] \in Seq(Turns) /\ pending'[s] = Append(pending[s], t)
        BY DEF Push, QueueTypeOK
      <3>2. /\ Append(pending[s], t) # <<>>
            /\ Append(pending[s], t)[Len(Append(pending[s], t))] = t
        BY <3>1
      <3>. QED  BY <3>1, <3>2
    <2>. QED
      BY <2>1 DEF Push, CoreInv, ReplacementIsBoundary, QueueTypeOK
  <1>. QED  BY <1>1, <1>2, <1>3, <1>4, <1>5, <1>6 DEF CoreInv

(* A worker that deletes its queue has nothing left in it: what a worker   *)
(* outside Busy still owed would be the last pending turn.                 *)
LEMMA DeleteSessionInv ==
  ASSUME Inv, NEW s \in Sessions, DeleteSession(s), pending[s] = <<>>,
         worker[s] \in {"next", "wait"}
  PROVE  Inv'
  <1>. USE DEF Inv, TypeOK
  <1>0. running[s] = NoTurn /\ replacement[s] = NoTurn
    BY DEF CoreInv, WorkerInv, ReplacementIsBoundary, Busy
  <1>1. QueueTypeOK'
    <2>1. terminal' \in [Sessions -> Seq(CachedResults)]
      BY DEF DeleteSession, QueueTypeOK
    <2>2. \A r \in Sessions : Len(terminal'[r]) <= TerminalLimit
      BY LimitAssumption DEF DeleteSession, QueueTypeOK
    <2>. QED  BY <2>1, <2>2 DEF DeleteSession, QueueTypeOK
  <1>2. WorkerTypeOK'
    BY DEF DeleteSession, WorkerTypeOK, WorkerPoints
  <1>3. BatchTypeOK' /\ CallerTypeOK'
    BY DEF DeleteSession, BatchTypeOK, CallerTypeOK, batchVars, contextVars
  <1>4. WorkerInv'
    BY <1>0 DEF DeleteSession, CoreInv, WorkerInv, WorkerTypeOK, Busy
  <1>5. QueueInv'
    BY <1>0 DEF DeleteSession, CoreInv, QueueInv, WorkerTypeOK, QueueTypeOK
  <1>6. ReplacementIsBoundary'
    BY DEF DeleteSession, CoreInv, ReplacementIsBoundary
  <1>. QED  BY <1>1, <1>2, <1>3, <1>4, <1>5, <1>6 DEF CoreInv

(* Answering the waiters of finished batches leaves queue and worker alone.*)
LEMMA CompleteTypes ==
  ASSUME BatchTypeOK, CallerTypeOK, NEW batches \in SUBSET Turns,
         NEW err \in Answers, completeTurns(batches, err), UNCHANGED <<dead, stopping>>,
         calls' \subseteq [cancel : SUBSET Turns, drop : SUBSET Turns]
  PROVE  BatchTypeOK' /\ CallerTypeOK'
  <1>1. BatchTypeOK'
    BY DEF completeTurns, BatchTypeOK
  <1>2. CallerTypeOK'
    BY DEF completeTurns, CallerTypeOK
  <1>. QED  BY <1>1, <1>2

(* A remembered result stays within the cache's type and limit. *)
LEMMA RememberTypes ==
  ASSUME NEW cache \in Seq(CachedResults), Len(cache) <= TerminalLimit,
         NEW r \in Replacements, NEW err \in Answers
  PROVE  /\ rememberReplacementResult(cache, OpOf[r], HashOf[r], err)
                \in Seq(CachedResults)
         /\ Len(rememberReplacementResult(cache, OpOf[r], HashOf[r], err))
                <= TerminalLimit
  <1>. DEFINE kept == IF Len(cache) = TerminalLimit THEN Tail(cache) ELSE cache
              entry == [op |-> OpOf[r], hash |-> HashOf[r], err |-> err]
  <1>1. entry \in CachedResults
    BY DEF CachedResults
  <1>2. kept \in Seq(CachedResults) /\ Len(kept) < TerminalLimit
    <2>1. CASE Len(cache) = TerminalLimit
      <3>1. cache # <<>>
        BY <2>1, LimitAssumption
      <3>. QED  BY <2>1, <3>1, TailFacts, LimitAssumption
    <2>2. CASE Len(cache) # TerminalLimit
      <3>1. Len(cache) \in Nat
        OBVIOUS
      <3>. QED  BY <2>2, <3>1, LimitAssumption
    <2>. QED  BY <2>1, <2>2
  <1>3. /\ Append(kept, entry) \in Seq(CachedResults)
        /\ Len(Append(kept, entry)) = Len(kept) + 1
    BY <1>1, <1>2, AppendFacts
  <1>4. Len(kept) \in Nat
    BY <1>2
  <1>. QED
    BY <1>2, <1>3, <1>4, LimitAssumption DEF rememberReplacementResult

(* A replacement that leaves the queue is forgotten as the pending one and *)
(* remembered as a finished one.                                           *)
LEMMA FinishTypes ==
  ASSUME QueueTypeOK, NEW s \in Sessions, NEW leaving \in SUBSET Turns,
         NEW err \in Answers, finishReplacementLocked(s, leaving, err)
  PROVE  /\ replacement' \in [Sessions -> Replacements \cup {NoTurn}]
         /\ terminal' \in [Sessions -> Seq(CachedResults)]
         /\ \A r \in Sessions : Len(terminal'[r]) <= TerminalLimit
         /\ \A r \in Sessions : replacement'[r] =
               IF r = s /\ replacement[s] \in leaving THEN NoTurn
               ELSE replacement[r]
  <1>1. CASE replacement[s] \in leaving
    <2>1. replacement[s] \in Replacements
      BY <1>1, TurnAssumption DEF QueueTypeOK
    <2>2. boundedReplacementError(err) \in Answers
      BY DEF boundedReplacementError, Answers
    <2>. DEFINE new == rememberReplacementResult(terminal[s],
                  OpOf[replacement[s]], HashOf[replacement[s]],
                  boundedReplacementError(err))
    <2>3. new \in Seq(CachedResults) /\ Len(new) <= TerminalLimit
      BY <2>1, <2>2, RememberTypes DEF QueueTypeOK
    <2>4. /\ replacement' = [replacement EXCEPT ![s] = NoTurn]
          /\ terminal' = [terminal EXCEPT ![s] = new]
      BY <1>1 DEF finishReplacementLocked
    <2>. HIDE DEF new
    <2>. QED  BY <1>1, <2>3, <2>4 DEF QueueTypeOK
  <1>2. CASE replacement[s] \notin leaving
    BY <1>2 DEF finishReplacementLocked, QueueTypeOK
  <1>. QED  BY <1>1, <1>2

-----------------------------------------------------------------------------
(* Enqueue, in each of its outcomes. *)
LEMMA EnqueueInv == ASSUME Inv, NEW t \in Turns, Enqueue(t) PROVE Inv'
  <1>. DEFINE s == SessionOf[t]
  <1>0. s \in Sessions
    BY TurnAssumption
  <1>1. CASE EnqueueStopping(t)
    BY <1>1, ReplyInv DEF EnqueueStopping, Refusals
  <1>2. CASE EnqueueDuplicate(t)
    <2>1. PICK b \in AttachTargets(s, t) : Attach(t, b)
      BY <1>2 DEF EnqueueDuplicate
    <2>2. b \in Turns
      BY <2>1 DEF AttachTargets, Ordinary
    <2>. QED  BY <2>1, <2>2, AttachInv
  <1>3. CASE EnqueueBusy(t)
    BY <1>3, ReplyInv DEF EnqueueBusy, Refusals
  <1>4. CASE EnqueueMerged(t)
    <2>1. PICK i \in MergePositions(s, t) : Merge(pending[s][i], t)
      BY <1>4 DEF EnqueueMerged
    <2>2. pending[s][i] \in Turns
      BY <2>1 DEF MergePositions, mergesInto, Ordinary
    <2>. QED  BY <2>1, <2>2, MergeInv
  <1>5. CASE EnqueueAppended(t)
    <2>1. /\ Push(s, t) /\ ~stopping /\ replacement[s] = NoTurn
          /\ Len(pending[s]) < QueueLimit /\ UNCHANGED replacement
      BY <1>5 DEF EnqueueAppended, Admissible
    <2>2. <<t>> \in Seq(Turns)
      OBVIOUS
    <2>3. steering' \in [Turns -> Seq(Turns)]
      BY <1>5, <2>2 DEF EnqueueAppended, Inv, TypeOK, BatchTypeOK
    <2>. QED  BY <1>0, <2>1, <2>3, PushInv
  <1>. QED  BY <1>1, <1>2, <1>3, <1>4, <1>5 DEF Enqueue

(* EnqueueReplacement, in each of its outcomes. *)
LEMMA EnqueueReplacementInv ==
  ASSUME Inv, NEW t \in Turns, EnqueueReplacement(t) PROVE Inv'
  <1>. DEFINE s == SessionOf[t]
  <1>0. s \in Sessions
    BY TurnAssumption
  <1>1. CASE stopping /\ Reply(t, "stopping")
    BY <1>1, ReplyInv DEF Refusals
  <1>2. CASE EnqueueReplacementReplayed(t)
    <2>1. PICK i \in 1..Len(terminal[s]) :
            \/ Reply(t, "conflict")
            \/ Reply(t, terminal[s][i].err)
      BY <1>2 DEF EnqueueReplacementReplayed
    <2>2. terminal[s] \in Seq(CachedResults)
      BY <1>0 DEF Inv, TypeOK, QueueTypeOK
    <2>3. terminal[s][i] \in CachedResults
      BY <2>1, <2>2
    <2>4. terminal[s][i].err \in Answers
      BY <2>3 DEF CachedResults
    <2>. QED  BY <2>1, <2>4, ReplyInv DEF Refusals
  <1>3. CASE EnqueueReplacementPending(t)
    <2>1. \/ Reply(t, "replacing")
          \/ Reply(t, "conflict")
          \/ Attach(t, replacement[s])
      BY <1>3 DEF EnqueueReplacementPending
    <2>2. replacement[s] \in Turns
      BY <1>0, <1>3, TurnAssumption
      DEF EnqueueReplacementPending, Inv, TypeOK, QueueTypeOK
    <2>. QED  BY <2>1, <2>2, ReplyInv, AttachInv DEF Refusals
  <1>4. CASE EnqueueReplacementAppended(t)
    <2>1. CASE Reply(t, "full")
      BY <2>1, ReplyInv DEF Refusals
    <2>2. CASE ~Reply(t, "full")
      <3>1. /\ Push(s, t) /\ ~stopping /\ replacement[s] = NoTurn
            /\ Len(pending[s]) < QueueLimit /\ UNCHANGED steering
            /\ replacement' = [replacement EXCEPT ![s] = t]
        BY <1>4, <2>2 DEF EnqueueReplacementAppended
      <3>2. steering' \in [Turns -> Seq(Turns)]
        BY <3>1 DEF Inv, TypeOK, BatchTypeOK
      <3>3. t \in Replacements
        BY DEF EnqueueReplacement
      <3>. QED  BY <1>0, <3>1, <3>2, <3>3, PushInv
    <2>. QED  BY <2>1, <2>2
  <1>. QED  BY <1>1, <1>2, <1>3, <1>4 DEF EnqueueReplacement

(* The steps of nextTask. *)
LEMMA NextTaskInv ==
  ASSUME Inv, NEW s \in Sessions,
         \/ NextTaskStop(s) \/ NextTaskPop(s) \/ NextTaskWait(s)
         \/ StopSignal(s) \/ WakeSignal(s) \/ IdleTimeout(s)
  PROVE  Inv'
  <1>1. CASE NextTaskStop(s) \/ StopSignal(s)
    <2>1. pending[s] = <<>>
      BY <1>1 DEF NextTaskStop, StopSignal, Inv, CoreInv, QueueInv
    <2>. QED  BY <1>1, <2>1, DeleteSessionInv DEF NextTaskStop, StopSignal
  <1>2. CASE NextTaskPop(s)
    <2>. USE DEF Inv, TypeOK
    <2>0. pending[s] \in Seq(Turns) /\ pending[s] # <<>>
      BY <1>2 DEF NextTaskPop, QueueTypeOK
    <2>. DEFINE h == Head(pending[s])
                rest == Tail(pending[s])
    <2>1. /\ h \in Turns
          /\ rest \in Seq(Turns)
          /\ Len(rest) = Len(pending[s]) - 1
          /\ rest = <<>> => h = pending[s][Len(pending[s])]
          /\ rest # <<>> => rest[Len(rest)] = pending[s][Len(pending[s])]
      BY <2>0, TailFacts
    <2>2. /\ worker[s] = "next" /\ ~stopping
          /\ pending' = [pending EXCEPT ![s] = rest]
          /\ running' = [running EXCEPT ![s] = h]
          /\ current' = [current EXCEPT ![s] = h]
          /\ worker' = [worker EXCEPT ![s] = "start"]
          /\ UNCHANGED <<live, wake, replacement, terminal, outcome, batchVars,
                         contextVars, stopping, calls, result, ran>>
      BY <1>2 DEF NextTaskPop
    <2>. HIDE DEF h, rest
    <2>3. QueueTypeOK'
      <3>1. Len(rest) <= QueueLimit
        BY <2>0, <2>1, LimitAssumption DEF QueueTypeOK
      <3>. QED  BY <2>1, <2>2, <3>1 DEF QueueTypeOK, TurnOrNone
    <2>4. WorkerTypeOK'
      BY <2>1, <2>2 DEF WorkerTypeOK, WorkerPoints, TurnOrNone
    <2>5. BatchTypeOK' /\ CallerTypeOK'
      BY <2>2 DEF BatchTypeOK, CallerTypeOK, batchVars, contextVars
    <2>6. WorkerInv'
      BY <2>1, <2>2 DEF CoreInv, WorkerInv, Busy, WorkerTypeOK, QueueTypeOK
    <2>7. QueueInv'
      BY <2>1, <2>2 DEF CoreInv, QueueInv, WorkerTypeOK, QueueTypeOK
    <2>8. ReplacementIsBoundary'
      <3>1. running[s] = NoTurn
        BY <2>2 DEF CoreInv, WorkerInv, Busy
      <3>. QED
        BY <2>0, <2>1, <2>2, <3>1
        DEF CoreInv, ReplacementIsBoundary, QueueTypeOK
    <2>. QED  BY <2>3, <2>4, <2>5, <2>6, <2>7, <2>8 DEF CoreInv
  <1>3. CASE /\ worker' = [worker EXCEPT ![s] = "next"]
             /\ worker[s] = "wait"
             /\ UNCHANGED <<live, pending, running, replacement, terminal,
                            current, outcome, batchVars, contextVars, stopping,
                            calls, result, ran>>
             /\ wake' \in [Sessions -> BOOLEAN]
             /\ \A r \in Sessions \ {s} : wake'[r] = wake[r]
    <2>. USE DEF Inv, TypeOK
    <2>1. TypeOK'
      BY <1>3 DEF QueueTypeOK, WorkerTypeOK, WorkerPoints, BatchTypeOK,
                  CallerTypeOK, batchVars, contextVars
    <2>2. CoreInv'
      BY <1>3 DEF CoreInv, WorkerInv, QueueInv, ReplacementIsBoundary, Busy,
                  WorkerTypeOK
    <2>. QED  BY <2>1, <2>2
  <1>4. CASE WakeSignal(s)
    BY <1>4, <1>3 DEF WakeSignal, Inv, TypeOK, QueueTypeOK
  <1>5. CASE NextTaskWait(s)
    <2>. USE DEF Inv, TypeOK
    <2>1. TypeOK'
      BY <1>5 DEF NextTaskWait, QueueTypeOK, WorkerTypeOK, WorkerPoints,
                  BatchTypeOK, CallerTypeOK, queueVars, batchVars, contextVars
    <2>2. CoreInv'
      BY <1>5 DEF NextTaskWait, CoreInv, WorkerInv, QueueInv,
                  ReplacementIsBoundary, Busy, WorkerTypeOK, queueVars
    <2>. QED  BY <2>1, <2>2
  <1>6. CASE IdleTimeout(s)
    <2>1. CASE mayEvict(s) /\ DeleteSession(s)
      BY <1>6, <2>1, DeleteSessionInv DEF IdleTimeout, mayEvict
    <2>2. CASE ~(mayEvict(s) /\ DeleteSession(s))
      BY <1>6, <2>2, <1>3
      DEF IdleTimeout, queueVars, Inv, TypeOK, QueueTypeOK
    <2>. QED  BY <2>1, <2>2
  <1>. QED  BY <1>1, <1>2, <1>4, <1>5, <1>6

(* The run of one turn, from the test of its context to its completion. *)
LEMMA RunInv ==
  ASSUME Inv, NEW s \in Sessions,
         \/ BeginRun(s) \/ \E err \in RunErrors : RunReturns(s, err)
         \/ FinishRun(s) \/ CompleteRun(s)
  PROVE  Inv'
  <1>. USE DEF Inv, TypeOK
  <1>1. CASE BeginRun(s)
    <2>1. current[s] \in Turns
      BY <1>1 DEF BeginRun, CoreInv, WorkerInv, Busy
    <2>2. TypeOK'
      BY <1>1, <2>1 DEF BeginRun, QueueTypeOK, WorkerTypeOK, WorkerPoints,
         BatchTypeOK, CallerTypeOK, queueVars, batchVars, contextVars,
         Answers, RunErrors
    <2>3. CoreInv'
      BY <1>1 DEF BeginRun, CoreInv, WorkerInv, QueueInv,
         ReplacementIsBoundary, Busy, WorkerTypeOK, queueVars
    <2>. QED  BY <2>2, <2>3
  <1>2. CASE \E err \in RunErrors : RunReturns(s, err)
    <2>1. PICK err \in RunErrors : RunReturns(s, err)
      BY <1>2
    <2>2. outcome' \in [Sessions -> Answers]
      BY <2>1 DEF RunReturns, boundedReplacementError, WorkerTypeOK, Answers
    <2>3. TypeOK'
      BY <2>1, <2>2 DEF RunReturns, QueueTypeOK, WorkerTypeOK, WorkerPoints,
         BatchTypeOK, CallerTypeOK, queueVars, batchVars, contextVars
    <2>4. CoreInv'
      BY <2>1 DEF RunReturns, CoreInv, WorkerInv, QueueInv,
         ReplacementIsBoundary, Busy, WorkerTypeOK, queueVars
    <2>. QED  BY <2>3, <2>4
  <1>3. CASE FinishRun(s)
    <2>1. current[s] \in Turns /\ running[s] = current[s]
      BY <1>3 DEF FinishRun, CoreInv, WorkerInv, Busy
    <2>2. /\ {current[s]} \in SUBSET Turns
          /\ outcome[s] \in Answers
          /\ finishReplacementLocked(s, {current[s]}, outcome[s])
      BY <1>3, <2>1 DEF FinishRun, WorkerTypeOK
    <2>3. /\ replacement' \in [Sessions -> Replacements \cup {NoTurn}]
          /\ terminal' \in [Sessions -> Seq(CachedResults)]
          /\ \A r \in Sessions : Len(terminal'[r]) <= TerminalLimit
          /\ \A r \in Sessions : replacement'[r] =
                IF r = s /\ replacement[s] \in {current[s]} THEN NoTurn
                ELSE replacement[r]
      BY <2>2, FinishTypes
    <2>4. TypeOK'
      BY <1>3, <2>3 DEF FinishRun, QueueTypeOK, TurnOrNone, WorkerTypeOK,
         WorkerPoints, BatchTypeOK, CallerTypeOK, batchVars, contextVars
    <2>5. WorkerInv' /\ QueueInv'
      BY <1>3, <2>1, <2>3 DEF FinishRun, CoreInv, WorkerInv, QueueInv, Busy,
         WorkerTypeOK, QueueTypeOK
    <2>6. ReplacementIsBoundary'
      BY <1>3, <2>1, <2>3
      DEF FinishRun, CoreInv, ReplacementIsBoundary, QueueTypeOK
    <2>. QED  BY <2>4, <2>5, <2>6 DEF CoreInv
  <1>4. CASE CompleteRun(s)
    <2>1. {current[s]} \in SUBSET Turns /\ outcome[s] \in Answers
      BY <1>4 DEF CompleteRun, CoreInv, WorkerInv, WorkerTypeOK
    <2>2. BatchTypeOK' /\ CallerTypeOK'
      BY <1>4, <2>1, CompleteTypes DEF CompleteRun, CallerTypeOK
    <2>3. QueueTypeOK' /\ WorkerTypeOK'
      BY <1>4 DEF CompleteRun, QueueTypeOK, WorkerTypeOK, WorkerPoints,
         TurnOrNone, Answers, RunErrors, queueVars
    <2>4. CoreInv'
      BY <1>4 DEF CompleteRun, CoreInv, WorkerInv, QueueInv,
         ReplacementIsBoundary, Busy, WorkerTypeOK, queueVars
    <2>. QED  BY <2>2, <2>3, <2>4
  <1>. QED  BY <1>1, <1>2, <1>3, <1>4

(* A queue is a subset of the turns, and its last element is one of them. *)
LEMMA QueueElements ==
  ASSUME NEW q \in Seq(Turns)
  PROVE  /\ Elements(q) \in SUBSET Turns
         /\ q # <<>> => q[Len(q)] \in Elements(q)
  BY DEF Elements

(* The locked half of CancelSession: a replacement that is not dropped     *)
(* with the queue is the running turn.                                     *)
LEMMA CancelSessionInv ==
  ASSUME Inv, NEW s \in Sessions, NEW clearQueued \in BOOLEAN,
         CancelSession(s, clearQueued)
  PROVE  Inv'
  <1>. USE DEF Inv, TypeOK
  <1>. DEFINE drop == IF clearQueued THEN Elements(pending[s]) ELSE {}
              hit == {running[s]} \ {NoTurn}
  <1>0. pending[s] \in Seq(Turns) /\ running[s] \in TurnOrNone
    BY DEF QueueTypeOK
  <1>1. drop \in SUBSET Turns /\ hit \in SUBSET Turns
    BY <1>0, QueueElements DEF TurnOrNone
  <1>2. /\ pending' = IF clearQueued THEN [pending EXCEPT ![s] = <<>>]
                      ELSE pending
        /\ finishReplacementLocked(s, drop, "canceled")
        /\ calls' = calls \cup {[cancel |-> hit, drop |-> drop]}
        /\ UNCHANGED <<live, running, wake, workerVars, batchVars,
                       contextVars, stopping, result, ran>>
    BY DEF CancelSession
  <1>3. clearQueued /\ pending[s] # <<>> => pending[s][Len(pending[s])] \in drop
    BY <1>0, QueueElements
  <1>. HIDE DEF drop, hit
  <1>4. "canceled" \in Answers
    BY DEF Answers, RunErrors
  <1>5. /\ replacement' \in [Sessions -> Replacements \cup {NoTurn}]
        /\ terminal' \in [Sessions -> Seq(CachedResults)]
        /\ \A r \in Sessions : Len(terminal'[r]) <= TerminalLimit
        /\ \A r \in Sessions : replacement'[r] =
              IF r = s /\ replacement[s] \in drop THEN NoTurn
              ELSE replacement[r]
    BY <1>1, <1>2, <1>4, FinishTypes
  <1>6. QueueTypeOK'
    <2>1. \A r \in Sessions : Len(pending'[r]) <= QueueLimit
      BY <1>2, LimitAssumption DEF QueueTypeOK
    <2>. QED  BY <1>2, <1>5, <2>1 DEF QueueTypeOK
  <1>7. WorkerTypeOK' /\ BatchTypeOK'
    BY <1>2 DEF WorkerTypeOK, BatchTypeOK, workerVars, batchVars
  <1>8. CallerTypeOK'
    BY <1>1, <1>2 DEF CallerTypeOK, contextVars
  <1>9. WorkerInv' /\ QueueInv'
    BY <1>2, <1>5 DEF CoreInv, WorkerInv, QueueInv, Busy, workerVars,
       QueueTypeOK
  <1>10. ReplacementIsBoundary'
    <2>. SUFFICES ASSUME NEW r \in Sessions, replacement'[r] # NoTurn
                  PROVE  \/ /\ pending'[r] # <<>>
                            /\ pending'[r][Len(pending'[r])] = replacement'[r]
                         \/ /\ pending'[r] = <<>>
                            /\ running'[r] = replacement'[r]
      BY DEF ReplacementIsBoundary
    <2>1. replacement'[r] = replacement[r] /\ running'[r] = running[r]
      BY <1>2, <1>5
    <2>2. CASE r = s /\ clearQueued
      <3>1. replacement[s] \notin drop /\ replacement[s] # NoTurn
        BY <1>5, <2>1, <2>2
      <3>2. running[s] = replacement[s]
        BY <1>3, <2>2, <3>1 DEF CoreInv, ReplacementIsBoundary
      <3>3. pending'[r] = <<>>
        BY <1>2, <2>2 DEF QueueTypeOK
      <3>. QED  BY <2>1, <2>2, <3>2, <3>3
    <2>3. CASE ~(r = s /\ clearQueued)
      <3>1. pending'[r] = pending[r]
        BY <1>2, <2>3 DEF QueueTypeOK
      <3>. QED  BY <2>1, <3>1 DEF CoreInv, ReplacementIsBoundary
    <2>. QED  BY <2>2, <2>3
  <1>. QED  BY <1>6, <1>7, <1>8, <1>9, <1>10 DEF CoreInv

(* The locked half of Shutdown: the same in every session at once. *)
LEMMA ShutdownInv == ASSUME Inv, Shutdown PROVE Inv'
  <1>. USE DEF Inv, TypeOK
  <1>. DEFINE leaving(s) == replacement[s] \in Elements(pending[s])
              drop == UNION {Elements(pending[s]) : s \in live}
              hit == {running[s] : s \in live} \ {NoTurn}
              new(s) == rememberReplacementResult(terminal[s],
                  OpOf[replacement[s]], HashOf[replacement[s]], "canceled")
  <1>1. /\ stopping' = TRUE
        /\ pending' = [s \in Sessions |-> <<>>]
        /\ replacement' = [s \in Sessions |->
              IF leaving(s) THEN NoTurn ELSE replacement[s]]
        /\ terminal' = [s \in Sessions |->
              IF leaving(s) THEN new(s) ELSE terminal[s]]
        /\ calls' = calls \cup {[cancel |-> hit, drop |-> drop]}
        /\ UNCHANGED <<live, running, wake, workerVars, batchVars,
                       contextVars, result, ran>>
    BY DEF Shutdown
  <1>2. \A s \in Sessions : Elements(pending[s]) \in SUBSET Turns
    BY QueueElements DEF QueueTypeOK
  <1>3. drop \in SUBSET Turns /\ hit \in SUBSET Turns
    BY <1>2 DEF QueueTypeOK, TurnOrNone
  <1>4. \A s \in Sessions : leaving(s) =>
            new(s) \in Seq(CachedResults) /\ Len(new(s)) <= TerminalLimit
    <2>. SUFFICES ASSUME NEW s \in Sessions, leaving(s)
                  PROVE  new(s) \in Seq(CachedResults)
                         /\ Len(new(s)) <= TerminalLimit
      OBVIOUS
    <2>1. replacement[s] \in Replacements
      BY <1>2, TurnAssumption DEF QueueTypeOK
    <2>2. "canceled" \in Answers
      BY DEF Answers, RunErrors
    <2>. QED  BY <2>1, <2>2, RememberTypes DEF QueueTypeOK
  <1>5. \A s \in Sessions : pending[s] # <<>> =>
            pending[s][Len(pending[s])] \in Elements(pending[s])
    BY QueueElements DEF QueueTypeOK
  <1>. HIDE DEF new, drop, hit
  <1>6. QueueTypeOK'
    <2>1. \A s \in Sessions : Len(pending'[s]) = 0
      BY <1>1
    <2>2. \A s \in Sessions : Len(pending'[s]) <= QueueLimit
      BY <2>1, LimitAssumption
    <2>3. /\ terminal' \in [Sessions -> Seq(CachedResults)]
          /\ \A s \in Sessions : Len(terminal'[s]) <= TerminalLimit
      BY <1>1, <1>4 DEF QueueTypeOK
    <2>4. replacement' \in [Sessions -> Replacements \cup {NoTurn}]
      BY <1>1 DEF QueueTypeOK
    <2>. QED  BY <1>1, <2>2, <2>3, <2>4 DEF QueueTypeOK
  <1>7. WorkerTypeOK' /\ BatchTypeOK' /\ CallerTypeOK'
    BY <1>1, <1>3 DEF WorkerTypeOK, BatchTypeOK, CallerTypeOK, workerVars,
       batchVars, contextVars
  <1>8. WorkerInv' /\ QueueInv'
    BY <1>1 DEF CoreInv, WorkerInv, QueueInv, Busy, workerVars
  <1>9. ReplacementIsBoundary'
    BY <1>1, <1>5 DEF CoreInv, ReplacementIsBoundary
  <1>. QED  BY <1>6, <1>7, <1>8, <1>9 DEF CoreInv

(* The unlocked halves, and the end of a delivery context, leave the queue *)
(* and the worker alone.                                                   *)
LEMMA UnlockedInv ==
  ASSUME Inv, CallStep \/ \E t \in Turns : InterruptDelivery(t)
  PROVE  Inv'
  <1>. USE DEF Inv, TypeOK
  <1>1. ASSUME NEW c \in calls, CancelInFlight(c) PROVE Inv'
    <2>1. c \in [cancel : SUBSET Turns, drop : SUBSET Turns]
      BY DEF CallerTypeOK
    <2>2. [c EXCEPT !.cancel = {}] \in [cancel : SUBSET Turns, drop : SUBSET Turns]
      BY <2>1
    <2>3. canceled' \subseteq Turns
      BY <1>1, <2>1 DEF CancelInFlight, CallerTypeOK
    <2>4. CallerTypeOK'
      BY <1>1, <2>2, <2>3 DEF CancelInFlight, CallerTypeOK
    <2>5. QueueTypeOK' /\ WorkerTypeOK' /\ BatchTypeOK'
      BY <1>1 DEF CancelInFlight, QueueTypeOK, WorkerTypeOK, BatchTypeOK,
         queueVars, workerVars, batchVars
    <2>6. CoreInv'
      BY <1>1, CoreFrame DEF CancelInFlight, coreVars, queueVars, workerVars
    <2>. QED  BY <2>4, <2>5, <2>6
  <1>2. ASSUME NEW c \in calls, CompleteDropped(c) PROVE Inv'
    <2>1. c.drop \in SUBSET Turns /\ "canceled" \in Answers
      BY DEF CallerTypeOK, Answers, RunErrors
    <2>2. calls' \subseteq [cancel : SUBSET Turns, drop : SUBSET Turns]
      BY <1>2 DEF CompleteDropped, CallerTypeOK
    <2>3. BatchTypeOK' /\ CallerTypeOK'
      BY <1>2, <2>1, <2>2, CompleteTypes DEF CompleteDropped
    <2>4. QueueTypeOK' /\ WorkerTypeOK'
      BY <1>2 DEF CompleteDropped, QueueTypeOK, WorkerTypeOK, queueVars,
         workerVars
    <2>5. CoreInv'
      BY <1>2, CoreFrame DEF CompleteDropped, coreVars, queueVars, workerVars
    <2>. QED  BY <2>3, <2>4, <2>5
  <1>3. ASSUME NEW t \in Turns, InterruptDelivery(t) PROVE Inv'
    <2>1. TypeOK'
      BY <1>3 DEF InterruptDelivery, QueueTypeOK, WorkerTypeOK, BatchTypeOK,
         CallerTypeOK, queueVars, workerVars, batchVars
    <2>2. CoreInv'
      BY <1>3, CoreFrame DEF InterruptDelivery, coreVars, queueVars, workerVars
    <2>. QED  BY <2>1, <2>2
  <1>. QED  BY <1>1, <1>2, <1>3 DEF CallStep

(* A step that changes nothing preserves the invariant. *)
LEMMA StutterInv == ASSUME Inv, UNCHANGED vars PROVE Inv'
  <1>1. TypeOK'
    BY DEF Inv, TypeOK, QueueTypeOK, WorkerTypeOK, BatchTypeOK, CallerTypeOK,
       vars, queueVars, workerVars, batchVars, contextVars
  <1>2. CoreInv'
    BY CoreFrame DEF Inv, vars, coreVars, queueVars, workerVars
  <1>. QED  BY <1>1, <1>2 DEF Inv

(* Every step of the mailbox preserves the invariant. *)
LEMMA NextInv == Inv /\ [Next]_vars => Inv'
  <1>. SUFFICES ASSUME Inv, [Next]_vars PROVE Inv'
    OBVIOUS
  <1>1. CASE \E t \in Turns : Enqueue(t)
    BY <1>1, EnqueueInv
  <1>2. CASE \E t \in Turns : EnqueueReplacement(t)
    BY <1>2, EnqueueReplacementInv
  <1>3. CASE CallStep \/ \E t \in Turns : InterruptDelivery(t)
    BY <1>3, UnlockedInv
  <1>4. CASE \E s \in Sessions : WorkerStep(s)
    BY <1>4, NextTaskInv, RunInv DEF WorkerStep
  <1>5. CASE \E s \in Sessions : IdleTimeout(s)
    BY <1>5, NextTaskInv
  <1>6. CASE \E s \in Sessions, clearQueued \in BOOLEAN :
                CancelSession(s, clearQueued)
    BY <1>6, CancelSessionInv
  <1>7. CASE Shutdown
    BY <1>7, ShutdownInv
  <1>8. CASE UNCHANGED vars
    BY <1>8, StutterInv
  <1>. QED
    BY <1>1, <1>2, <1>3, <1>4, <1>5, <1>6, <1>7, <1>8 DEF Next

(* The inductive invariant holds in every reachable state of the mailbox   *)
(* of turn_dispatcher.go.                                                  *)
THEOREM Invariance == Spec => []Inv
  <1>. QED  BY InitInv, NextInv, PTL DEF Spec

(* In every reachable state each variable has its type, the FIFO of a      *)
(* session holds at most perSessionQueueLimit batches and its cache at     *)
(* most terminalReplacementLimit results.                                  *)
THEOREM TypeCorrect == Spec => []TypeOK
  <1>1. Inv => TypeOK
    BY DEF Inv
  <1>. QED  BY <1>1, Invariance, PTL

(* Whatever the order of enqueues, cancellations, drains and idle          *)
(* timeouts, nextTask never sleeps on queued work without a wake token,    *)
(* and a session deleted from d.sessions leaves nothing behind.            *)
THEOREM WakeupNeverLost == Spec => []NoLostWakeup
  <1>1. Inv => NoLostWakeup
    BY DEF Inv, CoreInv, QueueInv, NoLostWakeup
  <1>. QED  BY <1>1, Invariance, PTL

(* EnqueueReplacement makes an exclusive boundary: until its result is     *)
(* remembered, a replacement is the last turn of the queue or it runs with *)
(* nothing queued behind it.                                               *)
THEOREM ReplacementBoundary == Spec => []ReplacementIsBoundary
  <1>1. Inv => ReplacementIsBoundary
    BY DEF Inv, CoreInv
  <1>. QED  BY <1>1, Invariance, PTL

-----------------------------------------------------------------------------
(* Ownership: every batch is in one place, and a goroutine that completes  *)
(* batches without the lock shares no waiter with another.                 *)

(* A worker holds a turn from nextTask to completeTurn, and no two workers *)
(* hold the same one.                                                      *)
HandInv ==
    /\ \A s \in Sessions :
         worker[s] \notin Busy \cup {"complete"} => current[s] = NoTurn
    /\ \A s, r \in Sessions :
         current[s] = current[r] /\ current[s] # NoTurn => s = r

(* No turn is queued twice, in one session or in two. *)
QueuedOnce ==
    \A s, r \in Sessions :
        \A i \in 1..Len(pending[s]), j \in 1..Len(pending[r]) :
            pending[s][i] = pending[r][j] => s = r /\ i = j

(* The two halves of HeldOnce. *)
OnePlace ==
    \A b \in Turns :
        /\ ~(Queued(b) /\ InHand(b))
        /\ ~(Queued(b) /\ Dropped(b))
        /\ ~(InHand(b) /\ Dropped(b))

DisjointMembers ==
    \A b1, b2 \in Turns :
        Held(b1) /\ Held(b2) /\ b1 # b2 => Members(b1) \cap Members(b2) = {}

(* The members of a batch have called Enqueue, a turn that is nowhere has  *)
(* no members of its own, and only replacements join a replacement.        *)
MemberInv ==
    \A b \in Turns :
        /\ Held(b) => \A m \in Members(b) : result[m] # "idle"
        /\ ~Held(b) => constituents[b] = {}
        /\ b \in Ordinary => constituents[b] \subseteq Ordinary

Ownership == DisjointMembers /\ MemberInv /\ WaiterHeld

(* A worker reports success only for a batch it has given to Run. *)
RanInv ==
    \A s \in Sessions :
        \/ worker[s] = "exec"
        \/ worker[s] \in {"finish", "complete"} /\ outcome[s] = "ok"
        => current[s] \in ran

(* The inductive invariant of ownership, on top of Inv. *)
OwnInv ==
    /\ HandInv /\ QueuedOnce /\ OnePlace /\ Ownership
    /\ KeyAdmittedOnce /\ RanInv /\ ReplacementFresh

(* What a batch is known by to AttachTargets. *)
BatchKeys(b) == {KeyOf[m] : m \in Members(b)}

LEMMA AppendElements ==
  ASSUME NEW S, NEW q \in Seq(S), NEW e \in S
  PROVE  /\ Elements(Append(q, e)) = Elements(q) \cup {e}
         /\ \A i \in 1..Len(Append(q, e)) :
              \/ i \in 1..Len(q) /\ Append(q, e)[i] = q[i]
              \/ i = Len(q) + 1 /\ Append(q, e)[i] = e
  <1>1. Len(q) \in Nat /\ Len(Append(q, e)) = Len(q) + 1
    OBVIOUS
  <1>2. \A i \in 1..Len(q) : Append(q, e)[i] = q[i]
    OBVIOUS
  <1>3. Append(q, e)[Len(q) + 1] = e
    OBVIOUS
  <1>4. 1..(Len(q) + 1) = 1..Len(q) \cup {Len(q) + 1}
    BY <1>1
  <1>. QED  BY <1>1, <1>2, <1>3, <1>4 DEF Elements

LEMMA TailElements ==
  ASSUME NEW S, NEW q \in Seq(S), q # <<>>
  PROVE  /\ Elements(q) = {Head(q)} \cup Elements(Tail(q))
         /\ Head(q) = q[1] /\ 1 \in 1..Len(q)
         /\ \A i \in 1..Len(Tail(q)) :
              i \in Nat /\ i + 1 \in 1..Len(q) /\ Tail(q)[i] = q[i + 1]
  <1>1. Len(q) \in Nat /\ Len(q) > 0 /\ Len(Tail(q)) = Len(q) - 1
    OBVIOUS
  <1>2. Head(q) = q[1] /\ 1 \in 1..Len(q)
    BY <1>1
  <1>3. \A i \in 1..Len(Tail(q)) :
          i \in Nat /\ i + 1 \in 1..Len(q) /\ Tail(q)[i] = q[i + 1]
    BY <1>1
  <1>4. \A i \in 1..Len(q) : i = 1 \/ (i - 1 \in 1..Len(Tail(q)) /\ (i - 1) + 1 = i)
    BY <1>1
  <1>5. Elements(q) \subseteq {Head(q)} \cup Elements(Tail(q))
    BY <1>2, <1>3, <1>4 DEF Elements
  <1>6. {Head(q)} \cup Elements(Tail(q)) \subseteq Elements(q)
    BY <1>2, <1>3 DEF Elements
  <1>. QED  BY <1>2, <1>3, <1>5, <1>6

(* What is held is held by a batch of the state only: a step that moves no *)
(* batch and answers a new caller at once.                                 *)
LEMMA OwnershipKept ==
  ASSUME Ownership, BatchTypeOK, \A b \in Turns : Held(b)' <=> Held(b),
         UNCHANGED constituents,
         \A t \in Turns : \/ result'[t] = result[t]
                          \/ result'[t] \notin {"idle", "waiting"}
  PROVE  Ownership'
  <1>1. \A b \in Turns : Members(b)' = Members(b) /\ Members(b) \subseteq Turns
    BY DEF Members, BatchTypeOK
  <1>2. DisjointMembers'
    BY <1>1 DEF Ownership, DisjointMembers
  <1>3. MemberInv'
    <2>. SUFFICES ASSUME NEW b \in Turns
                  PROVE  /\ Held(b)' => \A m \in Members(b)' : result'[m] # "idle"
                         /\ ~Held(b)' => constituents'[b] = {}
                         /\ b \in Ordinary => constituents'[b] \subseteq Ordinary
      BY DEF MemberInv
    <2>. QED  BY <1>1 DEF Ownership, MemberInv
  <1>4. WaiterHeld'
    BY <1>1 DEF Ownership, WaiterHeld
  <1>. QED  BY <1>2, <1>3, <1>4 DEF Ownership

(* Attach and Merge: a new caller joins a batch that is held. *)
LEMMA OwnershipJoined ==
  ASSUME Ownership, BatchTypeOK, CallerTypeOK, NEW t \in Turns, NEW b \in Turns,
         \A x \in Turns : Held(x)' <=> Held(x),
         Held(b), result[t] = "idle", b \in Ordinary => t \in Ordinary,
         constituents' = [constituents EXCEPT ![b] = @ \cup {t}],
         result' = [result EXCEPT ![t] = "waiting"]
  PROVE  Ownership'
  <1>1. \A x \in Turns : Members(x)' = IF x = b THEN Members(b) \cup {t} ELSE Members(x)
    BY DEF Members, BatchTypeOK
  <1>2. \A x \in Turns : Members(x) \subseteq Turns
    BY DEF Members, BatchTypeOK
  <1>3. \A x \in Turns : Held(x) => t \notin Members(x)
    BY DEF Ownership, MemberInv
  <1>4. DisjointMembers'
    <2>. SUFFICES ASSUME NEW x \in Turns, NEW y \in Turns, Held(x), Held(y), x # y
                  PROVE  Members(x)' \cap Members(y)' = {}
      BY DEF DisjointMembers
    <2>1. Members(x) \cap Members(y) = {} /\ t \notin Members(x) /\ t \notin Members(y)
      BY <1>3 DEF Ownership, DisjointMembers
    <2>2. /\ Members(x)' \subseteq Members(x) \cup {t}
          /\ Members(y)' \subseteq Members(y) \cup {t}
          /\ x # b => Members(x)' = Members(x)
          /\ y # b => Members(y)' = Members(y)
      BY <1>1
    <2>. QED  BY <2>1, <2>2
  <1>5. MemberInv'
    <2>. SUFFICES ASSUME NEW x \in Turns
                  PROVE  /\ Held(x)' => \A m \in Members(x)' : result'[m] # "idle"
                         /\ ~Held(x)' => constituents'[x] = {}
                         /\ x \in Ordinary => constituents'[x] \subseteq Ordinary
      BY DEF MemberInv
    <2>1. Held(x)' => \A m \in Members(x)' : result'[m] # "idle"
      BY <1>1, <1>2 DEF Ownership, MemberInv, CallerTypeOK
    <2>2. ~Held(x)' => constituents'[x] = {}
      BY DEF Ownership, MemberInv, BatchTypeOK
    <2>3. x \in Ordinary => constituents'[x] \subseteq Ordinary
      BY DEF Ownership, MemberInv, BatchTypeOK
    <2>. QED  BY <2>1, <2>2, <2>3
  <1>6. WaiterHeld'
    <2>. SUFFICES ASSUME NEW u \in Turns, result'[u] = "waiting"
                  PROVE  \E x \in Turns : Held(x)' /\ u \in Members(x)'
      BY DEF WaiterHeld
    <2>1. CASE u = t
      BY <2>1, <1>1
    <2>2. CASE u # t
      <3>1. result[u] = "waiting"
        BY <2>2 DEF CallerTypeOK
      <3>2. PICK x \in Turns : Held(x) /\ u \in Members(x)
        BY <3>1 DEF Ownership, WaiterHeld
      <3>. QED  BY <3>2, <1>1
    <2>. QED  BY <2>1, <2>2
  <1>. QED  BY <1>4, <1>5, <1>6 DEF Ownership

(* Push: a new caller becomes a batch of its own. *)
LEMMA OwnershipPushed ==
  ASSUME Ownership, BatchTypeOK, CallerTypeOK, NEW t \in Turns,
         \A x \in Turns : Held(x)' <=> (Held(x) \/ x = t),
         result[t] = "idle", UNCHANGED constituents,
         result' = [result EXCEPT ![t] = "waiting"]
  PROVE  Ownership'
  <1>1. \A x \in Turns : /\ Members(x)' = Members(x) /\ Members(x) \subseteq Turns
                         /\ x \in Members(x)
    BY DEF Members, BatchTypeOK
  <1>2. \A x \in Turns : Held(x) => t \notin Members(x)
    BY DEF Ownership, MemberInv
  <1>3. ~Held(t) /\ Members(t) = {t}
    BY <1>1, <1>2 DEF Ownership, MemberInv, Members
  <1>4. DisjointMembers'
    <2>. SUFFICES ASSUME NEW x \in Turns, NEW y \in Turns, Held(x)', Held(y)', x # y
                  PROVE  Members(x) \cap Members(y) = {}
      BY <1>1 DEF DisjointMembers
    <2>1. CASE Held(x) /\ Held(y)
      BY <2>1 DEF Ownership, DisjointMembers
    <2>2. CASE x = t /\ Held(y)
      BY <2>2, <1>2, <1>3
    <2>3. CASE y = t /\ Held(x)
      BY <2>3, <1>2, <1>3
    <2>. QED  BY <2>1, <2>2, <2>3
  <1>5. MemberInv'
    <2>. SUFFICES ASSUME NEW x \in Turns
                  PROVE  /\ Held(x)' => \A m \in Members(x)' : result'[m] # "idle"
                         /\ ~Held(x)' => constituents'[x] = {}
                         /\ x \in Ordinary => constituents'[x] \subseteq Ordinary
      BY DEF MemberInv
    <2>1. Held(x)' => \A m \in Members(x)' : result'[m] # "idle"
      BY <1>1, <1>3 DEF Ownership, MemberInv, CallerTypeOK
    <2>2. ~Held(x)' => constituents'[x] = {}
      BY DEF Ownership, MemberInv
    <2>3. x \in Ordinary => constituents'[x] \subseteq Ordinary
      BY DEF Ownership, MemberInv
    <2>. QED  BY <2>1, <2>2, <2>3
  <1>6. WaiterHeld'
    <2>. SUFFICES ASSUME NEW u \in Turns, result'[u] = "waiting"
                  PROVE  \E x \in Turns : Held(x)' /\ u \in Members(x)'
      BY DEF WaiterHeld
    <2>1. CASE u = t
      BY <2>1, <1>1
    <2>2. CASE u # t
      <3>1. result[u] = "waiting"
        BY <2>2 DEF CallerTypeOK
      <3>2. PICK x \in Turns : Held(x) /\ u \in Members(x)
        BY <3>1 DEF Ownership, WaiterHeld
      <3>. QED  BY <3>2, <1>1
    <2>. QED  BY <2>1, <2>2
  <1>. QED  BY <1>4, <1>5, <1>6 DEF Ownership

(* completeTurn of some held batches: their waiters, and only theirs, are  *)
(* answered, so every other waiter keeps its batch.                        *)
LEMMA OwnershipCompleted ==
  ASSUME Ownership, BatchTypeOK, CallerTypeOK, NEW batches \in SUBSET Turns,
         NEW err \in Answers, completeTurns(batches, err),
         \A b \in batches : Held(b),
         \A x \in Turns : /\ Held(x)' => Held(x)
                          /\ Held(x) /\ x \notin batches => Held(x)'
  PROVE  Ownership'
  <1>1. err \notin {"idle", "waiting"}
    BY DEF Answers, RunErrors
  <1>2. \A x \in Turns : /\ Members(x)' = IF x \in batches THEN {x} ELSE Members(x)
                         /\ x \in Members(x) /\ Members(x) \subseteq Turns
    BY DEF Members, BatchTypeOK, completeTurns
  <1>3. DisjointMembers'
    <2>. SUFFICES ASSUME NEW x \in Turns, NEW y \in Turns, Held(x)', Held(y)', x # y
                  PROVE  Members(x)' \cap Members(y)' = {}
      BY DEF DisjointMembers
    <2>1. Members(x) \cap Members(y) = {}
      BY DEF Ownership, DisjointMembers
    <2>2. Members(x)' \subseteq Members(x) /\ Members(y)' \subseteq Members(y)
      BY <1>2
    <2>. QED  BY <2>1, <2>2
  <1>4. MemberInv'
    <2>. SUFFICES ASSUME NEW x \in Turns
                  PROVE  /\ Held(x)' => \A m \in Members(x)' : result'[m] # "idle"
                         /\ ~Held(x)' => constituents'[x] = {}
                         /\ x \in Ordinary => constituents'[x] \subseteq Ordinary
      BY DEF MemberInv
    <2>1. Held(x)' => \A m \in Members(x)' : result'[m] # "idle"
      <3>1. Members(x)' \subseteq Members(x)
        BY <1>2
      <3>2. \A m \in Turns : result[m] # "idle" => result'[m] # "idle"
        BY <1>1 DEF completeTurns
      <3>. QED  BY <1>2, <3>1, <3>2 DEF Ownership, MemberInv
    <2>2. ~Held(x)' => constituents'[x] = {}
      BY DEF Ownership, MemberInv, completeTurns
    <2>3. x \in Ordinary => constituents'[x] \subseteq Ordinary
      BY DEF Ownership, MemberInv, completeTurns
    <2>. QED  BY <2>1, <2>2, <2>3
  <1>5. WaiterHeld'
    <2>. SUFFICES ASSUME NEW u \in Turns, result'[u] = "waiting"
                  PROVE  \E x \in Turns : Held(x)' /\ u \in Members(x)'
      BY DEF WaiterHeld
    <2>1. result[u] = "waiting" /\ \A b \in batches : u \notin Members(b)
      BY <1>1 DEF completeTurns
    <2>2. PICK x \in Turns : Held(x) /\ u \in Members(x)
      BY <2>1 DEF Ownership, WaiterHeld
    <2>. QED  BY <2>1, <2>2, <1>2
  <1>. QED  BY <1>3, <1>4, <1>5 DEF Ownership

(* Keys: nothing new is admitted, and no batch grows. *)
LEMMA KeysKept ==
  ASSUME KeyAdmittedOnce, \A s \in Sessions : Admitted(s)' \subseteq Admitted(s),
         \A b \in Turns : constituents'[b] \subseteq constituents[b]
  PROVE  KeyAdmittedOnce'
  <1>. SUFFICES ASSUME NEW s \in Sessions, NEW b1 \in Admitted(s)' \cap Ordinary,
                       NEW b2 \in Admitted(s)' \cap Ordinary, b1 # b2
                PROVE  BatchKeys(b1)' \cap BatchKeys(b2)' = {}
    BY DEF KeyAdmittedOnce, BatchKeys
  <1>1. b1 \in Turns /\ b2 \in Turns /\ b1 \in Admitted(s) /\ b2 \in Admitted(s)
    BY DEF Ordinary
  <1>2. BatchKeys(b1) \cap BatchKeys(b2) = {}
    BY <1>1 DEF KeyAdmittedOnce, BatchKeys
  <1>3. BatchKeys(b1)' \subseteq BatchKeys(b1) /\ BatchKeys(b2)' \subseteq BatchKeys(b2)
    BY <1>1 DEF BatchKeys, Members
  <1>. QED  BY <1>2, <1>3

(* A caller joins a batch under a key that no other admitted batch of the  *)
(* session has.                                                            *)
LEMMA KeysJoined ==
  ASSUME KeyAdmittedOnce, BatchTypeOK, NEW t \in Turns, NEW b \in Turns,
         \A s \in Sessions : Admitted(s)' = Admitted(s),
         constituents' = [constituents EXCEPT ![b] = @ \cup {t}],
         \A s \in Sessions : b \in Admitted(s) \cap Ordinary =>
            \A x \in Admitted(s) \cap Ordinary : x # b => KeyOf[t] \notin BatchKeys(x)
  PROVE  KeyAdmittedOnce'
  <1>. SUFFICES ASSUME NEW s \in Sessions, NEW b1 \in Admitted(s) \cap Ordinary,
                       NEW b2 \in Admitted(s) \cap Ordinary, b1 # b2
                PROVE  BatchKeys(b1)' \cap BatchKeys(b2)' = {}
    BY DEF KeyAdmittedOnce, BatchKeys
  <1>1. \A x \in Turns : BatchKeys(x)' = IF x = b THEN BatchKeys(x) \cup {KeyOf[t]}
                                         ELSE BatchKeys(x)
    BY DEF BatchKeys, Members, BatchTypeOK
  <1>2. BatchKeys(b1) \cap BatchKeys(b2) = {} /\ b1 \in Turns /\ b2 \in Turns
    BY DEF KeyAdmittedOnce, BatchKeys, Ordinary
  <1>. QED  BY <1>1, <1>2

(* A caller becomes a batch under a new key. *)
LEMMA KeysPushed ==
  ASSUME KeyAdmittedOnce, NEW t \in Turns, NEW s \in Sessions,
         \A r \in Sessions : Admitted(r)' \subseteq
            IF r = s THEN Admitted(r) \cup {t} ELSE Admitted(r),
         UNCHANGED constituents, constituents[t] = {},
         t \in Ordinary => \A x \in Admitted(s) \cap Ordinary : KeyOf[t] \notin BatchKeys(x)
  PROVE  KeyAdmittedOnce'
  <1>. SUFFICES ASSUME NEW r \in Sessions, NEW b1 \in Admitted(r)' \cap Ordinary,
                       NEW b2 \in Admitted(r)' \cap Ordinary, b1 # b2
                PROVE  BatchKeys(b1) \cap BatchKeys(b2) = {}
    BY DEF KeyAdmittedOnce, BatchKeys, Members
  <1>1. BatchKeys(t) = {KeyOf[t]}
    BY DEF BatchKeys, Members
  <1>2. CASE b1 \in Admitted(r) /\ b2 \in Admitted(r)
    BY <1>2 DEF KeyAdmittedOnce, BatchKeys
  <1>3. CASE r = s /\ b1 = t /\ b2 \in Admitted(s)
    BY <1>3, <1>1
  <1>4. CASE r = s /\ b2 = t /\ b1 \in Admitted(s)
    BY <1>4, <1>1
  <1>. QED  BY <1>2, <1>3, <1>4

(* Remembering a new operation keeps the remembered ones distinct. *)
Distinct(cache) == \A i, j \in 1..Len(cache) : cache[i].op = cache[j].op => i = j

LEMMA RememberDistinct ==
  ASSUME NEW cache \in Seq(CachedResults), Len(cache) <= TerminalLimit,
         NEW r \in Replacements, NEW err \in Answers, Distinct(cache),
         \A i \in 1..Len(cache) : cache[i].op # OpOf[r]
  PROVE  Distinct(rememberReplacementResult(cache, OpOf[r], HashOf[r], err))
  <1>. DEFINE kept == IF Len(cache) = TerminalLimit THEN Tail(cache) ELSE cache
              entry == [op |-> OpOf[r], hash |-> HashOf[r], err |-> err]
  <1>1. entry \in CachedResults /\ entry.op = OpOf[r]
    BY DEF CachedResults
  <1>2. /\ kept \in Seq(CachedResults) /\ Len(kept) \in Nat
        /\ Distinct(kept) /\ \A i \in 1..Len(kept) : kept[i].op # OpOf[r]
    <2>1. CASE Len(cache) = TerminalLimit
      <3>1. cache # <<>>
        BY <2>1, LimitAssumption
      <3>2. /\ Tail(cache) \in Seq(CachedResults) /\ Len(Tail(cache)) \in Nat
            /\ \A i \in 1..Len(Tail(cache)) :
                 i \in Nat /\ i + 1 \in 1..Len(cache) /\ Tail(cache)[i] = cache[i + 1]
        BY <3>1, TailElements, TailFacts
      <3>. QED  BY <2>1, <3>2 DEF Distinct
    <2>2. CASE Len(cache) # TerminalLimit
      BY <2>2
    <2>. QED  BY <2>1, <2>2
  <1>. HIDE DEF kept, entry
  <1>3. \A i \in 1..Len(Append(kept, entry)) :
          \/ i \in 1..Len(kept) /\ Append(kept, entry)[i] = kept[i]
          \/ i = Len(kept) + 1 /\ Append(kept, entry)[i] = entry
    BY <1>1, <1>2, AppendElements
  <1>4. Distinct(Append(kept, entry))
    BY <1>1, <1>2, <1>3 DEF Distinct
  <1>. QED  BY <1>4 DEF rememberReplacementResult, kept, entry

(* finishReplacementLocked remembers an operation that was not remembered. *)
LEMMA FinishFresh ==
  ASSUME Inv, ReplacementFresh, NEW s \in Sessions, NEW leaving \in SUBSET Turns,
         NEW err \in Answers, finishReplacementLocked(s, leaving, err)
  PROVE  ReplacementFresh'
  <1>1. CASE replacement[s] \in leaving
    <2>. DEFINE new == rememberReplacementResult(terminal[s],
                  OpOf[replacement[s]], HashOf[replacement[s]],
                  boundedReplacementError(err))
    <2>1. replacement[s] \in Replacements /\ replacement[s] # NoTurn
      BY <1>1, TurnAssumption DEF Inv, TypeOK, QueueTypeOK
    <2>2. boundedReplacementError(err) \in Answers
      BY DEF boundedReplacementError, Answers
    <2>3. Distinct(new)
      BY <2>1, <2>2, RememberDistinct
         DEF Inv, TypeOK, QueueTypeOK, ReplacementFresh, Distinct
    <2>4. /\ replacement' = [replacement EXCEPT ![s] = NoTurn]
          /\ terminal' = [terminal EXCEPT ![s] = new]
      BY <1>1 DEF finishReplacementLocked
    <2>. HIDE DEF new
    <2>. QED
      BY <2>3, <2>4 DEF Inv, TypeOK, QueueTypeOK, ReplacementFresh, Distinct
  <1>2. CASE replacement[s] \notin leaving
    BY <1>2 DEF finishReplacementLocked, ReplacementFresh
  <1>. QED  BY <1>1, <1>2

-----------------------------------------------------------------------------
(* A step that moves no batch: it may let a worker go on, cancel a context,*)
(* finish a replacement or answer a caller at once.                        *)
LEMMA QuietOwn ==
  ASSUME Inv, OwnInv, UNCHANGED <<pending, current, constituents>>,
         \A t \in Turns : \/ result'[t] = result[t]
                          \/ result'[t] \notin {"idle", "waiting"},
         \A b \in Turns : Dropped(b)' <=> Dropped(b),
         \A s \in Sessions : running'[s] \in {running[s], NoTurn},
         \A s \in Sessions :
            worker'[s] \notin Busy \cup {"complete"} => current[s] = NoTurn,
         RanInv', ReplacementFresh'
  PROVE  OwnInv'
  <1>1. \A b \in Turns : /\ Queued(b)' <=> Queued(b)
                         /\ InHand(b)' <=> InHand(b)
                         /\ Held(b)' <=> Held(b)
    BY DEF Queued, InHand, Held
  <1>2. HandInv' /\ QueuedOnce'
    BY DEF OwnInv, HandInv, QueuedOnce
  <1>3. OnePlace'
    BY <1>1 DEF OwnInv, OnePlace
  <1>4. Ownership'
    BY <1>1, OwnershipKept DEF OwnInv, Inv, TypeOK
  <1>5. KeyAdmittedOnce'
    <2>1. \A s \in Sessions : Admitted(s)' \subseteq Admitted(s)
      BY DEF Admitted
    <2>. QED  BY <2>1, KeysKept DEF OwnInv
  <1>. QED  BY <1>2, <1>3, <1>4, <1>5 DEF OwnInv

LEMMA InitOwn == Init => OwnInv
  <1>. SUFFICES ASSUME Init PROVE OwnInv
    OBVIOUS
  <1>1. HandInv /\ QueuedOnce /\ RanInv /\ ReplacementFresh
    BY DEF Init, HandInv, QueuedOnce, RanInv, ReplacementFresh
  <1>2. \A b \in Turns : ~Queued(b) /\ ~InHand(b) /\ ~Dropped(b) /\ ~Held(b)
    BY TurnAssumption DEF Init, Queued, Elements, InHand, Dropped, Held
  <1>3. OnePlace /\ Ownership
    BY <1>2 DEF Init, OnePlace, Ownership, DisjointMembers, MemberInv, WaiterHeld
  <1>4. KeyAdmittedOnce
    BY DEF Init, KeyAdmittedOnce, Admitted, Elements
  <1>. QED  BY <1>1, <1>3, <1>4 DEF OwnInv

LEMMA ReplyOwn ==
  ASSUME Inv, OwnInv, NEW t \in Turns, NEW what \in Answers \cup Refusals,
         Reply(t, what)
  PROVE  OwnInv'
  <1>1. \A u \in Turns : \/ result'[u] = result[u]
                         \/ result'[u] \notin {"idle", "waiting"}
    BY DEF Reply, Inv, TypeOK, CallerTypeOK, Answers, RunErrors, Refusals
  <1>2. RanInv' /\ ReplacementFresh'
    BY DEF Reply, OwnInv, RanInv, ReplacementFresh, queueVars, workerVars
  <1>. QED
    BY <1>1, <1>2, QuietOwn
       DEF Reply, Dropped, OwnInv, HandInv, queueVars, workerVars, batchVars

(* A batch that is admitted is held. *)
LEMMA AdmittedHeld ==
  ASSUME Inv, NEW s \in Sessions, NEW b \in Admitted(s)
  PROVE  b \in Turns /\ Held(b)
  <1>1. CASE b \in Elements(pending[s])
    BY <1>1, QueueElements DEF Held, Queued, Inv, TypeOK, QueueTypeOK
  <1>2. CASE b = running[s] /\ b # NoTurn
    <2>1. current[s] = b /\ b \in Turns
      BY <1>2 DEF Inv, CoreInv, WorkerInv, TypeOK, QueueTypeOK, TurnOrNone
    <2>. QED  BY <2>1 DEF Held, InHand
  <1>. QED  BY <1>1, <1>2 DEF Admitted

(* A batch is admitted to one session. *)
LEMMA AdmittedOnce ==
  ASSUME Inv, OwnInv, NEW s \in Sessions, NEW r \in Sessions,
         NEW b \in Admitted(s), b \in Admitted(r)
  PROVE  s = r
  <1>1. \A x \in Sessions : running[x] # NoTurn => current[x] = running[x]
    BY DEF Inv, CoreInv, WorkerInv
  <1>2. b \in Turns
    BY AdmittedHeld
  <1>3. CASE b \in Elements(pending[s]) /\ b \in Elements(pending[r])
    BY <1>3 DEF Elements, OwnInv, QueuedOnce
  <1>4. CASE b = running[s] /\ b = running[r] /\ b # NoTurn
    BY <1>1, <1>4 DEF OwnInv, HandInv
  <1>5. ~(Queued(b) /\ InHand(b))
    BY <1>2 DEF OwnInv, OnePlace
  <1>. QED  BY <1>1, <1>3, <1>4, <1>5 DEF Admitted, Queued, InHand

(* Attach and Merge. *)
LEMMA JoinOwn ==
  ASSUME Inv, OwnInv, NEW t \in Turns, NEW s \in Sessions, NEW b \in Admitted(s),
         result[t] = "idle", b \in Ordinary => t \in Ordinary,
         constituents' = [constituents EXCEPT ![b] = @ \cup {t}],
         result' = [result EXCEPT ![t] = "waiting"],
         UNCHANGED <<queueVars, workerVars, calls, ran>>,
         b \in Ordinary =>
            \/ AttachTargets(s, t) = {}
            \/ b \in AttachTargets(s, t)
  PROVE  OwnInv'
  <1>1. b \in Turns /\ Held(b)
    BY AdmittedHeld
  <1>2. \A x \in Turns : /\ Queued(x)' <=> Queued(x)
                         /\ InHand(x)' <=> InHand(x)
                         /\ Dropped(x)' <=> Dropped(x)
                         /\ Held(x)' <=> Held(x)
    BY DEF Queued, InHand, Dropped, Held, queueVars, workerVars
  <1>3. HandInv' /\ QueuedOnce' /\ RanInv' /\ ReplacementFresh'
    BY DEF OwnInv, HandInv, QueuedOnce, RanInv, ReplacementFresh, queueVars, workerVars
  <1>4. OnePlace'
    BY <1>2 DEF OwnInv, OnePlace
  <1>5. Ownership'
    BY <1>1, <1>2, OwnershipJoined DEF OwnInv, Inv, TypeOK
  <1>6. KeyAdmittedOnce'
    <2>1. \A r \in Sessions : Admitted(r)' = Admitted(r)
      BY DEF Admitted, queueVars
    <2>2. ASSUME NEW r \in Sessions, b \in Admitted(r) \cap Ordinary,
                 NEW x \in Admitted(r) \cap Ordinary, x # b
          PROVE  KeyOf[t] \notin BatchKeys(x)
      <3>1. r = s
        BY <2>2, AdmittedOnce
      <3>2. Members(x) \subseteq Ordinary
        BY DEF OwnInv, Ownership, MemberInv, Members, Ordinary
      <3>3. CASE AttachTargets(s, t) = {}
        BY <3>1, <3>2, <3>3 DEF AttachTargets, Admitted, ContainsKey, BatchKeys
      <3>4. CASE b \in AttachTargets(s, t)
        <4>1. KeyOf[t] \in BatchKeys(b)
          BY <3>4 DEF AttachTargets, ContainsKey, BatchKeys
        <4>2. BatchKeys(x) \cap BatchKeys(b) = {}
          BY <2>2, <3>1 DEF OwnInv, KeyAdmittedOnce, BatchKeys
        <4>. QED  BY <4>1, <4>2
      <3>. QED  BY <2>2, <3>3, <3>4
    <2>. QED  BY <1>1, <2>1, <2>2, KeysJoined DEF OwnInv, Inv, TypeOK
  <1>. QED  BY <1>3, <1>4, <1>5, <1>6 DEF OwnInv

(* Push of a turn whose key, if it has one, no admitted batch holds. *)
LEMMA PushOwn ==
  ASSUME Inv, OwnInv, NEW t \in Turns, NEW s \in Sessions, Push(s, t),
         result[t] = "idle", t \in Ordinary => AttachTargets(s, t) = {},
         ReplacementFresh'
  PROVE  OwnInv'
  <1>0. pending \in [Sessions -> Seq(Turns)] /\ pending[s] \in Seq(Turns)
    BY DEF Inv, TypeOK, QueueTypeOK
  <1>1. ~Held(t) /\ constituents[t] = {}
    BY DEF OwnInv, Ownership, MemberInv, Members
  <1>2. /\ pending' = [pending EXCEPT ![s] = Append(pending[s], t)]
        /\ UNCHANGED <<running, current, outcome, constituents, calls, ran>>
        /\ result' = [result EXCEPT ![t] = "waiting"]
    BY DEF Push
  <1>3. /\ Elements(pending'[s]) = Elements(pending[s]) \cup {t}
        /\ \A r \in Sessions \ {s} : pending'[r] = pending[r]
    BY <1>0, <1>2, AppendElements
  <1>4. \A x \in Turns : /\ Queued(x)' <=> (Queued(x) \/ x = t)
                         /\ InHand(x)' <=> InHand(x)
                         /\ Dropped(x)' <=> Dropped(x)
    BY <1>2, <1>3 DEF Queued, InHand, Dropped
  <1>5. \A x \in Turns : Held(x)' <=> (Held(x) \/ x = t)
    BY <1>4 DEF Held
  <1>6. \A r \in Sessions : worker'[r] = worker[r] \/ (worker'[r] = "next" /\ worker[r] = "none")
    BY DEF Push, EnsureQueue, Inv, CoreInv, QueueInv, TypeOK, WorkerTypeOK
  <1>7. HandInv' /\ RanInv'
    BY <1>2, <1>6 DEF OwnInv, HandInv, RanInv, Busy
  <1>8. QueuedOnce'
    <2>. SUFFICES ASSUME NEW u \in Sessions, NEW r \in Sessions,
                         NEW i \in 1..Len(pending'[u]), NEW j \in 1..Len(pending'[r]),
                         pending'[u][i] = pending'[r][j]
                  PROVE  u = r /\ i = j
      BY DEF QueuedOnce
    <2>1. \A x \in Sessions : \A k \in 1..Len(pending'[x]) :
            \/ k \in 1..Len(pending[x]) /\ pending'[x][k] = pending[x][k]
            \/ x = s /\ k = Len(pending[s]) + 1 /\ pending'[x][k] = t
      BY <1>0, <1>2, AppendElements
    <2>2. \A x \in Sessions : \A k \in 1..Len(pending[x]) : pending[x][k] # t
      BY <1>1 DEF Held, Queued, Elements
    <2>. QED  BY <2>1, <2>2 DEF OwnInv, QueuedOnce
  <1>9. OnePlace'
    BY <1>1, <1>4 DEF OwnInv, OnePlace, Held
  <1>10. Ownership'
    BY <1>2, <1>5, OwnershipPushed DEF OwnInv, Inv, TypeOK
  <1>11. KeyAdmittedOnce'
    <2>1. \A r \in Sessions : Admitted(r)' \subseteq
            IF r = s THEN Admitted(r) \cup {t} ELSE Admitted(r)
      BY <1>2, <1>3 DEF Admitted
    <2>2. ASSUME t \in Ordinary, NEW x \in Admitted(s) \cap Ordinary
          PROVE  KeyOf[t] \notin BatchKeys(x)
      <3>1. Members(x) \subseteq Ordinary
        BY DEF OwnInv, Ownership, MemberInv, Members, Ordinary
      <3>. QED  BY <2>2, <3>1 DEF AttachTargets, Admitted, ContainsKey, BatchKeys
    <2>. QED  BY <1>1, <1>2, <2>1, <2>2, KeysPushed DEF OwnInv
  <1>. QED  BY <1>7, <1>8, <1>9, <1>10, <1>11 DEF OwnInv

LEMMA EnqueueOwn == ASSUME Inv, OwnInv, NEW t \in Turns, Enqueue(t) PROVE OwnInv'
  <1>. DEFINE s == SessionOf[t]
  <1>0. s \in Sessions /\ t \in Ordinary /\ result[t] = "idle"
    BY TurnAssumption DEF Enqueue
  <1>1. CASE EnqueueStopping(t)
    BY <1>1, ReplyOwn DEF EnqueueStopping, Refusals
  <1>2. CASE EnqueueDuplicate(t)
    <2>1. PICK b \in AttachTargets(s, t) : Attach(t, b)
      BY <1>2 DEF EnqueueDuplicate
    <2>2. b \in Admitted(s)
      BY <2>1 DEF AttachTargets, Admitted
    <2>. QED  BY <1>0, <2>1, <2>2, JoinOwn DEF Attach
  <1>3. CASE EnqueueBusy(t)
    BY <1>3, ReplyOwn DEF EnqueueBusy, Refusals
  <1>4. CASE EnqueueMerged(t)
    <2>1. PICK i \in MergePositions(s, t) : Merge(pending[s][i], t)
      BY <1>4 DEF EnqueueMerged
    <2>2. pending[s][i] \in Admitted(s) /\ AttachTargets(s, t) = {}
      BY <1>4, <2>1 DEF EnqueueMerged, Admissible, MergePositions, Admitted, Elements
    <2>. QED  BY <1>0, <2>1, <2>2, JoinOwn DEF Merge
  <1>5. CASE EnqueueAppended(t)
    <2>1. Push(s, t) /\ AttachTargets(s, t) = {} /\ UNCHANGED <<replacement, terminal>>
      BY <1>5 DEF EnqueueAppended, Admissible, Push
    <2>2. ReplacementFresh'
      BY <2>1 DEF OwnInv, ReplacementFresh
    <2>. QED  BY <1>0, <2>1, <2>2, PushOwn
  <1>. QED  BY <1>1, <1>2, <1>3, <1>4, <1>5 DEF Enqueue

LEMMA EnqueueReplacementOwn ==
  ASSUME Inv, OwnInv, NEW t \in Turns, EnqueueReplacement(t) PROVE OwnInv'
  <1>. DEFINE s == SessionOf[t]
  <1>0. /\ s \in Sessions /\ t \in Replacements /\ t \notin Ordinary
        /\ result[t] = "idle"
    BY TurnAssumption DEF EnqueueReplacement, Ordinary
  <1>1. CASE stopping /\ Reply(t, "stopping")
    BY <1>1, ReplyOwn DEF Refusals
  <1>2. CASE EnqueueReplacementReplayed(t)
    <2>1. PICK i \in 1..Len(terminal[s]) :
            \/ Reply(t, "conflict")
            \/ Reply(t, terminal[s][i].err)
      BY <1>2 DEF EnqueueReplacementReplayed
    <2>2. terminal[s] \in Seq(CachedResults)
      BY <1>0 DEF Inv, TypeOK, QueueTypeOK
    <2>3. terminal[s][i] \in CachedResults
      BY <2>1, <2>2
    <2>4. terminal[s][i].err \in Answers
      BY <2>3 DEF CachedResults
    <2>. QED  BY <2>1, <2>4, ReplyOwn DEF Refusals
  <1>3. CASE EnqueueReplacementPending(t)
    <2>1. \/ Reply(t, "replacing")
          \/ Reply(t, "conflict")
          \/ Attach(t, replacement[s])
      BY <1>3 DEF EnqueueReplacementPending
    <2>2. replacement[s] # NoTurn /\ replacement[s] \in Replacements
      BY <1>0, <1>3 DEF EnqueueReplacementPending, Inv, TypeOK, QueueTypeOK
    <2>3. replacement[s] \in Admitted(s) /\ replacement[s] \notin Ordinary
      <3>1. pending[s] # <<>> => pending[s][Len(pending[s])] \in Elements(pending[s])
        BY <1>0, QueueElements DEF Inv, TypeOK, QueueTypeOK
      <3>. QED
        BY <1>0, <2>2, <3>1 DEF Inv, CoreInv, ReplacementIsBoundary, Admitted, Ordinary
    <2>. QED  BY <1>0, <2>1, <2>3, ReplyOwn, JoinOwn DEF Refusals, Attach
  <1>4. CASE EnqueueReplacementAppended(t)
    <2>1. CASE Reply(t, "full")
      BY <2>1, ReplyOwn DEF Refusals
    <2>2. CASE ~Reply(t, "full")
      <3>1. /\ Push(s, t) /\ UNCHANGED terminal
            /\ replacement' = [replacement EXCEPT ![s] = t]
            /\ OpOf[t] \notin TerminalOps(s)
        BY <1>4, <2>2 DEF EnqueueReplacementAppended, Push
      <3>2. ReplacementFresh'
        BY <1>0, <3>1 DEF OwnInv, ReplacementFresh, TerminalOps, Inv, TypeOK, QueueTypeOK
      <3>. QED  BY <1>0, <3>1, <3>2, PushOwn
    <2>. QED  BY <2>1, <2>2
  <1>. QED  BY <1>1, <1>2, <1>3, <1>4 DEF EnqueueReplacement

(* A worker without a turn that sleeps, wakes or leaves. *)
LEMMA IdleOwn ==
  ASSUME Inv, OwnInv, NEW s \in Sessions,
         worker[s] \in {"next", "wait"},
         worker' = [worker EXCEPT ![s] = "next"]
            \/ worker' = [worker EXCEPT ![s] = "wait"]
            \/ worker' = [worker EXCEPT ![s] = "none"],
         UNCHANGED <<pending, running, replacement, current, outcome, constituents,
                     calls, result, ran>>,
         terminal' = terminal \/ terminal' = [terminal EXCEPT ![s] = <<>>]
  PROVE  OwnInv'
  <1>1. \A r \in Sessions : r # s => worker'[r] = worker[r]
    BY DEF Inv, TypeOK, WorkerTypeOK
  <1>2. worker'[s] \in {"next", "wait", "none"}
    BY DEF Inv, TypeOK, WorkerTypeOK
  <1>3. RanInv'
    BY <1>1, <1>2 DEF OwnInv, RanInv
  <1>4. ReplacementFresh'
    BY DEF OwnInv, ReplacementFresh, Inv, TypeOK, QueueTypeOK
  <1>5. \A r \in Sessions :
          worker'[r] \notin Busy \cup {"complete"} => current[r] = NoTurn
    BY <1>1, <1>2 DEF OwnInv, HandInv, Busy
  <1>. QED  BY <1>3, <1>4, <1>5, QuietOwn DEF Dropped

LEMMA PopOwn ==
  ASSUME Inv, OwnInv, NEW s \in Sessions, NextTaskPop(s) PROVE OwnInv'
  <1>. DEFINE h == Head(pending[s])
              rest == Tail(pending[s])
  <1>0. pending \in [Sessions -> Seq(Turns)] /\ pending[s] # <<>>
    BY DEF NextTaskPop, Inv, TypeOK, QueueTypeOK
  <1>1. /\ h \in Turns /\ h = pending[s][1] /\ 1 \in 1..Len(pending[s])
        /\ Elements(pending[s]) = {h} \cup Elements(rest)
        /\ \A i \in 1..Len(rest) :
             i \in Nat /\ i + 1 \in 1..Len(pending[s]) /\ rest[i] = pending[s][i + 1]
    BY <1>0, TailFacts, TailElements
  <1>2. /\ pending' = [pending EXCEPT ![s] = rest]
        /\ running' = [running EXCEPT ![s] = h]
        /\ current' = [current EXCEPT ![s] = h]
        /\ worker' = [worker EXCEPT ![s] = "start"] /\ worker[s] = "next"
        /\ UNCHANGED <<replacement, terminal, outcome, constituents, calls, result, ran>>
    BY DEF NextTaskPop, batchVars
  <1>. HIDE DEF h, rest
  <1>3. h \notin Elements(rest)
    BY <1>1 DEF Elements, OwnInv, QueuedOnce
  <1>4. /\ pending'[s] = rest /\ current'[s] = h /\ running'[s] = h
        /\ \A r \in Sessions : r # s => /\ pending'[r] = pending[r]
                                        /\ current'[r] = current[r]
                                        /\ running'[r] = running[r]
                                        /\ worker'[r] = worker[r]
        /\ worker'[s] = "start" /\ current[s] = NoTurn /\ running[s] = NoTurn
    BY <1>0, <1>2 DEF Inv, TypeOK, QueueTypeOK, WorkerTypeOK, CoreInv, WorkerInv,
       OwnInv, HandInv, Busy
  <1>5. Queued(h) /\ \A r \in Sessions : r # s => h \notin Elements(pending[r])
    BY <1>1 DEF Queued, Elements, OwnInv, QueuedOnce
  <1>6. ~InHand(h) /\ ~Dropped(h)
    BY <1>1, <1>5 DEF OwnInv, OnePlace
  <1>7. \A x \in Turns : /\ Queued(x)' <=> (Queued(x) /\ x # h)
                         /\ InHand(x)' <=> (InHand(x) \/ x = h)
                         /\ Dropped(x)' <=> Dropped(x)
    <2>1. \A x \in Turns : Queued(x)' <=> (Queued(x) /\ x # h)
      BY <1>1, <1>3, <1>4, <1>5 DEF Queued
    <2>2. \A x \in Turns : InHand(x)' <=> (InHand(x) \/ x = h)
      BY <1>4, TurnAssumption DEF InHand
    <2>. QED  BY <2>1, <2>2, <1>2 DEF Dropped
  <1>8. \A x \in Turns : Held(x)' <=> Held(x)
    BY <1>5, <1>7 DEF Held
  <1>9. HandInv'
    BY <1>4, <1>6 DEF OwnInv, HandInv, InHand, Busy
  <1>10. QueuedOnce'
    <2>. SUFFICES ASSUME NEW u \in Sessions, NEW r \in Sessions,
                         NEW i \in 1..Len(pending'[u]), NEW j \in 1..Len(pending'[r]),
                         pending'[u][i] = pending'[r][j]
                  PROVE  u = r /\ i = j
      BY DEF QueuedOnce
    <2>. DEFINE Place(x, k) == IF x = s THEN k + 1 ELSE k
    <2>1. \A x \in Sessions : \A k \in 1..Len(pending'[x]) :
            /\ Place(x, k) \in 1..Len(pending[x])
            /\ pending'[x][k] = pending[x][Place(x, k)]
      BY <1>1, <1>4
    <2>. HIDE DEF Place
    <2>2. u = r /\ Place(u, i) = Place(r, j)
      <3>1. /\ Place(u, i) \in 1..Len(pending[u]) /\ Place(r, j) \in 1..Len(pending[r])
            /\ pending[u][Place(u, i)] = pending[r][Place(r, j)]
        BY <2>1
      <3>. QED  BY <3>1, Zenon DEF OwnInv, QueuedOnce
    <2>. QED  BY <2>2, <1>1, <1>4 DEF Place
  <1>11. OnePlace'
    BY <1>6, <1>7 DEF OwnInv, OnePlace
  <1>12. Ownership'
    BY <1>2, <1>8, OwnershipKept DEF OwnInv, Inv, TypeOK
  <1>13. KeyAdmittedOnce'
    <2>1. \A r \in Sessions : Admitted(r)' \subseteq Admitted(r)
      BY <1>1, <1>4 DEF Admitted
    <2>. QED  BY <1>2, <2>1, KeysKept DEF OwnInv
  <1>14. RanInv' /\ ReplacementFresh'
    BY <1>2, <1>4 DEF OwnInv, RanInv, ReplacementFresh
  <1>. QED  BY <1>9, <1>10, <1>11, <1>12, <1>13, <1>14 DEF OwnInv

(* The run of one turn: BeginRun and RunReturns move the worker, FinishRun *)
(* the replacement, and CompleteRun answers the batch.                     *)
LEMMA RunOwn ==
  ASSUME Inv, OwnInv, NEW s \in Sessions,
         \/ BeginRun(s) \/ \E err \in RunErrors : RunReturns(s, err)
         \/ FinishRun(s) \/ CompleteRun(s)
  PROVE  OwnInv'
  <1>. USE DEF Inv, TypeOK
  <1>1. CASE BeginRun(s)
    <2>1. RanInv' /\ ReplacementFresh'
      BY <1>1 DEF BeginRun, OwnInv, RanInv, ReplacementFresh, WorkerTypeOK, queueVars
    <2>2. \A r \in Sessions :
            worker'[r] \notin Busy \cup {"complete"} => current[r] = NoTurn
      BY <1>1 DEF BeginRun, OwnInv, HandInv, WorkerTypeOK, Busy
    <2>. QED  BY <1>1, <2>1, <2>2, QuietOwn DEF BeginRun, Dropped, queueVars, batchVars
  <1>2. ASSUME NEW err \in RunErrors, RunReturns(s, err) PROVE OwnInv'
    <2>1. worker' = [worker EXCEPT ![s] = "finish"] /\ worker[s] = "exec"
      BY <1>2 DEF RunReturns
    <2>2. RanInv'
      BY <1>2, <2>1 DEF RunReturns, OwnInv, RanInv, WorkerTypeOK
    <2>3. ReplacementFresh'
      BY <1>2 DEF RunReturns, OwnInv, ReplacementFresh, queueVars
    <2>4. \A r \in Sessions :
            worker'[r] \notin Busy \cup {"complete"} => current[r] = NoTurn
      BY <2>1 DEF OwnInv, HandInv, WorkerTypeOK, Busy
    <2>. QED
      BY <1>2, <2>2, <2>3, <2>4, QuietOwn DEF RunReturns, Dropped, queueVars, batchVars
  <1>3. CASE FinishRun(s)
    <2>1. {current[s]} \in SUBSET Turns /\ outcome[s] \in Answers
      BY <1>3 DEF FinishRun, CoreInv, WorkerInv, Busy, WorkerTypeOK
    <2>2. ReplacementFresh'
      BY <1>3, <2>1, FinishFresh DEF FinishRun, OwnInv
    <2>3. worker' = [worker EXCEPT ![s] = "complete"] /\ worker[s] = "finish"
      BY <1>3 DEF FinishRun
    <2>4. RanInv'
      BY <1>3, <2>3 DEF FinishRun, OwnInv, RanInv, WorkerTypeOK
    <2>5. \A r \in Sessions : /\ running'[r] \in {running[r], NoTurn}
                              /\ worker'[r] \notin Busy \cup {"complete"} =>
                                   current[r] = NoTurn
      BY <1>3, <2>3 DEF FinishRun, OwnInv, HandInv, WorkerTypeOK, QueueTypeOK, Busy
    <2>. QED
      BY <1>3, <2>2, <2>4, <2>5, QuietOwn DEF FinishRun, Dropped, batchVars
  <1>4. CASE CompleteRun(s)
    <2>. DEFINE b == current[s]
    <2>1. b \in Turns /\ outcome[s] \in Answers /\ worker[s] = "complete" /\ b # NoTurn
      BY <1>4, TurnAssumption DEF CompleteRun, CoreInv, WorkerInv, WorkerTypeOK
    <2>2. /\ completeTurns({b}, outcome[s])
          /\ current' = [current EXCEPT ![s] = NoTurn]
          /\ outcome' = [outcome EXCEPT ![s] = "ok"]
          /\ worker' = [worker EXCEPT ![s] = "next"]
          /\ UNCHANGED <<queueVars, calls>>
      BY <1>4 DEF CompleteRun
    <2>. HIDE DEF b
    <2>3. /\ current'[s] = NoTurn /\ worker'[s] = "next"
          /\ \A r \in Sessions : r # s => /\ current'[r] = current[r]
                                          /\ worker'[r] = worker[r]
                                          /\ outcome'[r] = outcome[r]
      BY <2>2 DEF WorkerTypeOK
    <2>4. \A r \in Sessions : r # s => current[r] # b
      BY <2>1 DEF OwnInv, HandInv, b
    <2>5. \A x \in Turns : /\ Queued(x)' <=> Queued(x)
                           /\ InHand(x)' => InHand(x)
                           /\ InHand(x) /\ x # b => InHand(x)'
                           /\ Dropped(x)' <=> Dropped(x)
      BY <2>2, <2>3, TurnAssumption DEF Queued, InHand, Dropped, queueVars, b
    <2>6. HandInv' /\ QueuedOnce'
      BY <2>2, <2>3 DEF OwnInv, HandInv, QueuedOnce, queueVars
    <2>7. OnePlace'
      BY <2>5 DEF OwnInv, OnePlace
    <2>8. Ownership'
      <3>1. Held(b) /\ {b} \in SUBSET Turns
        BY <2>1 DEF Held, InHand, b
      <3>2. \A x \in Turns : /\ Held(x)' => Held(x)
                             /\ Held(x) /\ x \notin {b} => Held(x)'
        BY <2>5 DEF Held
      <3>. QED  BY <2>1, <2>2, <3>1, <3>2, OwnershipCompleted DEF OwnInv
    <2>9. KeyAdmittedOnce'
      <3>1. \A r \in Sessions : Admitted(r)' \subseteq Admitted(r)
        BY <2>2 DEF Admitted, queueVars
      <3>2. \A x \in Turns : constituents'[x] \subseteq constituents[x]
        BY <2>2 DEF completeTurns
      <3>. QED  BY <3>1, <3>2, KeysKept DEF OwnInv
    <2>10. RanInv'
      BY <2>2, <2>3, <2>4 DEF OwnInv, RanInv, completeTurns
    <2>11. ReplacementFresh'
      BY <2>2 DEF OwnInv, ReplacementFresh, queueVars
    <2>. QED  BY <2>6, <2>7, <2>8, <2>9, <2>10, <2>11 DEF OwnInv
  <1>. QED  BY <1>1, <1>2, <1>3, <1>4

(* A call takes whole queues from their sessions. *)
LEMMA DropOwn ==
  ASSUME Inv, OwnInv, NEW S \in SUBSET Sessions, NEW hit,
         calls' = calls \cup {[cancel |-> hit,
                               drop |-> UNION {Elements(pending[s]) : s \in S}]},
         \A s \in Sessions : pending'[s] = IF s \in S THEN <<>> ELSE pending[s],
         UNCHANGED <<running, workerVars, batchVars, result, ran>>,
         ReplacementFresh'
  PROVE  OwnInv'
  <1>. DEFINE drop == UNION {Elements(pending[s]) : s \in S}
  <1>1. Elements(<<>>) = {}
    BY DEF Elements
  <1>2. \A s, r \in Sessions : \A b \in Turns :
          b \in Elements(pending[s]) /\ b \in Elements(pending[r]) => s = r
    BY DEF Elements, OwnInv, QueuedOnce
  <1>3. \A b \in Turns : /\ Queued(b)' <=> (Queued(b) /\ b \notin drop)
                         /\ b \in drop => Queued(b)
                         /\ InHand(b)' <=> InHand(b)
                         /\ Dropped(b)' <=> (Dropped(b) \/ b \in drop)
    <2>1. \A b \in Turns : Queued(b)' <=> (Queued(b) /\ b \notin drop)
      BY <1>1, <1>2 DEF Queued
    <2>2. \A b \in Turns : b \in drop => Queued(b)
      BY DEF Queued
    <2>3. \A b \in Turns : InHand(b)' <=> InHand(b)
      BY DEF InHand, workerVars
    <2>4. \A b \in Turns : Dropped(b)' <=> (Dropped(b) \/ b \in drop)
      <3>. DEFINE call == [cancel |-> hit, drop |-> drop]
      <3>1. calls' = calls \cup {call} /\ call.drop = drop
        OBVIOUS
      <3>. HIDE DEF drop, call
      <3>. QED  BY <3>1 DEF Dropped
    <2>. HIDE DEF drop
    <2>. QED  BY <2>1, <2>2, <2>3, <2>4
  <1>. HIDE DEF drop
  <1>4. \A b \in Turns : Held(b)' <=> Held(b)
    BY <1>3 DEF Held
  <1>5. HandInv' /\ RanInv'
    BY DEF OwnInv, HandInv, RanInv, workerVars
  <1>6. QueuedOnce'
    <2>1. Len(<<>>) = 0
      OBVIOUS
    <2>2. \A s \in Sessions : \A i \in 1..Len(pending'[s]) :
            pending'[s] = pending[s] /\ i \in 1..Len(pending[s])
      BY <2>1
    <2>. SUFFICES ASSUME NEW s \in Sessions, NEW r \in Sessions,
                         NEW i \in 1..Len(pending'[s]), NEW j \in 1..Len(pending'[r]),
                         pending'[s][i] = pending'[r][j]
                  PROVE  s = r /\ i = j
      BY DEF QueuedOnce
    <2>3. /\ pending'[s] = pending[s] /\ i \in 1..Len(pending[s])
          /\ pending'[r] = pending[r] /\ j \in 1..Len(pending[r])
      BY <2>2
    <2>. QED  BY <2>3 DEF OwnInv, QueuedOnce
  <1>7. OnePlace'
    BY <1>3 DEF OwnInv, OnePlace
  <1>8. Ownership'
    BY <1>4, OwnershipKept DEF OwnInv, batchVars, Inv, TypeOK
  <1>9. KeyAdmittedOnce'
    <2>1. \A s \in Sessions : Admitted(s)' \subseteq Admitted(s)
      BY <1>1 DEF Admitted
    <2>. QED  BY <2>1, KeysKept DEF OwnInv, batchVars
  <1>. QED  BY <1>5, <1>6, <1>7, <1>8, <1>9 DEF OwnInv

LEMMA CancelSessionOwn ==
  ASSUME Inv, OwnInv, NEW s \in Sessions, NEW clearQueued \in BOOLEAN,
         CancelSession(s, clearQueued)
  PROVE  OwnInv'
  <1>. DEFINE S == IF clearQueued THEN {s} ELSE {}
              drop == IF clearQueued THEN Elements(pending[s]) ELSE {}
              hit == {running[s]} \ {NoTurn}
  <1>1. /\ pending' = IF clearQueued THEN [pending EXCEPT ![s] = <<>>] ELSE pending
        /\ finishReplacementLocked(s, drop, "canceled")
        /\ calls' = calls \cup {[cancel |-> hit, drop |-> drop]}
        /\ UNCHANGED <<running, workerVars, batchVars, result, ran>>
    BY DEF CancelSession
  <1>2. drop = UNION {Elements(pending[r]) : r \in S} /\ S \in SUBSET Sessions
    OBVIOUS
  <1>3. drop \in SUBSET Turns /\ "canceled" \in Answers
    BY QueueElements DEF Inv, TypeOK, QueueTypeOK, Answers, RunErrors
  <1>4. \A r \in Sessions : pending'[r] = IF r \in S THEN <<>> ELSE pending[r]
    BY <1>1 DEF Inv, TypeOK, QueueTypeOK
  <1>. HIDE DEF S, drop, hit
  <1>5. ReplacementFresh'
    BY <1>1, <1>3, FinishFresh DEF OwnInv
  <1>. QED  BY <1>1, <1>2, <1>4, <1>5, DropOwn

LEMMA ShutdownOwn == ASSUME Inv, OwnInv, Shutdown PROVE OwnInv'
  <1>. DEFINE leaving(s) == replacement[s] \in Elements(pending[s])
              drop == UNION {Elements(pending[s]) : s \in live}
              hit == {running[s] : s \in live} \ {NoTurn}
              new(s) == rememberReplacementResult(terminal[s],
                  OpOf[replacement[s]], HashOf[replacement[s]], "canceled")
  <1>1. /\ pending' = [s \in Sessions |-> <<>>]
        /\ replacement' = [s \in Sessions |->
              IF leaving(s) THEN NoTurn ELSE replacement[s]]
        /\ terminal' = [s \in Sessions |->
              IF leaving(s) THEN new(s) ELSE terminal[s]]
        /\ calls' = calls \cup {[cancel |-> hit, drop |-> drop]}
        /\ UNCHANGED <<running, workerVars, batchVars, result, ran>>
    BY DEF Shutdown
  <1>2. \A s \in Sessions : pending'[s] = IF s \in live THEN <<>> ELSE pending[s]
    BY <1>1 DEF Inv, CoreInv, QueueInv
  <1>3. live \in SUBSET Sessions
    BY DEF Inv, TypeOK, QueueTypeOK
  <1>4. \A s \in Sessions : leaving(s) => Distinct(new(s))
    <2>. SUFFICES ASSUME NEW s \in Sessions, leaving(s) PROVE Distinct(new(s))
      OBVIOUS
    <2>1. replacement[s] \in Replacements /\ replacement[s] # NoTurn
      BY QueueElements, TurnAssumption DEF Inv, TypeOK, QueueTypeOK
    <2>2. "canceled" \in Answers
      BY DEF Answers, RunErrors
    <2>. QED
      BY <2>1, <2>2, RememberDistinct
         DEF Inv, TypeOK, QueueTypeOK, OwnInv, ReplacementFresh, Distinct
  <1>. HIDE DEF new, hit
  <1>5. ReplacementFresh'
    BY <1>1, <1>4 DEF OwnInv, ReplacementFresh, Distinct
  <1>. QED  BY <1>1, <1>2, <1>3, <1>5, DropOwn

(* The unlocked halves, and the end of a delivery context. *)
LEMMA UnlockedOwn ==
  ASSUME Inv, OwnInv, CallStep \/ \E t \in Turns : InterruptDelivery(t)
  PROVE  OwnInv'
  <1>1. ASSUME NEW c \in calls, CancelInFlight(c) PROVE OwnInv'
    <2>. DEFINE rest == [c EXCEPT !.cancel = {}]
    <2>1. rest.drop = c.drop
      BY DEF Inv, TypeOK, CallerTypeOK
    <2>2. calls' = (calls \ {c}) \cup {rest}
      BY <1>1 DEF CancelInFlight
    <2>. HIDE DEF rest
    <2>3. \A b \in Turns : Dropped(b)' <=> Dropped(b)
      BY <2>1, <2>2 DEF Dropped
    <2>4. RanInv' /\ ReplacementFresh'
      BY <1>1 DEF CancelInFlight, OwnInv, RanInv, ReplacementFresh, queueVars, workerVars
    <2>. QED
      BY <1>1, <2>3, <2>4, QuietOwn
         DEF CancelInFlight, OwnInv, HandInv, queueVars, workerVars, batchVars
  <1>2. ASSUME NEW c \in calls, CompleteDropped(c) PROVE OwnInv'
    <2>1. c.drop \in SUBSET Turns /\ "canceled" \in Answers
      BY DEF Inv, TypeOK, CallerTypeOK, Answers, RunErrors
    <2>2. /\ completeTurns(c.drop, "canceled") /\ calls' = calls \ {c}
          /\ UNCHANGED <<queueVars, workerVars>>
      BY <1>2 DEF CompleteDropped
    <2>3. \A x \in Turns : /\ Queued(x)' <=> Queued(x)
                           /\ InHand(x)' <=> InHand(x)
                           /\ Dropped(x)' => Dropped(x)
                           /\ Dropped(x) /\ x \notin c.drop => Dropped(x)'
      BY <2>2 DEF Queued, InHand, Dropped, queueVars, workerVars
    <2>4. HandInv' /\ QueuedOnce' /\ ReplacementFresh'
      BY <2>2 DEF OwnInv, HandInv, QueuedOnce, ReplacementFresh, queueVars, workerVars
    <2>5. OnePlace'
      BY <2>3 DEF OwnInv, OnePlace
    <2>6. Ownership'
      <3>1. \A b \in c.drop : Held(b)
        BY <2>1 DEF Held, Dropped
      <3>2. \A x \in Turns : /\ Held(x)' => Held(x)
                             /\ Held(x) /\ x \notin c.drop => Held(x)'
        BY <2>3 DEF Held
      <3>. QED
        BY <2>1, <2>2, <3>1, <3>2, OwnershipCompleted DEF OwnInv, Inv, TypeOK
    <2>7. KeyAdmittedOnce'
      <3>1. \A r \in Sessions : Admitted(r)' \subseteq Admitted(r)
        BY <2>2 DEF Admitted, queueVars
      <3>2. \A x \in Turns : constituents'[x] \subseteq constituents[x]
        BY <2>2 DEF completeTurns
      <3>. QED  BY <3>1, <3>2, KeysKept DEF OwnInv
    <2>8. RanInv'
      <3>1. \A s \in Sessions : current[s] \notin c.drop
        BY <2>1 DEF OwnInv, OnePlace, InHand, Dropped
      <3>. QED  BY <2>2, <3>1 DEF OwnInv, RanInv, completeTurns, workerVars
    <2>. QED  BY <2>4, <2>5, <2>6, <2>7, <2>8 DEF OwnInv
  <1>3. ASSUME NEW t \in Turns, InterruptDelivery(t) PROVE OwnInv'
    <2>1. RanInv' /\ ReplacementFresh'
      BY <1>3 DEF InterruptDelivery, OwnInv, RanInv, ReplacementFresh, queueVars, workerVars
    <2>. QED
      BY <1>3, <2>1, QuietOwn
         DEF InterruptDelivery, Dropped, OwnInv, HandInv, queueVars, workerVars, batchVars
  <1>. QED  BY <1>1, <1>2, <1>3 DEF CallStep

LEMMA NextTaskOwn ==
  ASSUME Inv, OwnInv, NEW s \in Sessions,
         \/ NextTaskStop(s) \/ NextTaskWait(s) \/ StopSignal(s) \/ WakeSignal(s)
         \/ IdleTimeout(s)
  PROVE  OwnInv'
  BY IdleOwn DEF NextTaskStop, NextTaskWait, StopSignal, WakeSignal, IdleTimeout,
     DeleteSession, queueVars, batchVars

LEMMA StutterOwn == ASSUME Inv, OwnInv, UNCHANGED vars PROVE OwnInv'
  <1>1. RanInv' /\ ReplacementFresh'
    BY DEF OwnInv, RanInv, ReplacementFresh, vars, queueVars, workerVars
  <1>. QED
    BY <1>1, QuietOwn
       DEF Dropped, OwnInv, HandInv, vars, queueVars, workerVars, batchVars

(* Every step of the mailbox preserves ownership. *)
LEMMA NextOwn == Inv /\ OwnInv /\ [Next]_vars => OwnInv'
  <1>. SUFFICES ASSUME Inv, OwnInv, [Next]_vars PROVE OwnInv'
    OBVIOUS
  <1>1. CASE \E t \in Turns : Enqueue(t)
    BY <1>1, EnqueueOwn
  <1>2. CASE \E t \in Turns : EnqueueReplacement(t)
    BY <1>2, EnqueueReplacementOwn
  <1>3. CASE CallStep \/ \E t \in Turns : InterruptDelivery(t)
    BY <1>3, UnlockedOwn
  <1>4. CASE \E s \in Sessions : WorkerStep(s)
    BY <1>4, NextTaskOwn, PopOwn, RunOwn DEF WorkerStep
  <1>5. CASE \E s \in Sessions : IdleTimeout(s)
    BY <1>5, NextTaskOwn
  <1>6. CASE \E s \in Sessions, clearQueued \in BOOLEAN :
                CancelSession(s, clearQueued)
    BY <1>6, CancelSessionOwn
  <1>7. CASE Shutdown
    BY <1>7, ShutdownOwn
  <1>8. CASE UNCHANGED vars
    BY <1>8, StutterOwn
  <1>. QED
    BY <1>1, <1>2, <1>3, <1>4, <1>5, <1>6, <1>7, <1>8 DEF Next

(* The ownership invariant holds in every reachable state. *)
THEOREM OwnInvariance == Spec => []OwnInv
  BY InitOwn, NextOwn, Invariance, PTL DEF Spec

(* A caller blocked on its result channel is in a batch that a goroutine   *)
(* still has to complete: merging, eviction, CancelSession and Shutdown    *)
(* forget nobody.                                                          *)
THEOREM NobodyForgotten == Spec => []WaiterHeld
  <1>1. OwnInv => WaiterHeld
    BY DEF OwnInv, Ownership
  <1>. QED  BY <1>1, OwnInvariance, PTL

(* No caller waits in two batches and no batch is held in two places, so   *)
(* completeTurn, which runs without the lock, never races on one channel.  *)
THEOREM SingleOwner == Spec => []HeldOnce
  <1>1. OwnInv => HeldOnce
    BY DEF OwnInv, Ownership, DisjointMembers, OnePlace, HeldOnce
  <1>. QED  BY <1>1, OwnInvariance, PTL

(* batchContainsConstituent keeps a dedupe key in one admitted batch of    *)
(* its session.                                                            *)
THEOREM KeyOnce == Spec => []KeyAdmittedOnce
  <1>1. OwnInv => KeyAdmittedOnce
    BY DEF OwnInv
  <1>. QED  BY <1>1, OwnInvariance, PTL

(* An operation in terminalReplacements is not admitted again, and is      *)
(* there once.                                                             *)
THEOREM OperationOnce == Spec => []ReplacementFresh
  <1>1. OwnInv => ReplacementFresh
    BY DEF OwnInv
  <1>. QED  BY <1>1, OwnInvariance, PTL

(* A waiting caller is told of success only for a batch that was given to  *)
(* Run.                                                                    *)
THEOREM SuccessAfterRun == Spec => SuccessOnlyAfterRun
  <1> DEFINE earned == \A t \in Turns : result[t] = "waiting" /\ result'[t] = "ok" =>
                          \E b \in ran : InHand(b) /\ t \in Members(b)
  <1>1. ASSUME Inv, OwnInv, [Next]_vars,
               NEW t \in Turns, result[t] = "waiting", result'[t] = "ok"
        PROVE  \E b \in ran : InHand(b) /\ t \in Members(b)
    <2>1. CASE \E u \in Turns : Enqueue(u) \/ EnqueueReplacement(u)
      <3>1. PICK u \in Turns : Enqueue(u) \/ EnqueueReplacement(u)
        BY <2>1
      <3>2. result[u] = "idle" /\ u # t
        BY <3>1, <1>1 DEF Enqueue, EnqueueReplacement
      <3>3. \E what : result' = [result EXCEPT ![u] = what]
        BY <3>1 DEF Enqueue, EnqueueReplacement, EnqueueStopping, EnqueueDuplicate,
           EnqueueBusy, EnqueueMerged, EnqueueAppended, EnqueueReplacementReplayed,
           EnqueueReplacementPending, EnqueueReplacementAppended, Reply, Attach, Merge, Push
      <3>. QED  BY <3>2, <3>3, <1>1 DEF Inv, TypeOK, CallerTypeOK
    <2>2. CASE \E s \in Sessions : CompleteRun(s)
      <3>1. PICK s \in Sessions : CompleteRun(s)
        BY <2>2
      <3>2. t \in Members(current[s]) /\ outcome[s] = "ok" /\ worker[s] = "complete"
        BY <3>1, <1>1 DEF CompleteRun, completeTurns
      <3>. QED  BY <3>2, <1>1 DEF OwnInv, RanInv, InHand
    <2>3. CASE \E c \in calls : CompleteDropped(c)
      BY <2>3, <1>1 DEF CompleteDropped, completeTurns
    <2>4. CASE UNCHANGED result
      BY <2>4, <1>1
    <2>5. \/ \E u \in Turns : Enqueue(u) \/ EnqueueReplacement(u)
          \/ \E s \in Sessions : CompleteRun(s)
          \/ \E c \in calls : CompleteDropped(c)
          \/ UNCHANGED result
      BY <1>1 DEF Next, vars, WorkerStep, CallStep, InterruptDelivery, NextTaskStop,
         NextTaskPop, NextTaskWait, StopSignal, WakeSignal, IdleTimeout, DeleteSession,
         BeginRun, RunReturns, FinishRun, CancelSession, Shutdown, CancelInFlight
    <2>. QED  BY <2>1, <2>2, <2>3, <2>4, <2>5
  <1>2. Inv /\ OwnInv /\ [Next]_vars => [earned]_vars
    BY <1>1
  <1>. QED  BY <1>2, Invariance, OwnInvariance, PTL DEF Spec, SuccessOnlyAfterRun
=============================================================================
