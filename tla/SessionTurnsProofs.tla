------------------------ MODULE SessionTurnsProofs -------------------------
(***************************************************************************)
(* Proofs about SessionTurns, on top of those about the mailbox: what is   *)
(* acknowledged was executed, cancelled or is one of the known losses, and *)
(* an acknowledgement leaves no turn of its command behind, for any number *)
(* of deliveries, cancellations, stops and restarts.                       *)
(***************************************************************************)
EXTENDS SessionTurns, TurnDispatcherProofs, FiniteSetTheorems

(* A handler that waits or runs belongs to a delivery, and finitely many   *)
(* were made.                                                              *)
HandlerInv ==
    /\ \A t \in Turns : actor[t] \in {"lane", "called"} => attempt[t] > 0
    /\ IsFiniteSet({t \in Turns : attempt[t] > 0})

(* Only ordinary turns are admitted, each to the session its members are   *)
(* addressed to.                                                           *)
AddressInv ==
    \A s \in Sessions : \A b \in Admitted(s) :
        /\ b \in Ordinary
        /\ \A m \in Members(b) : SessionOf[m] = s

(* Every member's text is in the batch, as its own or as that of a         *)
(* duplicate, unless a merge replaced it.                                  *)
TextInv ==
    \A b \in Turns : KeysOf(Members(b)) \subseteq KeysOf(Text(b)) \cup overwritten

(* What a call of CancelSession or Shutdown holds, and what it cancelled,  *)
(* is accounted for and takes no new command.                              *)
Spent(b) ==
    /\ ~Queued(b) /\ result[b] # "idle"
    /\ KeysOf(Members(b)) \subseteq excused \cup interrupted

CallInv ==
    /\ \A c \in calls :
         /\ \A b \in c.cancel : Spent(b)
         /\ \A b \in c.drop : KeysOf(Members(b)) \subseteq excused \cup interrupted
    /\ \A b \in canceled : Spent(b)

(* A run that is over: its members were given to Run, or it was ended by a *)
(* cancellation.                                                           *)
FinishedInv ==
    \A s \in Sessions : worker[s] \in {"finish", "complete"} =>
        KeysOf(Members(current[s])) \subseteq
            IF outcome[s] = "canceled" THEN excused \cup interrupted
            ELSE handled \cup overwritten

Accounted == handled \cup excused \cup overwritten \cup interrupted

(* Whoever has an answer is accounted for. *)
AnswerInv ==
    \A t \in Turns : result[t] \in Answers => KeyOf[t] \in Accounted

(* The handler of a key waits in the one admitted batch that has the key,  *)
(* and once it is answered no admitted batch has it.                       *)
LaneInv ==
    \A t \in Turns : actor[t] = "called" =>
        \A s \in Sessions : \A b \in Admitted(s) :
            KeyOf[t] \in KeysOf(Members(b)) =>
                /\ result[t] \notin Answers
                /\ result[t] = "waiting" => t \in Members(b)

(* What holds between two steps of the mailbox, whoever takes them. *)
MailInv ==
    /\ AddressInv /\ TextInv /\ AnswerInv /\ AckAccounted /\ LaneInv
    /\ NothingLeftBehind

(* The inductive invariant of the session actor, on top of Inv and OwnInv. *)
SessionInv ==
    SessionTypeOK /\ HandlerInv /\ MailInv /\ CallInv /\ FinishedInv

(* The histories only grow. *)
Grown ==
    /\ handled \subseteq handled' /\ excused \subseteq excused'
    /\ overwritten \subseteq overwritten' /\ interrupted \subseteq interrupted'
    /\ late \subseteq late'

NoNewHandler == \A t \in Turns : actor'[t] = "called" => actor[t] = "called"

-----------------------------------------------------------------------------
LEMMA MemberTypes ==
  ASSUME Inv, NEW b \in Turns
  PROVE  /\ b \in Members(b) /\ Members(b) \subseteq Turns
         /\ Text(b) \subseteq Turns
         /\ KeysOf(Members(b)) \subseteq Keys /\ KeysOf(Text(b)) \subseteq Keys
  <1>1. b \in Members(b) /\ Members(b) \subseteq Turns
    BY DEF Inv, TypeOK, BatchTypeOK, Members
  <1>2. Text(b) \subseteq Turns
    BY QueueElements DEF Inv, TypeOK, BatchTypeOK, Text
  <1>. QED  BY <1>1, <1>2 DEF KeysOf, Keys

(* What is spent stays so while the batch gets no new key. *)
LEMMA SpentKept ==
  ASSUME NEW b \in Turns, Spent(b), Grown, result'[b] # "idle", ~Queued(b)',
         KeysOf(Members(b))' \subseteq KeysOf(Members(b))
  PROVE  Spent(b)'
  BY DEF Spent, Grown

(* A step that leaves the batches, the answers and the settlements alone.  *)
LEMMA QuietMail ==
  ASSUME Inv, MailInv, Grown, NoNewHandler,
         UNCHANGED <<constituents, steering, result, settled>>,
         \A s \in Sessions : Admitted(s)' \subseteq Admitted(s)
  PROVE  MailInv'
  <1>1. \A b : Members(b)' = Members(b) /\ Text(b)' = Text(b)
    BY DEF Members, Text
  <1>2. AddressInv'
    BY <1>1 DEF MailInv, AddressInv
  <1>3. TextInv'
    BY <1>1 DEF MailInv, TextInv, Grown
  <1>4. AnswerInv'
    BY DEF MailInv, AnswerInv, Accounted, Grown
  <1>5. AckAccounted'
    BY DEF MailInv, AckAccounted, Acked, Grown
  <1>6. LaneInv'
    BY <1>1 DEF MailInv, LaneInv, NoNewHandler
  <1>7. NothingLeftBehind'
    BY <1>1 DEF MailInv, NothingLeftBehind, Acked, Grown
  <1>. QED  BY <1>2, <1>3, <1>4, <1>5, <1>6, <1>7 DEF MailInv

(* A run that was over is over the same way. *)
LEMMA FinishedKept ==
  ASSUME FinishedInv, Grown,
         \A s \in Sessions : worker'[s] \in {"finish", "complete"} =>
            /\ worker[s] \in {"finish", "complete"}
            /\ current'[s] = current[s] /\ outcome'[s] = outcome[s]
            /\ KeysOf(Members(current[s]))' \subseteq KeysOf(Members(current[s]))
  PROVE  FinishedInv'
  <1>. SUFFICES ASSUME NEW s \in Sessions, worker'[s] \in {"finish", "complete"}
                PROVE  KeysOf(Members(current[s]))' \subseteq
                         IF outcome'[s] = "canceled" THEN excused' \cup interrupted'
                         ELSE handled' \cup overwritten'
    BY DEF FinishedInv
  <1>. QED  BY DEF FinishedInv, Grown

(* A call that starts adds what it holds, one that proceeds keeps it. *)
LEMMA CallsKept ==
  ASSUME Inv, CallInv, Grown,
         \A b \in Turns : Spent(b) => Spent(b)',
         \A b \in Turns : Dropped(b) =>
            KeysOf(Members(b))' \subseteq KeysOf(Members(b)),
         \A c \in calls' : \/ c \in calls
                           \/ /\ \A b \in c.cancel : Spent(b)'
                              /\ \A b \in c.drop : KeysOf(Members(b))' \subseteq
                                                      excused' \cup interrupted',
         \A b \in canceled' : b \in canceled \/ (b \in Turns /\ Spent(b))
  PROVE  CallInv'
  <1>1. \A c \in calls : c.cancel \subseteq Turns /\ c.drop \subseteq Turns
    BY DEF Inv, TypeOK, CallerTypeOK
  <1>2. canceled \subseteq Turns
    BY DEF Inv, TypeOK, CallerTypeOK
  <1>3. \A b \in canceled' : Spent(b)'
    <2>. SUFFICES ASSUME NEW b \in canceled' PROVE Spent(b)'
      OBVIOUS
    <2>. QED  BY <1>2 DEF CallInv
  <1>4. ASSUME NEW c \in calls'
        PROVE  /\ \A b \in c.cancel : Spent(b)'
               /\ \A b \in c.drop : KeysOf(Members(b))' \subseteq excused' \cup interrupted'
    <2>1. CASE c \in calls
      <3>1. \A b \in c.cancel : Spent(b)'
        BY <2>1, <1>1 DEF CallInv
      <3>2. \A b \in c.drop : KeysOf(Members(b))' \subseteq excused' \cup interrupted'
        BY <2>1, <1>1 DEF CallInv, Dropped, Grown
      <3>. QED  BY <3>1, <3>2
    <2>. QED  BY <2>1
  <1>. QED  BY <1>3, <1>4 DEF CallInv

(* A step that moves no batch and answers nobody but keeps the calls too:  *)
(* the transport's own steps.                                              *)
LEMMA OutsideStep ==
  ASSUME Inv, MailInv, CallInv, FinishedInv, Grown, NoNewHandler,
         UNCHANGED <<queueVars, workerVars, batchVars, canceled, calls, result, settled>>
  PROVE  MailInv' /\ CallInv' /\ FinishedInv'
  <1>1. \A b : Members(b)' = Members(b) /\ (Queued(b)' <=> Queued(b))
    BY DEF Members, Queued, queueVars, batchVars
  <1>2. MailInv'
    <2>1. \A s \in Sessions : Admitted(s)' \subseteq Admitted(s)
      BY DEF Admitted, queueVars
    <2>. QED  BY <2>1, QuietMail DEF batchVars
  <1>3. \A b \in Turns : Spent(b) => Spent(b)'
    BY <1>1 DEF Spent, Grown
  <1>4. CallInv'
    BY <1>1, <1>3, CallsKept
  <1>5. FinishedInv'
    BY <1>1, FinishedKept DEF workerVars
  <1>. QED  BY <1>2, <1>4, <1>5

(* Return: the settlement of an envelope by the verdict on its handler.    *)
LEMMA ReturnInv ==
  ASSUME Inv, SessionInv, NEW t \in Turns, NEW how \in {"retry", "dead", "acked"},
         Return(t, how),
         how = "acked" => actor[t] = "called" /\ result[t] \in Answers
  PROVE  SessionInv'
  <1>. DEFINE k == KeyOf[t]
  <1>0. k \in Keys /\ SessionTypeOK /\ settled \in [Keys -> {"unsettled", "acked", "dead"}]
    BY DEF Keys, SessionInv, SessionTypeOK
  <1>1. /\ UNCHANGED <<vars, attempt, hostStopping, faults, historyVars>>
        /\ actor' = [actor EXCEPT ![t] = "returned"]
        /\ \A x \in Keys \ {k} : settled'[x] = settled[x]
        /\ settled'[k] = "acked" => settled[k] = "acked" \/ how = "acked"
        /\ settled' \in [Keys -> {"unsettled", "acked", "dead"}]
    BY <1>0 DEF Return
  <1>. HIDE DEF k
  <1>2. actor' \in [Turns -> {"none", "lane", "called", "returned"}] /\ NoNewHandler
    BY <1>0, <1>1 DEF SessionTypeOK, NoNewHandler
  <1>3. SessionTypeOK'
    BY <1>0, <1>1, <1>2 DEF SessionTypeOK, historyVars
  <1>4. HandlerInv'
    BY <1>1, <1>2 DEF SessionInv, HandlerInv, NoNewHandler
  <1>5. UNCHANGED <<queueVars, workerVars, batchVars, canceled, calls, result>>
    BY <1>1 DEF vars, contextVars
  <1>6. \A b : /\ Members(b)' = Members(b) /\ Text(b)' = Text(b)
               /\ (Queued(b)' <=> Queued(b)) /\ (Spent(b)' <=> Spent(b))
    BY <1>1, <1>5 DEF Members, Text, Queued, Spent, queueVars, batchVars, historyVars
  <1>7. \A s \in Sessions : Admitted(s)' = Admitted(s)
    BY <1>5 DEF Admitted, queueVars
  <1>8. Grown
    BY <1>1 DEF Grown, historyVars
  <1>9. CallInv'
    BY <1>5, <1>6, <1>8, CallsKept DEF SessionInv
  <1>10. FinishedInv'
    BY <1>5, <1>6, <1>8, FinishedKept DEF SessionInv, workerVars
  <1>11. AddressInv' /\ TextInv' /\ AnswerInv'
    BY <1>1, <1>5, <1>6, <1>7, <1>8
       DEF SessionInv, MailInv, AddressInv, TextInv, AnswerInv, Accounted, Grown
  <1>12. LaneInv'
    BY <1>2, <1>5, <1>6, <1>7 DEF SessionInv, MailInv, LaneInv, NoNewHandler
  <1>13. Acked' \subseteq Acked \cup (IF how = "acked" THEN {k} ELSE {})
    BY <1>1 DEF Acked
  <1>14. AckAccounted'
    <2>1. how = "acked" => k \in Accounted
      BY DEF SessionInv, MailInv, AnswerInv, k
    <2>. QED
      BY <2>1, <1>8, <1>13 DEF SessionInv, MailInv, AckAccounted, Accounted, Grown
  <1>15. NothingLeftBehind'
    <2>1. how = "acked" => \A s \in Sessions : \A b \in Admitted(s) : k \notin KeysOf(Members(b))
      BY DEF SessionInv, MailInv, LaneInv, k
    <2>. QED
      BY <2>1, <1>6, <1>7, <1>8, <1>13
         DEF SessionInv, MailInv, NothingLeftBehind, KeysOf, Grown
  <1>. QED
    BY <1>3, <1>4, <1>9, <1>10, <1>11, <1>12, <1>14, <1>15 DEF SessionInv, MailInv

LEMMA SettledInv ==
  ASSUME Inv, SessionInv, NEW t \in Turns,
         ReceiveResult(t) \/ GiveUp(t) \/ LeaveLane(t)
  PROVE  SessionInv'
  <1>1. CASE GiveUp(t) \/ LeaveLane(t)
    BY <1>1, ReturnInv DEF GiveUp, LeaveLane
  <1>2. CASE ReceiveResult(t)
    <2>1. PICK how \in Verdicts(result[t]) : Return(t, how)
      BY <1>2 DEF ReceiveResult
    <2>2. /\ how \in {"retry", "dead", "acked"}
          /\ how = "acked" => result[t] \in Answers
      BY <2>1 DEF Verdicts, Answers, RunErrors
    <2>. QED  BY <1>2, <2>1, <2>2, ReturnInv DEF ReceiveResult
  <1>. QED  BY <1>1, <1>2

(* The transport interrupts a handler, or nothing happens at all. *)
LEMMA TransportInv ==
  ASSUME Inv, SessionInv,
         \/ HostStop \/ (\E t \in Turns : EndDelivery(t)) \/ UNCHANGED sessionVars
  PROVE  SessionInv'
  <1>1. /\ UNCHANGED <<queueVars, workerVars, batchVars, canceled, calls, result>>
        /\ UNCHANGED <<attempt, actor, settled, faults, historyVars>>
        /\ hostStopping' \in BOOLEAN
    BY DEF HostStop, EndDelivery, InterruptDelivery, vars, contextVars, handlerVars,
       sessionVars, SessionInv, SessionTypeOK
  <1>2. Grown /\ NoNewHandler
    BY <1>1 DEF Grown, NoNewHandler, historyVars
  <1>3. SessionTypeOK' /\ HandlerInv'
    BY <1>1 DEF SessionInv, SessionTypeOK, HandlerInv, historyVars
  <1>. QED  BY <1>1, <1>2, <1>3, OutsideStep DEF SessionInv

(* The locked half of CancelSession or Shutdown: the batches it snapshots  *)
(* are excused or interrupted in the same step.                            *)
LEMMA SnapshotInv ==
  ASSUME Inv, OwnInv, MailInv, CallInv, FinishedInv, Grown,
         NEW hit \in SUBSET Turns, NEW drop \in SUBSET Turns,
         \A b \in hit : InHand(b),
         \A b \in hit \cup drop :
            KeysOf(Members(b)) \subseteq excused' \cup interrupted',
         calls' = calls \cup {[cancel |-> hit, drop |-> drop]},
         \A s \in Sessions : Elements(pending'[s]) \subseteq Elements(pending[s]),
         UNCHANGED <<running, workerVars, batchVars, canceled, result, handlerVars>>
  PROVE  MailInv' /\ CallInv' /\ FinishedInv'
  <1>1. \A b : Members(b)' = Members(b) /\ (Queued(b)' => Queued(b))
    BY DEF Members, Queued, batchVars
  <1>2. MailInv'
    <2>1. \A s \in Sessions : Admitted(s)' \subseteq Admitted(s)
      BY DEF Admitted
    <2>2. NoNewHandler
      BY DEF NoNewHandler, handlerVars
    <2>. QED  BY <2>1, <2>2, QuietMail DEF batchVars, handlerVars
  <1>3. \A b \in Turns : Spent(b) => Spent(b)'
    BY <1>1 DEF Spent, Grown
  <1>4. \A b \in hit : Spent(b)'
    <2>. SUFFICES ASSUME NEW b \in hit PROVE Spent(b)'
      OBVIOUS
    <2>1. Held(b) /\ ~Queued(b)
      BY DEF Held, OwnInv, OnePlace
    <2>2. result[b] # "idle"
      BY <2>1 DEF OwnInv, Ownership, MemberInv, Members
    <2>. QED  BY <1>1, <2>1, <2>2 DEF Spent
  <1>5. CallInv'
    <2>. DEFINE new == [cancel |-> hit, drop |-> drop]
    <2>1. new.cancel = hit /\ new.drop = drop /\ calls' = calls \cup {new}
      OBVIOUS
    <2>. HIDE DEF new
    <2>2. \A c \in calls' : \/ c \in calls
                            \/ /\ \A b \in c.cancel : Spent(b)'
                               /\ \A b \in c.drop : KeysOf(Members(b))' \subseteq
                                                       excused' \cup interrupted'
      BY <1>1, <1>4, <2>1
    <2>. QED  BY <1>1, <1>3, <2>2, CallsKept
  <1>6. FinishedInv'
    BY <1>1, FinishedKept DEF workerVars
  <1>. QED  BY <1>2, <1>5, <1>6

(* The batches a session has admitted, and what the worker runs. *)
LEMMA AdmittedRunning ==
  ASSUME Inv, NEW s \in Sessions
  PROVE  /\ Admitted(s) \subseteq Turns
         /\ \A b \in {running[s]} \ {NoTurn} : b \in Turns /\ InHand(b) /\ b \in Admitted(s)
         /\ Elements(pending[s]) \subseteq Admitted(s)
  <1>1. running[s] # NoTurn => running[s] \in Turns /\ current[s] = running[s]
    BY DEF Inv, CoreInv, WorkerInv, TypeOK, QueueTypeOK, TurnOrNone
  <1>. QED  BY <1>1, AdmittedHeld DEF InHand, Admitted

LEMMA UserCancelInv ==
  ASSUME Inv, OwnInv, SessionInv, NEW s \in Sessions, NEW clearQueued \in BOOLEAN,
         UserCancel(s, clearQueued)
  PROVE  SessionInv'
  <1>. DEFINE drop == IF clearQueued THEN Elements(pending[s]) ELSE {}
              hit == {running[s]} \ {NoTurn}
              all == IF clearQueued THEN Admitted(s) ELSE {running[s]} \ {NoTurn}
  <1>1. /\ pending' = IF clearQueued THEN [pending EXCEPT ![s] = <<>>] ELSE pending
        /\ calls' = calls \cup {[cancel |-> hit, drop |-> drop]}
        /\ UNCHANGED <<running, workerVars, batchVars, canceled, result>>
    BY DEF UserCancel, CancelSession, contextVars
  <1>2. /\ excused' = excused \cup KeysOf(UNION {Members(b) : b \in all})
        /\ UNCHANGED <<handlerVars, hostStopping, handled, overwritten, interrupted,
                       late>>
        /\ faults' \in 0..MaxFaults
    BY DeliverAssumption DEF UserCancel, SessionInv, SessionTypeOK
  <1>3. /\ hit \cup drop \subseteq all /\ all \subseteq Turns
        /\ \A b \in hit : InHand(b)
    BY AdmittedRunning
  <1>4. \A r \in Sessions : Elements(pending'[r]) \subseteq Elements(pending[r])
    BY <1>1 DEF Inv, TypeOK, QueueTypeOK, Elements
  <1>. HIDE DEF drop, hit, all
  <1>5. \A b \in hit \cup drop : KeysOf(Members(b)) \subseteq excused'
    BY <1>2, <1>3 DEF KeysOf
  <1>6. Grown
    BY <1>2 DEF Grown
  <1>7. SessionTypeOK' /\ HandlerInv'
    <2>1. \A b \in all : Members(b) \subseteq Turns
      BY <1>3, MemberTypes
    <2>2. KeysOf(UNION {Members(b) : b \in all}) \subseteq Keys
      BY <2>1 DEF KeysOf, Keys
    <2>. QED  BY <1>2, <2>2 DEF SessionInv, SessionTypeOK, HandlerInv, handlerVars
  <1>8. hit \in SUBSET Turns /\ drop \in SUBSET Turns
    BY <1>3
  <1>9. MailInv' /\ CallInv' /\ FinishedInv'
    BY <1>1, <1>2, <1>3, <1>4, <1>5, <1>6, <1>8, SnapshotInv DEF SessionInv
  <1>. QED  BY <1>7, <1>9 DEF SessionInv

LEMMA DispatcherStopInv ==
  ASSUME Inv, OwnInv, SessionInv, DispatcherStop
  PROVE  SessionInv'
  <1>. DEFINE drop == UNION {Elements(pending[s]) : s \in live}
              hit == {running[s] : s \in live} \ {NoTurn}
              all == UNION {Admitted(s) : s \in Sessions}
  <1>1. /\ pending' = [s \in Sessions |-> <<>>]
        /\ calls' = calls \cup {[cancel |-> hit, drop |-> drop]}
        /\ UNCHANGED <<running, workerVars, batchVars, canceled, result>>
    BY DEF DispatcherStop, Shutdown, contextVars
  <1>2. /\ interrupted' = interrupted \cup KeysOf(UNION {Members(b) : b \in all})
        /\ UNCHANGED <<handlerVars, hostStopping, faults, handled, excused, overwritten,
                       late>>
    BY DEF DispatcherStop
  <1>3. /\ hit \cup drop \subseteq all /\ all \subseteq Turns
        /\ \A b \in hit : InHand(b)
    <2>1. live \subseteq Sessions
      BY DEF Inv, TypeOK, QueueTypeOK
    <2>. QED  BY <2>1, AdmittedRunning
  <1>4. \A r \in Sessions : Elements(pending'[r]) \subseteq Elements(pending[r])
    BY <1>1 DEF Elements
  <1>. HIDE DEF drop, hit, all
  <1>5. \A b \in hit \cup drop : KeysOf(Members(b)) \subseteq interrupted'
    BY <1>2, <1>3 DEF KeysOf
  <1>6. Grown
    BY <1>2 DEF Grown
  <1>7. SessionTypeOK' /\ HandlerInv'
    <2>1. \A b \in all : Members(b) \subseteq Turns
      BY <1>3, MemberTypes
    <2>2. KeysOf(UNION {Members(b) : b \in all}) \subseteq Keys
      BY <2>1 DEF KeysOf, Keys
    <2>. QED  BY <1>2, <2>2 DEF SessionInv, SessionTypeOK, HandlerInv, handlerVars
  <1>8. hit \in SUBSET Turns /\ drop \in SUBSET Turns
    BY <1>3
  <1>9. MailInv' /\ CallInv' /\ FinishedInv'
    BY <1>1, <1>2, <1>3, <1>4, <1>5, <1>6, <1>8, SnapshotInv DEF SessionInv
  <1>. QED  BY <1>7, <1>9 DEF SessionInv

(* completeTurn of batches that left the mailbox: everyone it answers is   *)
(* accounted for, and waits in none of the batches still admitted.         *)
LEMMA CompletedMail ==
  ASSUME Inv, OwnInv, MailInv, NEW batches \in SUBSET Turns, NEW err \in Answers,
         completeTurns(batches, err), UNCHANGED <<queueVars, handlerVars, historyVars>>,
         \A b \in batches : /\ Held(b) /\ \A s \in Sessions : b \notin Admitted(s)
                            /\ KeysOf(Members(b)) \subseteq Accounted
  PROVE  /\ MailInv'
         /\ \A b \in Turns : KeysOf(Members(b))' \subseteq KeysOf(Members(b))
         /\ \A b \in Turns : Spent(b) => Spent(b)'
  <1>1. \A b \in Turns : /\ Members(b)' = IF b \in batches THEN {b} ELSE Members(b)
                         /\ Text(b)' = IF b \in batches THEN {b} ELSE Text(b)
                         /\ b \in Members(b) /\ Members(b) \subseteq Turns
    BY MemberTypes DEF Members, Text, completeTurns
  <1>2. \A s \in Sessions : Admitted(s)' = Admitted(s) /\ Admitted(s) \subseteq Turns
    BY AdmittedRunning DEF Admitted, queueVars
  <1>3. \A s \in Sessions : \A b \in Admitted(s) : Members(b)' = Members(b)
    BY <1>1, <1>2
  <1>4. \A t \in Turns : \/ result'[t] = result[t]
                         \/ /\ result[t] = "waiting" /\ result'[t] = err
                            /\ \E b \in batches : t \in Members(b)
    BY DEF completeTurns
  <1>5. \A b \in Turns : KeysOf(Members(b))' \subseteq KeysOf(Members(b))
    BY <1>1 DEF KeysOf
  <1>6. \A b \in Turns : Spent(b) => Spent(b)'
    <2>1. err # "idle"
      BY DEF Answers, RunErrors
    <2>2. \A b \in Turns : Queued(b)' <=> Queued(b)
      BY DEF Queued, queueVars
    <2>3. Grown
      BY DEF Grown, historyVars
    <2>. QED  BY <1>4, <1>5, <2>1, <2>2, <2>3, SpentKept DEF Spent
  <1>7. AddressInv' /\ NothingLeftBehind' /\ AckAccounted'
    BY <1>2, <1>3 DEF MailInv, AddressInv, NothingLeftBehind, AckAccounted, Acked,
       handlerVars, historyVars
  <1>8. TextInv'
    BY <1>1 DEF MailInv, TextInv, historyVars
  <1>9. AnswerInv'
    <2>1. Accounted' = Accounted
      BY DEF Accounted, historyVars
    <2>2. \A b \in batches : \A t \in Members(b) : KeyOf[t] \in Accounted
      BY DEF KeysOf
    <2>. QED  BY <1>4, <2>1, <2>2 DEF MailInv, AnswerInv
  <1>10. LaneInv'
    <2>. SUFFICES ASSUME NEW t \in Turns, actor'[t] = "called", NEW s \in Sessions,
                         NEW b \in Admitted(s), KeyOf[t] \in KeysOf(Members(b))
                  PROVE  result'[t] \notin Answers /\ (result'[t] = "waiting" => t \in Members(b))
      BY <1>2, <1>3 DEF LaneInv
    <2>1. result[t] \notin Answers /\ (result[t] = "waiting" => t \in Members(b))
      BY DEF MailInv, LaneInv, handlerVars
    <2>2. ASSUME t \in Members(b), NEW x \in batches, t \in Members(x) PROVE FALSE
      <3>1. b \in Turns /\ Held(b) /\ x \in Turns /\ Held(x) /\ x # b
        BY AdmittedHeld
      <3>. QED  BY <2>2, <3>1 DEF OwnInv, Ownership, DisjointMembers
    <2>. QED  BY <1>4, <2>1, <2>2
  <1>. QED  BY <1>5, <1>6, <1>7, <1>8, <1>9, <1>10 DEF MailInv

(* The unlocked halves of the calls. *)
LEMMA FinishCallInv ==
  ASSUME Inv, OwnInv, SessionInv, FinishCall
  PROVE  SessionInv'
  <1>0. UNCHANGED <<handlerVars, hostStopping, faults, historyVars>>
    BY DEF FinishCall
  <1>1. SessionTypeOK' /\ HandlerInv' /\ Grown /\ NoNewHandler
    BY <1>0 DEF SessionInv, SessionTypeOK, HandlerInv, Grown, NoNewHandler,
       handlerVars, historyVars
  <1>2. ASSUME NEW c \in calls, CancelInFlight(c)
        PROVE  MailInv' /\ CallInv' /\ FinishedInv'
    <2>. DEFINE rest == [c EXCEPT !.cancel = {}]
    <2>1. /\ rest.drop = c.drop /\ rest.cancel = {}
          /\ c.cancel \subseteq Turns /\ c.drop \subseteq Turns
      BY DEF Inv, TypeOK, CallerTypeOK
    <2>2. /\ calls' = (calls \ {c}) \cup {rest}
          /\ canceled' \subseteq canceled \cup c.cancel
          /\ UNCHANGED <<queueVars, workerVars, batchVars, result>>
      BY <1>2 DEF CancelInFlight
    <2>. HIDE DEF rest
    <2>3. \A b : Members(b)' = Members(b) /\ (Queued(b)' <=> Queued(b))
      BY <2>2 DEF Members, Queued, queueVars, batchVars
    <2>4. MailInv'
      <3>1. \A s \in Sessions : Admitted(s)' \subseteq Admitted(s)
        BY <2>2 DEF Admitted, queueVars
      <3>. QED  BY <1>0, <1>1, <2>2, <3>1, QuietMail DEF SessionInv, batchVars, handlerVars
    <2>5. \A b \in Turns : Spent(b) => Spent(b)'
      BY <1>1, <2>2, <2>3 DEF Spent, Grown
    <2>6. \A x \in calls' : \/ x \in calls
                            \/ /\ \A b \in x.cancel : Spent(b)'
                               /\ \A b \in x.drop : KeysOf(Members(b))' \subseteq
                                                       excused' \cup interrupted'
      BY <1>1, <2>1, <2>2, <2>3 DEF SessionInv, CallInv, Grown
    <2>7. \A b \in canceled' : b \in canceled \/ (b \in Turns /\ Spent(b))
      BY <2>1, <2>2 DEF SessionInv, CallInv
    <2>8. CallInv'
      BY <1>1, <2>3, <2>5, <2>6, <2>7, CallsKept DEF SessionInv
    <2>9. FinishedInv'
      BY <1>1, <2>2, <2>3, FinishedKept DEF SessionInv, workerVars
    <2>. QED  BY <2>4, <2>8, <2>9
  <1>3. ASSUME NEW c \in calls, CompleteDropped(c)
        PROVE  MailInv' /\ CallInv' /\ FinishedInv'
    <2>1. c.drop \in SUBSET Turns /\ "canceled" \in Answers
      BY DEF Inv, TypeOK, CallerTypeOK, Answers, RunErrors
    <2>2. /\ completeTurns(c.drop, "canceled") /\ calls' = calls \ {c}
          /\ UNCHANGED <<queueVars, workerVars>>
      BY <1>3 DEF CompleteDropped
    <2>3. \A b \in c.drop : /\ Held(b) /\ \A s \in Sessions : b \notin Admitted(s)
                            /\ KeysOf(Members(b)) \subseteq Accounted
      <3>. SUFFICES ASSUME NEW b \in c.drop
                    PROVE  /\ Held(b) /\ \A s \in Sessions : b \notin Admitted(s)
                           /\ KeysOf(Members(b)) \subseteq Accounted
        OBVIOUS
      <3>1. b \in Turns /\ Dropped(b) /\ Held(b) /\ ~Queued(b) /\ ~InHand(b)
        BY <2>1 DEF Dropped, Held, OwnInv, OnePlace
      <3>2. \A s \in Sessions : b \notin Admitted(s)
        BY <3>1, AdmittedRunning DEF Admitted, Queued
      <3>. QED  BY <3>1, <3>2 DEF SessionInv, CallInv, Accounted
    <2>4. /\ MailInv'
          /\ \A b \in Turns : KeysOf(Members(b))' \subseteq KeysOf(Members(b))
          /\ \A b \in Turns : Spent(b) => Spent(b)'
      BY <1>0, <2>1, <2>2, <2>3, CompletedMail DEF SessionInv
    <2>5. CallInv'
      BY <1>1, <2>2, <2>4, CallsKept DEF SessionInv, completeTurns
    <2>6. FinishedInv'
      <3>1. \A s \in Sessions : worker[s] \in {"finish", "complete"} => current[s] \in Turns
        BY DEF Inv, CoreInv, WorkerInv, Busy
      <3>. QED  BY <1>1, <2>2, <2>4, <3>1, FinishedKept DEF SessionInv, workerVars
    <2>. QED  BY <2>4, <2>5, <2>6
  <1>. QED  BY <1>1, <1>2, <1>3 DEF FinishCall, CallStep, SessionInv

(* A worker step that completes nothing: the batches stay as they are and  *)
(* none is admitted.                                                       *)
LEMMA MoveMail ==
  ASSUME Inv, MailInv, CallInv, Grown,
         UNCHANGED <<batchVars, canceled, calls, result, handlerVars>>,
         \A s \in Sessions : /\ Admitted(s)' \subseteq Admitted(s)
                             /\ Elements(pending'[s]) \subseteq Elements(pending[s])
  PROVE  MailInv' /\ CallInv' /\ \A b : Members(b)' = Members(b)
  <1>1. \A b : Members(b)' = Members(b) /\ (Queued(b)' => Queued(b))
    BY DEF Members, Queued, batchVars
  <1>2. MailInv'
    <2>1. NoNewHandler
      BY DEF NoNewHandler, handlerVars
    <2>. QED  BY <2>1, QuietMail DEF batchVars, handlerVars
  <1>3. \A b \in Turns : Spent(b) => Spent(b)'
    BY <1>1 DEF Spent, Grown
  <1>4. CallInv'
    BY <1>1, <1>3, CallsKept
  <1>. QED  BY <1>1, <1>2, <1>4

(* The end of a run: what it was given is handled, or the cancellation     *)
(* that ended it was a call's, or it was cut short otherwise.              *)
LEMMA RunEndInv ==
  ASSUME Inv, SessionInv, NEW s \in Sessions, Work(s),
         worker[s] \in {"start", "exec"}, worker' = [worker EXCEPT ![s] = "finish"],
         UNCHANGED <<queueVars, current, batchVars, canceled, calls, result>>,
         \A r \in Sessions : r # s => outcome'[r] = outcome[r]
  PROVE  /\ MailInv' /\ CallInv' /\ FinishedInv'
         /\ handled' \subseteq Keys /\ interrupted' \subseteq Keys
  <1>. DEFINE b == current[s]
  <1>1. worker'[s] = "finish" /\ \A r \in Sessions : r # s => worker'[r] = worker[r]
    BY DEF Inv, TypeOK, WorkerTypeOK
  <1>2. /\ handled' = IF outcome'[s] # "canceled" THEN handled \cup KeysOf(Text(b))
                      ELSE handled
        /\ interrupted' = IF outcome'[s] = "canceled" /\ b \notin canceled
                          THEN interrupted \cup KeysOf(Members(b)) ELSE interrupted
        /\ UNCHANGED <<handlerVars, excused, overwritten, late>>
    BY <1>1 DEF Work
  <1>3. b \in Turns
    BY DEF Inv, CoreInv, WorkerInv, Busy
  <1>. HIDE DEF b
  <1>4. Grown
    BY <1>2 DEF Grown
  <1>5. handled' \subseteq Keys /\ interrupted' \subseteq Keys
    BY <1>2, <1>3, MemberTypes DEF SessionInv, SessionTypeOK
  <1>6. MailInv' /\ CallInv' /\ \A x : Members(x)' = Members(x)
    <2>1. \A r \in Sessions : /\ Admitted(r)' \subseteq Admitted(r)
                              /\ Elements(pending'[r]) \subseteq Elements(pending[r])
      BY DEF Admitted, queueVars
    <2>. QED  BY <1>2, <1>4, <2>1, MoveMail DEF SessionInv
  <1>7. FinishedInv'
    <2>. SUFFICES ASSUME NEW r \in Sessions, worker'[r] \in {"finish", "complete"}
                  PROVE  KeysOf(Members(current[r])) \subseteq
                           IF outcome'[r] = "canceled" THEN excused' \cup interrupted'
                           ELSE handled' \cup overwritten'
      BY <1>6 DEF FinishedInv
    <2>1. CASE r # s
      BY <2>1, <1>1, <1>4 DEF SessionInv, FinishedInv, Grown
    <2>2. CASE r = s /\ outcome'[s] # "canceled"
      <3>1. KeysOf(Members(b)) \subseteq KeysOf(Text(b)) \cup overwritten
        BY <1>3 DEF SessionInv, MailInv, TextInv
      <3>. QED  BY <2>2, <3>1, <1>2 DEF b
    <2>3. CASE r = s /\ outcome'[s] = "canceled"
      <3>1. b \in canceled => KeysOf(Members(b)) \subseteq excused \cup interrupted
        BY DEF SessionInv, CallInv, Spent
      <3>. QED  BY <2>3, <3>1, <1>2 DEF b
    <2>. QED  BY <2>1, <2>2, <2>3
  <1>. QED  BY <1>5, <1>6, <1>7

LEMMA WorkInv ==
  ASSUME Inv, OwnInv, SessionInv, NEW s \in Sessions, Work(s)
  PROVE  SessionInv'
  <1>. USE DEF Inv, TypeOK
  <1>0. /\ UNCHANGED <<handlerVars, hostStopping, excused, overwritten, late>>
        /\ faults' \in 0..MaxFaults
    <2>1. \/ faults' = faults
          \/ faults < MaxFaults /\ faults' = faults + 1
      BY DEF Work
    <2>2. faults \in 0..MaxFaults
      BY DEF SessionInv, SessionTypeOK
    <2>3. faults' \in 0..MaxFaults
      BY <2>1, <2>2, DeliverAssumption
    <2>. QED  BY <2>3 DEF Work
  <1>1. CASE \/ BeginRun(s) /\ worker' = [worker EXCEPT ![s] = "finish"]
             \/ \E err \in RunErrors : RunReturns(s, err)
    <2>1. /\ worker[s] \in {"start", "exec"} /\ worker' = [worker EXCEPT ![s] = "finish"]
          /\ UNCHANGED <<queueVars, current, batchVars, canceled, calls, result>>
          /\ \A r \in Sessions : r # s => outcome'[r] = outcome[r]
      BY <1>1 DEF BeginRun, RunReturns, contextVars, WorkerTypeOK
    <2>3. /\ MailInv' /\ CallInv' /\ FinishedInv'
          /\ handled' \subseteq Keys /\ interrupted' \subseteq Keys
      BY <2>1, RunEndInv
    <2>4. SessionTypeOK' /\ HandlerInv'
      BY <1>0, <2>3 DEF SessionInv, SessionTypeOK, HandlerInv, handlerVars
    <2>. QED  BY <2>3, <2>4 DEF SessionInv
  <1>2. ASSUME ~(worker[s] \in {"start", "exec"} /\ worker'[s] = "finish")
        PROVE  UNCHANGED historyVars /\ Grown /\ SessionTypeOK' /\ HandlerInv'
    <2>1. UNCHANGED historyVars
      BY <1>2 DEF Work, historyVars
    <2>. QED
      BY <1>0, <2>1 DEF SessionInv, SessionTypeOK, HandlerInv, Grown, handlerVars, historyVars
  <1>3. CASE \/ NextTaskStop(s) \/ NextTaskPop(s) \/ NextTaskWait(s) \/ StopSignal(s)
             \/ WakeSignal(s) \/ IdleTimeout(s)
             \/ BeginRun(s) /\ worker' = [worker EXCEPT ![s] = "exec"]
             \/ FinishRun(s)
    <2>1. /\ UNCHANGED <<outcome, batchVars, canceled, calls, result>>
          /\ \A r \in Sessions : r # s => worker'[r] = worker[r] /\ current'[r] = current[r]
          /\ \/ worker'[s] \in {"next", "wait", "none", "start", "exec"}
             \/ /\ worker[s] = "finish" /\ worker'[s] = "complete"
                /\ UNCHANGED current
      <3>1. CASE \/ NextTaskStop(s) \/ NextTaskWait(s) \/ StopSignal(s)
                 \/ WakeSignal(s) \/ IdleTimeout(s)
        BY <3>1 DEF NextTaskStop, NextTaskWait, StopSignal, WakeSignal, IdleTimeout,
           DeleteSession, contextVars, WorkerTypeOK
      <3>2. CASE NextTaskPop(s)
        BY <3>2 DEF NextTaskPop, contextVars, WorkerTypeOK
      <3>3. CASE BeginRun(s) /\ worker' = [worker EXCEPT ![s] = "exec"]
        <4>1. worker'[s] = "exec"
          BY <3>3 DEF WorkerTypeOK
        <4>. QED  BY <3>3, <4>1 DEF BeginRun, contextVars, WorkerTypeOK
      <3>4. CASE FinishRun(s)
        BY <3>4 DEF FinishRun, contextVars, WorkerTypeOK
      <3>. QED  BY <1>3, <3>1, <3>2, <3>3, <3>4
    <2>2. \A r \in Sessions : /\ Admitted(r)' \subseteq Admitted(r)
                              /\ Elements(pending'[r]) \subseteq Elements(pending[r])
      <3>1. CASE NextTaskPop(s)
        <4>1. pending[s] # <<>> /\ pending \in [Sessions -> Seq(Turns)]
          BY <3>1 DEF NextTaskPop, QueueTypeOK
        <4>2. Elements(pending[s]) = {Head(pending[s])} \cup Elements(Tail(pending[s]))
          BY <4>1, TailElements
        <4>3. /\ pending' = [pending EXCEPT ![s] = Tail(pending[s])]
              /\ running' = [running EXCEPT ![s] = Head(pending[s])]
          BY <3>1 DEF NextTaskPop
        <4>. QED  BY <4>1, <4>2, <4>3 DEF Admitted, QueueTypeOK
      <3>2. CASE FinishRun(s)
        BY <3>2 DEF FinishRun, Admitted, QueueTypeOK
      <3>3. CASE UNCHANGED <<pending, running>>
        BY <3>3 DEF Admitted
      <3>. QED
        BY <1>3, <3>1, <3>2, <3>3
           DEF NextTaskStop, NextTaskWait, StopSignal, WakeSignal, IdleTimeout,
               DeleteSession, BeginRun, queueVars
    <2>3. Grown /\ SessionTypeOK' /\ HandlerInv'
      BY <2>1, <1>2
    <2>4. MailInv' /\ CallInv' /\ \A b : Members(b)' = Members(b)
      BY <1>0, <2>1, <2>2, <2>3, MoveMail DEF SessionInv
    <2>5. FinishedInv'
      BY <2>1, <2>3, <2>4, FinishedKept DEF SessionInv
    <2>. QED  BY <2>3, <2>4, <2>5 DEF SessionInv
  <1>4. CASE CompleteRun(s)
    <2>. DEFINE b == current[s]
    <2>1. /\ worker[s] = "complete" /\ completeTurns({b}, outcome[s])
          /\ worker' = [worker EXCEPT ![s] = "next"]
          /\ current' = [current EXCEPT ![s] = NoTurn]
          /\ outcome' = [outcome EXCEPT ![s] = "ok"]
          /\ UNCHANGED <<queueVars, calls>>
      BY <1>4 DEF CompleteRun
    <2>2. /\ worker'[s] = "next"
          /\ \A r \in Sessions : r # s => /\ worker'[r] = worker[r]
                                          /\ current'[r] = current[r]
                                          /\ outcome'[r] = outcome[r]
      BY <2>1 DEF WorkerTypeOK
    <2>3. UNCHANGED historyVars /\ Grown /\ SessionTypeOK' /\ HandlerInv'
      BY <2>1, <1>2
    <2>4. b \in Turns /\ InHand(b) /\ running[s] = NoTurn /\ outcome[s] \in Answers
      BY <2>1 DEF CoreInv, WorkerInv, Busy, InHand, WorkerTypeOK
    <2>5. KeysOf(Members(b)) \subseteq Accounted
      BY <2>1 DEF SessionInv, FinishedInv, Accounted
    <2>6. Held(b) /\ \A r \in Sessions : b \notin Admitted(r)
      <3>1. ~Queued(b) /\ Held(b)
        BY <2>4 DEF OwnInv, OnePlace, Held
      <3>2. \A r \in Sessions : running[r] # NoTurn => running[r] = current[r]
        BY DEF CoreInv, WorkerInv
      <3>3. \A r \in Sessions : running[r] # NoTurn => running[r] # b
        BY <2>4, <3>2, TurnAssumption DEF OwnInv, HandInv
      <3>. QED  BY <2>4, <3>1, <3>3, TurnAssumption DEF Admitted, Queued
    <2>. HIDE DEF b
    <2>7. /\ MailInv'
          /\ \A x \in Turns : KeysOf(Members(x))' \subseteq KeysOf(Members(x))
          /\ \A x \in Turns : Spent(x) => Spent(x)'
      <3>1. {b} \in SUBSET Turns
        BY <2>4
      <3>. QED  BY <1>0, <2>1, <2>3, <2>4, <2>5, <2>6, <3>1, CompletedMail DEF SessionInv
    <2>8. CallInv'
      BY <2>1, <2>3, <2>7, CallsKept DEF SessionInv, completeTurns
    <2>9. FinishedInv'
      <3>1. \A r \in Sessions : worker[r] \in {"finish", "complete"} => current[r] \in Turns
        BY DEF CoreInv, WorkerInv, Busy
      <3>. QED  BY <2>2, <2>3, <2>7, <3>1, FinishedKept DEF SessionInv
    <2>. QED  BY <2>3, <2>7, <2>8, <2>9 DEF SessionInv
  <1>5. BeginRun(s) => \/ worker' = [worker EXCEPT ![s] = "finish"]
                       \/ worker' = [worker EXCEPT ![s] = "exec"]
    BY DEF BeginRun
  <1>. QED  BY <1>1, <1>3, <1>4, <1>5 DEF Work, WorkerStep

(* Enqueue's search for a duplicate misses no admitted batch: a batch with *)
(* the key of t is in the session of t, and there is one.                  *)
LEMMA OtherBatches ==
  ASSUME Inv, OwnInv, AddressInv, NEW t \in Ordinary, NEW b,
         AttachTargets(SessionOf[t], t) = {} \/ b \in AttachTargets(SessionOf[t], t),
         NEW r \in Sessions, NEW x \in Admitted(r), x # b
  PROVE  KeyOf[t] \notin KeysOf(Members(x))
  <1>. DEFINE s == SessionOf[t]
  <1>. SUFFICES ASSUME KeyOf[t] \in KeysOf(Members(x)) PROVE FALSE
    OBVIOUS
  <1>1. PICK m \in Members(x) : KeyOf[m] = KeyOf[t]
    BY DEF KeysOf
  <1>2. t \in Turns /\ s \in Sessions /\ x \in Turns /\ x \in Ordinary /\ m \in Turns
    BY AdmittedHeld, MemberTypes, TurnAssumption DEF AddressInv, Ordinary
  <1>3. r = s
    BY <1>1, <1>2, EnvelopeAssumption DEF AddressInv
  <1>4. m \in Ordinary
    BY <1>2 DEF OwnInv, Ownership, MemberInv, Members
  <1>5. x \in AttachTargets(s, t)
    BY <1>1, <1>2, <1>3, <1>4 DEF AttachTargets, Admitted, ContainsKey
  <1>6. b \in AttachTargets(s, t)
    BY <1>5
  <1>7. b \in Admitted(s) \cap Ordinary /\ x \in Admitted(s) \cap Ordinary
    BY <1>2, <1>3, <1>6 DEF AttachTargets, Admitted
  <1>8. KeyOf[t] \in {KeyOf[n] : n \in Members(b)} /\ KeyOf[t] \in {KeyOf[n] : n \in Members(x)}
    BY <1>1, <1>6 DEF AttachTargets, ContainsKey
  <1>. QED  BY <1>2, <1>7, <1>8 DEF OwnInv, KeyAdmittedOnce

(* A delivered turn joins the batch b, its own or another's: no other      *)
(* batch has its key, and no other handler of the key is running.          *)
LEMMA JoinMail ==
  ASSUME Inv, OwnInv, SessionInv, NEW t \in Ordinary, NEW b \in Ordinary,
         result[t] = "idle", result' = [result EXCEPT ![t] = "waiting"],
         actor' = [actor EXCEPT ![t] = "called"],
         \A u \in Turns \ {t} : actor[u] = "called" => KeyOf[u] # KeyOf[t],
         settled[KeyOf[t]] = "acked" => t \in late', UNCHANGED settled, Grown, TextInv',
         \A x \in Turns : Members(x)' = IF x = b THEN Members(b) \cup {t} ELSE Members(x),
         \A r \in Sessions :
            Admitted(r)' \subseteq Admitted(r) \cup (IF r = SessionOf[t] THEN {b} ELSE {}),
         b \in Admitted(SessionOf[t]) \/ (b = t /\ Members(t) = {t}),
         AttachTargets(SessionOf[t], t) = {} \/ b \in AttachTargets(SessionOf[t], t),
         KeyOf[t] \in KeysOf(Members(b)) \/ Queued(b),
         \A x \in Turns : Queued(x)' => Queued(x) \/ x = t,
         UNCHANGED <<current, outcome, calls, canceled>>,
         \A r \in Sessions : worker'[r] \in {"finish", "complete"} => worker'[r] = worker[r]
  PROVE  MailInv' /\ CallInv' /\ FinishedInv'
  <1>. DEFINE s == SessionOf[t]
  <1>0. /\ t \in Turns /\ b \in Turns /\ s \in Sessions
        /\ \A m \in Members(b) \cup {t} : m \in Turns /\ SessionOf[m] = s
    BY MemberTypes, TurnAssumption DEF SessionInv, MailInv, AddressInv, Ordinary
  <1>1. \A r \in Sessions : \A x \in Admitted(r) :
          /\ x \in Turns /\ x \in Members(x)
          /\ x # b => KeyOf[t] \notin KeysOf(Members(x))
    BY OtherBatches, AdmittedHeld, MemberTypes DEF SessionInv, MailInv
  <1>2. \A u \in Turns : u # t => result'[u] = result[u] /\ actor'[u] = actor[u]
    BY DEF SessionInv, SessionTypeOK, Inv, TypeOK, CallerTypeOK
  <1>3. result'[t] = "waiting"
    BY <1>0 DEF Inv, TypeOK, CallerTypeOK
  <1>4. KeysOf(Members(b))' = KeysOf(Members(b)) \cup {KeyOf[t]}
    BY <1>0 DEF KeysOf
  <1>5. \A x \in Turns : x # b => KeysOf(Members(x))' = KeysOf(Members(x))
    OBVIOUS
  <1>. HIDE DEF s
  <1>6. \A r \in Sessions : \A x \in Admitted(r)' :
          \/ x \in Admitted(r)
          \/ x = b /\ r = s /\ b = t /\ KeysOf(Members(b)) = {KeyOf[t]}
    BY DEF KeysOf, s
  <1>7. AddressInv'
    <2>. SUFFICES ASSUME NEW r \in Sessions, NEW x \in Admitted(r)'
                  PROVE  x \in Ordinary /\ \A m \in Members(x)' : SessionOf[m] = r
      BY DEF AddressInv
    <2>1. CASE x = b
      BY <2>1, <1>0, <1>1, <1>6 DEF SessionInv, MailInv, AddressInv
    <2>2. CASE x # b
      BY <2>2, <1>1, <1>6 DEF SessionInv, MailInv, AddressInv
    <2>. QED  BY <2>1, <2>2
  <1>8. AnswerInv'
    BY <1>2, <1>3 DEF SessionInv, MailInv, AnswerInv, Accounted, Grown, Answers, RunErrors
  <1>9. AckAccounted' /\ Acked' = Acked /\ (KeyOf[t] \in Acked => t \in late')
    BY DEF SessionInv, MailInv, AckAccounted, Acked, Grown
  <1>10. NothingLeftBehind'
    <2>. SUFFICES ASSUME NEW r \in Sessions, NEW x \in Admitted(r)', NEW m \in Members(x)',
                         KeyOf[m] \in Acked
                  PROVE  m \in late'
      BY <1>9 DEF NothingLeftBehind
    <2>1. CASE m = t
      BY <2>1, <1>9
    <2>2. CASE m # t
      <3>1. x \in Admitted(r) /\ m \in Members(x)
        BY <2>2, <1>0, <1>1, <1>6
      <3>. QED  BY <3>1 DEF SessionInv, MailInv, NothingLeftBehind, Grown
    <2>. QED  BY <2>1, <2>2
  <1>11. LaneInv'
    <2>. SUFFICES ASSUME NEW u \in Turns, actor'[u] = "called", NEW r \in Sessions,
                         NEW x \in Admitted(r)', KeyOf[u] \in KeysOf(Members(x))'
                  PROVE  result'[u] \notin Answers /\ (result'[u] = "waiting" => u \in Members(x)')
      BY DEF LaneInv
    <2>1. CASE u = t
      <3>1. x = b
        BY <2>1, <1>1, <1>5, <1>6
      <3>. QED  BY <2>1, <3>1, <1>0, <1>3 DEF Answers, RunErrors
    <2>2. CASE u # t
      <3>1. actor[u] = "called" /\ KeyOf[u] # KeyOf[t] /\ result'[u] = result[u]
        BY <2>2, <1>2
      <3>2. x \in Turns /\ x \in Admitted(r) /\ KeyOf[u] \in KeysOf(Members(x))
        BY <3>1, <1>0, <1>1, <1>4, <1>5, <1>6
      <3>3. Members(x) \subseteq Members(x)'
        BY <3>2
      <3>. QED  BY <3>1, <3>2, <3>3 DEF SessionInv, MailInv, LaneInv
    <2>. QED  BY <2>1, <2>2
  <1>12. MailInv'
    BY <1>7, <1>8, <1>9, <1>10, <1>11 DEF MailInv
  <1>13. \A x \in Turns : ~Queued(x) => KeysOf(Members(x))' \subseteq KeysOf(Members(x))
    BY <1>4, <1>5
  <1>14. \A x \in Turns : Spent(x) => Spent(x)'
    BY <1>2, <1>13, SpentKept DEF Spent
  <1>15. CallInv'
    <2>1. \A x \in Turns : Dropped(x) => ~Queued(x)
      BY DEF OwnInv, OnePlace
    <2>. QED  BY <2>1, <1>13, <1>14, CallsKept DEF SessionInv
  <1>16. FinishedInv'
    <2>1. \A r \in Sessions : worker[r] \in {"finish", "complete"} =>
            current[r] \in Turns /\ ~Queued(current[r])
      BY DEF Inv, CoreInv, WorkerInv, Busy, OwnInv, OnePlace, InHand
    <2>. QED  BY <2>1, <1>13, FinishedKept DEF SessionInv
  <1>. QED  BY <1>12, <1>15, <1>16

(* The deliveries of an envelope are finitely many and numbered in turn. *)
LEMMA DeliverAttempt ==
  ASSUME SessionInv, NEW t \in Turns, Deliver(t)
  PROVE  /\ attempt' \in [Turns -> 0..MaxDeliver]
         /\ attempt'[t] > 0 /\ \A u \in Turns \ {t} : attempt'[u] = attempt[u]
         /\ IsFiniteSet({u \in Turns : attempt'[u] > 0})
  <1>. DEFINE k == KeyOf[t]
              D == {u \in Turns : attempt[u] > 0}
  <1>0. /\ attempt \in [Turns -> 0..MaxDeliver] /\ MaxDeliver \in Nat
        /\ IsFiniteSet(D)
    BY DeliverAssumption DEF SessionInv, SessionTypeOK, HandlerInv
  <1>1. /\ Cardinality(Attempts(k)) < MaxDeliver
        /\ attempt' = [attempt EXCEPT ![t] = Cardinality(Attempts(k)) + 1]
    BY DEF Deliver, NextAttempt
  <1>2. Cardinality(Attempts(k)) \in Nat
    <2>1. Attempts(k) \subseteq D
      BY DEF Attempts
    <2>. QED  BY <1>0, <2>1, FS_Subset, FS_CardinalityType
  <1>. DEFINE n == Cardinality(Attempts(k)) + 1
  <1>3. n \in 0..MaxDeliver /\ n > 0 /\ attempt' = [attempt EXCEPT ![t] = n]
    BY <1>0, <1>1, <1>2
  <1>. HIDE DEF n
  <1>4. /\ attempt' \in [Turns -> 0..MaxDeliver]
        /\ attempt'[t] = n /\ \A u \in Turns \ {t} : attempt'[u] = attempt[u]
    BY <1>0, <1>3
  <1>5. IsFiniteSet({u \in Turns : attempt'[u] > 0})
    <2>1. IsFiniteSet(D \cup {t})
      BY <1>0, FS_AddElement
    <2>2. {u \in Turns : attempt'[u] > 0} \subseteq D \cup {t}
      BY <1>4
    <2>. QED  BY <2>1, <2>2, FS_Subset
  <1>. QED  BY <1>3, <1>4, <1>5

(* A redelivery that has to wait on the lane: nothing else happens. *)
LEMMA WaitOnLane ==
  ASSUME Inv, SessionInv, NEW t \in Turns, Deliver(t),
         actor' = [actor EXCEPT ![t] = "lane"],
         UNCHANGED <<vars, settled, hostStopping, faults, historyVars>>
  PROVE  SessionInv'
  <1>1. /\ UNCHANGED <<queueVars, workerVars, batchVars, canceled, calls, result>>
        /\ Grown
    BY DEF vars, contextVars, historyVars, Grown
  <1>2. /\ actor' \in [Turns -> {"none", "lane", "called", "returned"}]
        /\ NoNewHandler
    BY DEF SessionInv, SessionTypeOK, NoNewHandler
  <1>3. SessionTypeOK'
    BY <1>2, DeliverAttempt DEF SessionInv, SessionTypeOK, historyVars
  <1>4. HandlerInv'
    BY <1>2, DeliverAttempt DEF SessionInv, HandlerInv, NoNewHandler
  <1>. QED  BY <1>1, <1>2, <1>3, <1>4, OutsideStep DEF SessionInv

(* What Start does besides Enqueue. *)
LEMMA StartHandler ==
  ASSUME SessionInv, NEW t \in Turns, Start(t),
         attempt' \in [Turns -> 0..MaxDeliver], attempt'[t] > 0,
         \A u \in Turns \ {t} : attempt'[u] = attempt[u],
         IsFiniteSet({u \in Turns : attempt'[u] > 0}),
         \A u \in Attempts(KeyOf[t]) : actor[u] # "called"
  PROVE  /\ SessionTypeOK' /\ HandlerInv' /\ Grown
         /\ \A u \in Turns \ {t} : actor[u] = "called" => KeyOf[u] # KeyOf[t]
         /\ settled[KeyOf[t]] = "acked" => t \in late'
  <1>1. /\ actor' = [actor EXCEPT ![t] = "called"]
        /\ overwritten' = overwritten \cup KeysOf({b \in Turns \ {t} :
              steering[b] = <<>> /\ steering'[b] # <<>>})
        /\ late' = IF settled[KeyOf[t]] = "acked" THEN late \cup {t} ELSE late
        /\ UNCHANGED <<settled, hostStopping, faults, handled, excused, interrupted>>
    BY DEF Start
  <1>2. /\ actor' \in [Turns -> {"none", "lane", "called", "returned"}]
        /\ \A u \in Turns \ {t} : actor'[u] = actor[u]
    BY <1>1 DEF SessionInv, SessionTypeOK
  <1>3. KeysOf({b \in Turns \ {t} : steering[b] = <<>> /\ steering'[b] # <<>>}) \subseteq Keys
    BY DEF KeysOf, Keys
  <1>4. SessionTypeOK'
    BY <1>1, <1>2, <1>3 DEF SessionInv, SessionTypeOK
  <1>5. HandlerInv'
    BY <1>2 DEF SessionInv, HandlerInv
  <1>6. Grown
    BY <1>1 DEF Grown
  <1>7. \A u \in Turns \ {t} : actor[u] = "called" => KeyOf[u] # KeyOf[t]
    BY DEF SessionInv, HandlerInv, Attempts
  <1>. QED  BY <1>1, <1>4, <1>5, <1>6, <1>7

LEMMA StartInv ==
  ASSUME Inv, OwnInv, SessionInv, NEW t \in Turns, Start(t),
         attempt' \in [Turns -> 0..MaxDeliver], attempt'[t] > 0,
         \A u \in Turns \ {t} : attempt'[u] = attempt[u],
         IsFiniteSet({u \in Turns : attempt'[u] > 0}),
         \A u \in Attempts(KeyOf[t]) : actor[u] # "called"
  PROVE  SessionInv'
  <1>. DEFINE s == SessionOf[t]
  <1>. USE DEF Inv, TypeOK
  <1>0. /\ s \in Sessions /\ t \in Ordinary /\ result[t] = "idle" /\ Enqueue(t)
        /\ UNCHANGED settled
        /\ actor' = [actor EXCEPT ![t] = "called"]
        /\ overwritten' = overwritten \cup KeysOf({b \in Turns \ {t} :
              steering[b] = <<>> /\ steering'[b] # <<>>})
    BY TurnAssumption DEF Start, Enqueue
  <1>1. /\ SessionTypeOK' /\ HandlerInv' /\ Grown
        /\ \A u \in Turns \ {t} : actor[u] = "called" => KeyOf[u] # KeyOf[t]
        /\ settled[KeyOf[t]] = "acked" => t \in late'
    BY StartHandler
  <1>2. ~Held(t) /\ Members(t) = {t}
    BY <1>0 DEF OwnInv, Ownership, MemberInv, Members
  <1>3. ASSUME NEW what \in Refusals, Reply(t, what)
        PROVE  MailInv' /\ CallInv' /\ FinishedInv'
    <2>1. /\ UNCHANGED <<queueVars, workerVars, batchVars, canceled, calls>>
          /\ result'[t] = what /\ \A u \in Turns \ {t} : result'[u] = result[u]
      BY <1>3 DEF Reply, contextVars, CallerTypeOK
    <2>2. what # "idle" /\ what # "waiting" /\ what \notin Answers
      BY DEF Refusals, Answers, RunErrors
    <2>3. \A b : /\ Members(b)' = Members(b) /\ Text(b)' = Text(b)
                 /\ (Queued(b)' <=> Queued(b))
      BY <2>1 DEF Members, Text, Queued, queueVars, batchVars
    <2>4. \A r \in Sessions : Admitted(r)' = Admitted(r)
      BY <2>1 DEF Admitted, queueVars
    <2>5. AddressInv' /\ TextInv' /\ AckAccounted' /\ NothingLeftBehind'
      BY <1>0, <1>1, <2>3, <2>4 DEF SessionInv, MailInv, AddressInv, TextInv,
         AckAccounted, NothingLeftBehind, Acked, Grown
    <2>6. AnswerInv'
      BY <1>1, <2>1, <2>2 DEF SessionInv, MailInv, AnswerInv, Accounted, Grown
    <2>7. LaneInv'
      <3>1. \A u \in Turns \ {t} : actor'[u] = actor[u]
        BY <1>0 DEF SessionInv, SessionTypeOK
      <3>. QED  BY <2>1, <2>2, <2>3, <2>4, <3>1 DEF SessionInv, MailInv, LaneInv
    <2>8. \A b \in Turns : Spent(b) => Spent(b)'
      BY <1>1, <2>1, <2>2, <2>3 DEF Spent, Grown
    <2>9. CallInv'
      BY <1>1, <2>1, <2>3, <2>8, CallsKept DEF SessionInv
    <2>10. FinishedInv'
      BY <1>1, <2>1, <2>3, FinishedKept DEF SessionInv, workerVars
    <2>. QED  BY <2>5, <2>6, <2>7, <2>9, <2>10 DEF MailInv
  <1>4. CASE EnqueueStopping(t)
    BY <1>1, <1>3, <1>4 DEF EnqueueStopping, Refusals, SessionInv
  <1>5. CASE EnqueueBusy(t)
    BY <1>1, <1>3, <1>5 DEF EnqueueBusy, Refusals, SessionInv
  <1>6. CASE EnqueueDuplicate(t)
    <2>1. PICK b \in AttachTargets(s, t) : Attach(t, b)
      BY <1>6 DEF EnqueueDuplicate
    <2>2. b \in Admitted(s) /\ b \in Ordinary /\ KeyOf[t] \in KeysOf(Members(b))
      BY <2>1 DEF AttachTargets, Admitted, ContainsKey, KeysOf
    <2>3. /\ constituents' = [constituents EXCEPT ![b] = @ \cup {t}]
          /\ result' = [result EXCEPT ![t] = "waiting"]
          /\ UNCHANGED <<queueVars, workerVars, steering, calls, canceled>>
      BY <2>1 DEF Attach, contextVars
    <2>4. \A x \in Turns : /\ Members(x)' = IF x = b THEN Members(b) \cup {t} ELSE Members(x)
                           /\ Text(x)' = Text(x)
      BY <2>3 DEF Members, Text, BatchTypeOK
    <2>5. TextInv'
      <3>1. KeysOf(Members(b))' = KeysOf(Members(b))
        BY <2>2, <2>4 DEF KeysOf, Ordinary
      <3>. QED  BY <1>1, <2>4, <3>1 DEF SessionInv, MailInv, TextInv, Grown
    <2>6. /\ \A r \in Sessions : Admitted(r)' = Admitted(r)
          /\ \A x : Queued(x)' <=> Queued(x)
      BY <2>3 DEF Admitted, Queued, queueVars
    <2>7. MailInv' /\ CallInv' /\ FinishedInv'
      BY <1>0, <1>1, <2>1, <2>2, <2>3, <2>4, <2>5, <2>6, JoinMail DEF workerVars
    <2>. QED  BY <1>1, <2>7 DEF SessionInv
  <1>7. CASE EnqueueMerged(t)
    <2>1. PICK b \in Elements(pending[s]) : b \in Ordinary /\ Merge(b, t)
      BY <1>7 DEF EnqueueMerged, MergePositions, mergesInto, Elements
    <2>2. AttachTargets(s, t) = {}
      BY <1>7 DEF EnqueueMerged, Admissible
    <2>3. /\ constituents' = [constituents EXCEPT ![b] = @ \cup {t}]
          /\ steering' = [steering EXCEPT ![b] = Append(@, t)]
          /\ result' = [result EXCEPT ![t] = "waiting"]
          /\ UNCHANGED <<queueVars, workerVars, calls, canceled>>
      BY <2>1 DEF Merge, contextVars
    <2>4. b \in Turns /\ b # t /\ Queued(b) /\ b \in Admitted(s)
      BY <1>0, <1>2, <2>1 DEF Queued, Held, Admitted, Ordinary
    <2>5. \A x \in Turns : /\ Members(x)' = IF x = b THEN Members(b) \cup {t} ELSE Members(x)
                           /\ x # b => Text(x)' = Text(x)
      BY <2>3 DEF Members, Text, BatchTypeOK
    <2>6. TextInv'
      <3>1. /\ steering[b] \in Seq(Turns) /\ steering'[b] = Append(steering[b], t)
        BY <2>3, <2>4 DEF BatchTypeOK
      <3>2. steering'[b] # <<>> /\ Elements(steering'[b]) = Elements(steering[b]) \cup {t}
        <4>1. Append(steering[b], t) # <<>>
          BY <1>0, <3>1, AppendFacts
        <4>2. Elements(Append(steering[b], t)) = Elements(steering[b]) \cup {t}
          BY <1>0, <3>1, AppendElements
        <4> QED
          BY <3>1, <4>1, <4>2, Zenon
      <3>3. Text(b)' = Elements(steering[b]) \cup {t}
        BY <3>2 DEF Text
      <3>4. KeysOf(Members(b)) \subseteq KeysOf(Text(b)) \cup overwritten
        BY <2>4 DEF SessionInv, MailInv, TextInv
      <3>5. KeysOf(Members(b)) \subseteq KeysOf(Text(b)') \cup overwritten'
        <4>1. CASE steering[b] = <<>>
          <5>1. b \in {x \in Turns \ {t} : steering[x] = <<>> /\ steering'[x] # <<>>}
            BY <2>4, <3>2, <4>1
          <5>2. KeyOf[b] \in overwritten'
            BY <1>0, <5>1 DEF KeysOf
          <5>3. KeysOf(Text(b)) = {KeyOf[b]}
            BY <4>1 DEF Text, KeysOf
          <5>. QED  BY <1>1, <3>4, <5>2, <5>3 DEF Grown
        <4>2. CASE steering[b] # <<>>
          <5>1. Text(b) \subseteq Text(b)'
            BY <3>3, <4>2 DEF Text
          <5>2. KeysOf(Text(b)) \subseteq KeysOf(Text(b)')
            BY <5>1 DEF KeysOf
          <5>. QED  BY <1>1, <3>4, <5>2 DEF Grown
        <4>. QED  BY <4>1, <4>2
      <3>6. KeyOf[t] \in KeysOf(Text(b)')
        BY <3>3 DEF KeysOf
      <3>7. KeysOf(Members(b)') \subseteq KeysOf(Members(b)) \cup {KeyOf[t]}
        BY <2>4, <2>5 DEF KeysOf
      <3>8. ASSUME NEW x \in Turns, x # b
            PROVE  KeysOf(Members(x)') \subseteq KeysOf(Text(x)') \cup overwritten'
        BY <1>1, <2>5, <3>8 DEF SessionInv, MailInv, TextInv, Grown
      <3>. QED  BY <3>5, <3>6, <3>7, <3>8 DEF TextInv
    <2>7. /\ \A r \in Sessions : Admitted(r)' = Admitted(r)
          /\ \A x : Queued(x)' <=> Queued(x)
      BY <2>3 DEF Admitted, Queued, queueVars
    <2>8. MailInv' /\ CallInv' /\ FinishedInv'
      BY <1>0, <1>1, <2>1, <2>2, <2>3, <2>4, <2>5, <2>6, <2>7, JoinMail DEF workerVars
    <2>. QED  BY <1>1, <2>8 DEF SessionInv
  <1>8. CASE EnqueueAppended(t)
    <2>1. /\ AttachTargets(s, t) = {} /\ Push(s, t)
          /\ steering' = steering \/ steering' = [steering EXCEPT ![t] = <<t>>]
      BY <1>8 DEF EnqueueAppended, Admissible
    <2>2. /\ pending' = [pending EXCEPT ![s] = Append(pending[s], t)]
          /\ result' = [result EXCEPT ![t] = "waiting"]
          /\ UNCHANGED <<running, current, outcome, constituents, calls, canceled>>
      BY <2>1 DEF Push, contextVars
    <2>3. \A r \in Sessions : worker'[r] \in {"finish", "complete"} => worker'[r] = worker[r]
      BY <2>1 DEF Push, EnsureQueue, WorkerTypeOK
    <2>4. \A r \in Sessions : Elements(pending'[r]) =
            Elements(pending[r]) \cup (IF r = s THEN {t} ELSE {})
      <3>1. pending[s] \in Seq(Turns) /\ pending'[s] = Append(pending[s], t)
        BY <1>0, <2>2 DEF QueueTypeOK
      <3>2. Elements(pending'[s]) = Elements(pending[s]) \cup {t}
        BY <3>1, AppendElements
      <3>. QED  BY <2>2, <3>2 DEF QueueTypeOK
    <2>5. /\ \A r \in Sessions :
               Admitted(r)' \subseteq Admitted(r) \cup (IF r = s THEN {t} ELSE {})
          /\ \A x \in Turns : Queued(x)' => Queued(x) \/ x = t
      BY <2>2, <2>4 DEF Admitted, Queued
    <2>6. \A x \in Turns : Members(x)' = Members(x)
      BY <2>2 DEF Members
    <2>7. TextInv'
      <3>1. \A x \in Turns \ {t} : Text(x)' = Text(x)
        BY <2>1 DEF Text, BatchTypeOK
      <3>2. steering' # steering => Text(t)' = {t}
        <4>1. Elements(<<t>>) = {t} /\ <<t>> # <<>>
          BY DEF Elements
        <4>2. steering' # steering => steering'[t] = <<t>>
          BY <2>1 DEF BatchTypeOK
        <4>. QED  BY <4>1, <4>2 DEF Text
      <3>3. steering' = steering => Text(t)' = Text(t)
        BY DEF Text
      <3>4. KeysOf(Members(t)) = {KeyOf[t]} /\ KeysOf({t}) = {KeyOf[t]}
        BY <1>2 DEF KeysOf
      <3>5. ASSUME NEW x \in Turns, x # t \/ steering' = steering
            PROVE  KeysOf(Members(x)') \subseteq KeysOf(Text(x)') \cup overwritten'
        BY <1>1, <2>6, <3>1, <3>3, <3>5 DEF SessionInv, MailInv, TextInv, Grown
      <3>. QED  BY <2>6, <3>2, <3>4, <3>5 DEF TextInv
    <2>8. KeyOf[t] \in KeysOf(Members(t))
      BY <1>2 DEF KeysOf
    <2>9. \A x \in Turns : Members(x)' = IF x = t THEN Members(t) \cup {t} ELSE Members(x)
      BY <1>2, <2>6
    <2>10. MailInv' /\ CallInv' /\ FinishedInv'
      BY <1>0, <1>1, <1>2, <2>1, <2>2, <2>3, <2>5, <2>7, <2>8, <2>9, JoinMail
    <2>. QED  BY <1>1, <2>10 DEF SessionInv
  <1>. QED  BY <1>0, <1>4, <1>5, <1>6, <1>7, <1>8 DEF Enqueue

LEMMA DeliverInv ==
  ASSUME Inv, OwnInv, SessionInv, NEW t \in Turns, Deliver(t) \/ EnterLane(t)
  PROVE  SessionInv'
  <1>1. CASE Deliver(t)
    <2>1. CASE LaneFree(KeyOf[t]) /\ Start(t)
      BY <1>1, <2>1, DeliverAttempt, StartInv DEF LaneFree
    <2>2. CASE /\ actor' = [actor EXCEPT ![t] = "lane"]
               /\ UNCHANGED <<vars, settled, hostStopping, faults, historyVars>>
      BY <1>1, <2>2, WaitOnLane
    <2>. QED  BY <1>1, <2>1, <2>2 DEF Deliver
  <1>2. CASE EnterLane(t)
    <2>1. /\ actor[t] = "lane" /\ Start(t) /\ UNCHANGED attempt
          /\ \A u \in Attempts(KeyOf[t]) : actor[u] # "called"
      BY <1>2 DEF EnterLane
    <2>2. attempt \in [Turns -> 0..MaxDeliver] /\ attempt[t] > 0
      BY <2>1 DEF SessionInv, SessionTypeOK, HandlerInv
    <2>3. IsFiniteSet({u \in Turns : attempt'[u] > 0})
      BY <2>1 DEF SessionInv, HandlerInv
    <2>. QED  BY <2>1, <2>2, <2>3, StartInv
  <1>. QED  BY <1>1, <1>2

(* A restart empties the mailbox; what the transport knows stays. *)
LEMMA RestartInv ==
  ASSUME SessionInv, Restart
  PROVE  SessionInv'
  <1>1. /\ pending' = [s \in Sessions |-> <<>>] /\ running' = [s \in Sessions |-> NoTurn]
        /\ worker' = [s \in Sessions |-> "none"]
        /\ constituents' = [t \in Turns |-> {}] /\ steering' = [t \in Turns |-> <<>>]
        /\ canceled' = {} /\ calls' = {} /\ result' = [t \in Turns |-> "idle"]
        /\ actor' = [t \in Turns |-> IF attempt[t] > 0 THEN "returned" ELSE "none"]
        /\ UNCHANGED <<attempt, settled, historyVars>>
    BY DEF Restart
  <1>2. \A s \in Sessions : Admitted(s)' = {}
    BY <1>1 DEF Admitted, Elements
  <1>3. SessionTypeOK'
    <2>0. hostStopping' \in BOOLEAN
      BY DEF Restart
    <2>1. faults' \in 0..MaxFaults
      <3>1. faults \in 0..MaxFaults /\ faults < MaxFaults /\ faults' = faults + 1
        BY DEF Restart, SessionInv, SessionTypeOK
      <3>. QED  BY <3>1, DeliverAssumption
    <2>2. actor' \in [Turns -> {"none", "lane", "called", "returned"}]
      BY <1>1
    <2>. QED  BY <1>1, <2>0, <2>1, <2>2 DEF SessionInv, SessionTypeOK, historyVars
  <1>4. HandlerInv'
    BY <1>1 DEF SessionInv, HandlerInv
  <1>5. AddressInv' /\ LaneInv' /\ NothingLeftBehind'
    BY <1>2 DEF AddressInv, LaneInv, NothingLeftBehind
  <1>6. TextInv'
    <2>1. \A b \in Turns : Members(b)' = {b} /\ Text(b)' = {b}
      BY <1>1 DEF Members, Text
    <2>. QED  BY <2>1 DEF TextInv
  <1>7. AnswerInv'
    BY <1>1 DEF AnswerInv, Answers, RunErrors
  <1>8. AckAccounted'
    BY <1>1 DEF SessionInv, MailInv, AckAccounted, Acked, historyVars
  <1>9. CallInv' /\ FinishedInv'
    BY <1>1 DEF CallInv, FinishedInv
  <1>. QED
    BY <1>3, <1>4, <1>5, <1>6, <1>7, <1>8, <1>9 DEF SessionInv, MailInv

LEMMA SessionInitInv == SessionInit => SessionInv
  <1>. SUFFICES ASSUME SessionInit PROVE SessionInv
    OBVIOUS
  <1>1. \A s \in Sessions : Admitted(s) = {}
    BY DEF SessionInit, Init, Admitted, Elements
  <1>2. SessionTypeOK
    <2>1. 0 \in 0..MaxDeliver /\ 0 \in 0..MaxFaults
      BY DeliverAssumption
    <2>. QED  BY <2>1 DEF SessionInit, SessionTypeOK
  <1>3. HandlerInv
    <2>1. {t \in Turns : attempt[t] > 0} = {}
      BY DEF SessionInit
    <2>. QED  BY <2>1, FS_EmptySet DEF SessionInit, HandlerInv
  <1>4. AddressInv /\ LaneInv /\ NothingLeftBehind
    BY <1>1 DEF AddressInv, LaneInv, NothingLeftBehind
  <1>5. TextInv
    <2>1. \A b \in Turns : Members(b) = {b} /\ Text(b) = {b}
      BY DEF SessionInit, Init, Members, Text
    <2>. QED  BY <2>1 DEF TextInv
  <1>6. AnswerInv /\ AckAccounted
    BY DEF SessionInit, Init, AnswerInv, Answers, RunErrors, AckAccounted, Acked
  <1>7. CallInv /\ FinishedInv
    BY DEF SessionInit, Init, CallInv, FinishedInv
  <1>. QED
    BY <1>2, <1>3, <1>4, <1>5, <1>6, <1>7 DEF SessionInv, MailInv

(* What a step of the composition is to the mailbox: a step of its own, a  *)
(* stutter, or a fresh start.                                              *)
LEMMA MailboxStep == [SessionNext]_sessionVars => [Next]_vars \/ Init'
  <1>. SUFFICES ASSUME [SessionNext]_sessionVars PROVE [Next]_vars \/ Init'
    OBVIOUS
  <1>1. CASE \E t \in Turns : Deliver(t) \/ EnterLane(t) \/ EndDelivery(t)
    BY <1>1 DEF Deliver, EnterLane, Start, EndDelivery, Next
  <1>2. CASE \E t \in Turns : ReceiveResult(t) \/ GiveUp(t) \/ LeaveLane(t)
    BY <1>2 DEF ReceiveResult, GiveUp, LeaveLane, Return
  <1>3. CASE HostStop \/ UNCHANGED sessionVars
    BY <1>3 DEF HostStop, sessionVars
  <1>4. CASE DispatcherStop \/ FinishCall
    BY <1>4 DEF DispatcherStop, FinishCall, Next
  <1>5. CASE \E s \in Sessions, clearQueued \in BOOLEAN : UserCancel(s, clearQueued)
    BY <1>5 DEF UserCancel, Next
  <1>6. CASE \E s \in Sessions : Work(s)
    BY <1>6 DEF Work, Next
  <1>7. CASE Restart
    BY <1>7 DEF Restart, Init
  <1>. QED  BY <1>1, <1>2, <1>3, <1>4, <1>5, <1>6, <1>7 DEF SessionNext

LEMMA SessionNextInv ==
  Inv /\ OwnInv /\ SessionInv /\ [SessionNext]_sessionVars => SessionInv'
  <1>. SUFFICES ASSUME Inv, OwnInv, SessionInv, [SessionNext]_sessionVars
                PROVE  SessionInv'
    OBVIOUS
  <1>1. CASE \E t \in Turns : Deliver(t) \/ EnterLane(t)
    BY <1>1, DeliverInv
  <1>2. CASE \E t \in Turns : ReceiveResult(t) \/ GiveUp(t) \/ LeaveLane(t)
    BY <1>2, SettledInv
  <1>3. CASE HostStop \/ (\E t \in Turns : EndDelivery(t)) \/ UNCHANGED sessionVars
    BY <1>3, TransportInv
  <1>4. CASE DispatcherStop
    BY <1>4, DispatcherStopInv
  <1>5. CASE \E s \in Sessions, clearQueued \in BOOLEAN : UserCancel(s, clearQueued)
    BY <1>5, UserCancelInv
  <1>6. CASE \E s \in Sessions : Work(s)
    BY <1>6, WorkInv
  <1>7. CASE FinishCall
    BY <1>7, FinishCallInv
  <1>8. CASE Restart
    BY <1>8, RestartInv
  <1>. QED
    BY <1>1, <1>2, <1>3, <1>4, <1>5, <1>6, <1>7, <1>8 DEF SessionNext

(* The mailbox, its ownership discipline and the settlement of commands    *)
(* keep their invariants through every delivery, cancellation, stop and    *)
(* restart.                                                                *)
THEOREM SessionInvariance == SessionSpec => [](Inv /\ OwnInv /\ SessionInv)
  <1>1. SessionInit => Inv /\ OwnInv /\ SessionInv
    BY InitInv, InitOwn, SessionInitInv DEF SessionInit
  <1>2. (Init => Inv /\ OwnInv)'
    BY InitInv, InitOwn, PTL
  <1>3. Inv /\ OwnInv /\ SessionInv /\ [SessionNext]_sessionVars
           => (Inv /\ OwnInv /\ SessionInv)'
    BY <1>2, MailboxStep, NextInv, NextOwn, SessionNextInv
  <1>. QED  BY <1>1, <1>3, PTL DEF SessionSpec

(* The handlers and the transport stay within their states, and no         *)
(* envelope gets more than max_deliver attempts.                           *)
THEOREM SessionTypeCorrect == SessionSpec => []SessionTypeOK
  <1>1. SessionInv => SessionTypeOK
    BY DEF SessionInv
  <1>. QED  BY <1>1, SessionInvariance, PTL

(* A command that sessionSettlementCoordinator acknowledges was given to a *)
(* finished Run, was cancelled, or is one of the two known losses.         *)
THEOREM AckedAccounted == SessionSpec => []AckAccounted
  <1>1. SessionInv => AckAccounted
    BY DEF SessionInv, MailInv
  <1>. QED  BY <1>1, SessionInvariance, PTL

(* An acknowledgement leaves no turn of its command behind: whatever is    *)
(* queued or running of it was started by a later attempt, that waited on  *)
(* the lane of the command when it was acknowledged.                       *)
THEOREM OnlyLateAttemptsRun == SessionSpec => []NothingLeftBehind
  <1>1. SessionInv => NothingLeftBehind
    BY DEF SessionInv, MailInv
  <1>. QED  BY <1>1, SessionInvariance, PTL
=============================================================================
