----------------------- MODULE CommandDeliveryProofs ------------------------
(***************************************************************************)
(* Proofs about the command consumer, for every set of envelopes, every    *)
(* assignment of lanes and every delivery limit: types, that a command     *)
(* leaves the work queue only accounted for, and that no retry is given    *)
(* away.                                                                   *)
(***************************************************************************)
EXTENDS CommandDelivery, TLAPS

PoisonPoints == {"poison", "poisonTerm"}
HandledPoints == {"lane", "run", "settle", "fallback", "term", "fallbackTerm"}

(* What an attempt knows at its control point: undecodable messages take   *)
(* the poison path and no others do; an attempt about to acknowledge ran   *)
(* its handler or found its job dead, and never does so in the fallback;   *)
(* and a message is terminated only with its record in BALDA_DLQ.          *)
AttemptInv ==
    \A a \in Attempts :
        /\ point[a] \in PoisonPoints => a[1] \in Poison
        /\ point[a] \in HandledPoints => a[1] \notin Poison
        /\ point[a] = "settle" /\ verdict[a] = "ok" => a[1] \in handled \cup jobDead
        /\ point[a] = "fallback" => verdict[a] # "ok"
        /\ point[a] \in {"term", "fallbackTerm"} => a[1] \in dlq

(* An attempt's number is a delivery that was made. *)
NumberInv == \A a \in Attempts : point[a] # "none" => a[2] <= delivered[a[1]]

(* The inductive invariant. *)
Inv == TypeOK /\ AttemptInv /\ NumberInv /\ RemovedAccounted /\ BudgetRespected

-----------------------------------------------------------------------------
LEMMA InitInv == Init => Inv
  <1>. SUFFICES ASSUME Init PROVE Inv
    OBVIOUS
  <1>1. TypeOK
    BY CommandAssumption DEF Init, TypeOK, Points, Classes
  <1>2. AttemptInv /\ NumberInv /\ RemovedAccounted /\ BudgetRespected
    BY DEF Init, AttemptInv, NumberInv, PoisonPoints, HandledPoints, RemovedAccounted, Removed,
           BudgetRespected
  <1>. QED  BY <1>1, <1>2 DEF Inv

LEMMA AttemptTypes ==
  ASSUME NEW a \in Attempts
  PROVE  a[1] \in Envelopes /\ a[2] \in 1..MaxDeliver /\ a[2] \in Nat /\ a = <<a[1], a[2]>>
  BY DEF Attempts

LEMMA FailsTypes ==
  ASSUME TypeOK, Fails \/ UNCHANGED boundVars
  PROVE  failures' \in 0..MaxFailures /\ crashes' \in 0..MaxCrashes
  BY CommandAssumption DEF TypeOK, Fails, boundVars

LEMMA DispatchInv ==
  ASSUME Inv, NEW e \in Envelopes, Dispatch(e)
  PROVE  Inv'
  <1>. USE DEF Inv, Dispatch, queueVars, attemptVars, recordVars, boundVars
  <1>1. TypeOK'
    BY DEF TypeOK
  <1>2. AttemptInv' /\ NumberInv'
    BY DEF AttemptInv, NumberInv
  <1>3. RemovedAccounted' /\ BudgetRespected'
    BY DEF RemovedAccounted, Removed, BudgetRespected
  <1>. QED  BY <1>1, <1>2, <1>3

LEMMA FetchInv ==
  ASSUME Inv, NEW e \in Envelopes, Fetch(e)
  PROVE  Inv'
  <1>. USE DEF Inv
  <1>. DEFINE f == <<e, delivered[e] + 1>>
  <1>1. /\ e \in stored /\ delivered[e] < MaxDeliver
        /\ delivered' = [delivered EXCEPT ![e] = @ + 1]
        /\ leased' = leased \cup {e}
        /\ point' = [point EXCEPT ![f] = IF e \in Poison THEN "poison" ELSE "lane"]
        /\ UNCHANGED <<stored, accepted, verdict, recordVars, boundVars>>
    BY DEF Fetch, GoTo
  <1>2. /\ delivered[e] \in 0..MaxDeliver /\ delivered[e] + 1 \in 1..MaxDeliver
        /\ delivered'[e] = delivered[e] + 1
        /\ \A d \in Envelopes \ {e} : delivered'[d] = delivered[d]
    BY <1>1, CommandAssumption DEF TypeOK
  <1>3. f \in Attempts /\ f[1] = e /\ f[2] = delivered'[e]
    BY <1>2 DEF Attempts
  <1>4. /\ point'[f] = IF e \in Poison THEN "poison" ELSE "lane"
        /\ \A a \in Attempts \ {f} : point'[a] = point[a]
    BY <1>1, <1>3 DEF TypeOK
  <1>5. TypeOK'
    <2>1. point' \in [Attempts -> Points]
      BY <1>1, <1>3 DEF TypeOK, Points
    <2>2. delivered' \in [Envelopes -> 0..MaxDeliver]
      BY <1>1, <1>2, CommandAssumption DEF TypeOK
    <2>. QED  BY <1>1, <2>1, <2>2 DEF TypeOK, recordVars, boundVars
  <1>6. AttemptInv'
    BY <1>1, <1>3, <1>4 DEF AttemptInv, PoisonPoints, HandledPoints, recordVars
  <1>7. NumberInv'
    <2>. SUFFICES ASSUME NEW a \in Attempts, point'[a] # "none"
                  PROVE  a[2] <= delivered'[a[1]]
      BY DEF NumberInv
    <2>1. CASE a = f
      BY <1>2, <1>3, <2>1
    <2>2. CASE a # f
      BY <1>2, <1>4, <2>2, AttemptTypes DEF NumberInv
    <2>. QED  BY <2>1, <2>2
  <1>8. RemovedAccounted' /\ BudgetRespected'
    BY <1>1, <1>2, CommandAssumption DEF TypeOK, RemovedAccounted, Removed, BudgetRespected, recordVars
  <1>. QED  BY <1>5, <1>6, <1>7, <1>8

LEMMA AckWaitInv ==
  ASSUME Inv, NEW e \in Envelopes, AckWait(e)
  PROVE  Inv'
  BY DEF Inv, AckWait, TypeOK, AttemptInv, NumberInv, RemovedAccounted, Removed, BudgetRespected,
         attemptVars, recordVars, boundVars

(* A step of one goroutine that records nothing new and removes only what  *)
(* is accounted for.                                                       *)
LEMMA AttemptStepInv ==
  ASSUME Inv, NEW a \in Attempts, point[a] # "none",
         NEW p \in Points, NEW v \in Classes,
         point' = [point EXCEPT ![a] = p], verdict' = [verdict EXCEPT ![a] = v],
         \* what the point it goes to asks for
         p \in PoisonPoints => a[1] \in Poison,
         p \in HandledPoints => a[1] \notin Poison,
         p = "settle" /\ v = "ok" => a[1] \in handled' \cup jobDead',
         p = "fallback" => v # "ok",
         p \in {"term", "fallbackTerm"} => a[1] \in dlq',
         \* the queue and the records
         stored' \in {stored, stored \ {a[1]}},
         stored' # stored => a[1] \in Poison \cup handled \cup dlq \cup jobDead,
         leased' \in {leased, leased \ {a[1]}},
         dlq' \in {dlq, dlq \cup {a[1]}},
         jobDead' \in {jobDead, jobDead \cup ({a[1]} \cap WithJob)},
         handled' \in {handled, handled \cup ({a[1]} \ Poison)},
         refused' \in {refused, refused \cup {a[1]}},
         dlq' \cup jobDead' # dlq \cup jobDead =>
            a[1] \in Poison \cup refused' \/ delivered[a[1]] = MaxDeliver,
         UNCHANGED <<accepted, delivered>>,
         Fails \/ UNCHANGED boundVars
  PROVE  Inv'
  <1>. USE DEF Inv
  <1>1. a[1] \in Envelopes /\ a[2] \in Nat
    BY AttemptTypes
  <1>2. /\ point'[a] = p /\ verdict'[a] = v
        /\ \A b \in Attempts \ {a} : point'[b] = point[b] /\ verdict'[b] = verdict[b]
    BY DEF TypeOK
  <1>3. TypeOK'
    <2>1. failures' \in 0..MaxFailures /\ crashes' \in 0..MaxCrashes
      BY FailsTypes
    <2>. QED  BY <1>1, <2>1, CommandAssumption DEF TypeOK
  <1>4. AttemptInv'
    <2>. SUFFICES ASSUME NEW b \in Attempts
                  PROVE  /\ point'[b] \in PoisonPoints => b[1] \in Poison
                         /\ point'[b] \in HandledPoints => b[1] \notin Poison
                         /\ point'[b] = "settle" /\ verdict'[b] = "ok" => b[1] \in handled' \cup jobDead'
                         /\ point'[b] = "fallback" => verdict'[b] # "ok"
                         /\ point'[b] \in {"term", "fallbackTerm"} => b[1] \in dlq'
      BY DEF AttemptInv
    <2>1. CASE b = a
      BY <1>2, <2>1
    <2>2. CASE b # a
      BY <1>2, <2>2 DEF AttemptInv
    <2>. QED  BY <2>1, <2>2
  <1>5. NumberInv'
    BY <1>2 DEF NumberInv
  <1>6. RemovedAccounted'
    BY DEF RemovedAccounted, Removed
  <1>7. BudgetRespected'
    BY <1>1 DEF BudgetRespected
  <1>. QED  BY <1>3, <1>4, <1>5, <1>6, <1>7

(* The verdict of an attempt that keeps it. *)
LEMMA VerdictKept ==
  ASSUME TypeOK, NEW a \in Attempts, UNCHANGED verdict
  PROVE  verdict[a] \in Classes /\ verdict' = [verdict EXCEPT ![a] = verdict[a]]
  BY DEF TypeOK

LEMMA PoisonInv ==
  ASSUME Inv, NEW a \in Attempts, PoisonRecord(a) \/ PoisonTerm(a)
  PROVE  Inv'
  <1>1. TypeOK /\ UNCHANGED verdict
    BY DEF Inv, PoisonRecord, PoisonTerm
  <1>2. a[1] \in Poison
    BY DEF Inv, AttemptInv, PoisonPoints, PoisonRecord, PoisonTerm
  <1>3. verdict[a] \in Classes /\ verdict' = [verdict EXCEPT ![a] = verdict[a]]
    BY <1>1, VerdictKept
  <1>4. {"poisonTerm", "done"} \subseteq Points /\ HandledPoints \cap {"poisonTerm", "done"} = {}
    BY DEF Points, HandledPoints
  <1>5. CASE PoisonRecord(a)
    BY <1>2, <1>3, <1>4, <1>5, AttemptStepInv DEF PoisonRecord, GoTo, queueVars
  <1>6. CASE PoisonTerm(a)
    BY <1>2, <1>3, <1>4, <1>6, AttemptStepInv DEF PoisonTerm, GoTo, PoisonPoints, recordVars
  <1>. QED  BY <1>5, <1>6

LEMMA StartInv ==
  ASSUME Inv, NEW a \in Attempts, Start(a)
  PROVE  Inv'
  <1>1. TypeOK /\ UNCHANGED verdict
    BY DEF Inv, Start
  <1>2. a[1] \notin Poison
    BY DEF Inv, AttemptInv, HandledPoints, Start
  <1>3. verdict[a] \in Classes /\ verdict' = [verdict EXCEPT ![a] = verdict[a]]
    BY <1>1, VerdictKept
  <1>. QED
    BY <1>2, <1>3, AttemptStepInv DEF Start, GoTo, Points, PoisonPoints, queueVars, recordVars

LEMMA HandlerReturnsInv ==
  ASSUME Inv, NEW a \in Attempts, NEW class \in Classes, HandlerReturns(a, class)
  PROVE  Inv'
  <1>1. a[1] \notin Poison
    BY DEF Inv, AttemptInv, HandledPoints, HandlerReturns
  <1>. QED
    BY <1>1, AttemptStepInv DEF HandlerReturns, GoTo, Points, PoisonPoints, queueVars

(* What a failed settlement call leaves behind. *)
LEMMA SettleFailsPoint ==
  ASSUME NEW a \in Attempts, SettleFails(a)
  PROVE  \E p \in {"fallback", "done"}, v \in Classes :
            /\ point' = [point EXCEPT ![a] = p] /\ verdict' = [verdict EXCEPT ![a] = v]
            /\ p = "fallback" => v # "ok"
  BY DEF SettleFails, GoTo, Done, Classes

(* An attempt at a settlement that fails: only the records change. *)
LEMMA SettleFailsInv ==
  ASSUME Inv, NEW a \in Attempts, a[1] \notin Poison, point[a] # "none", SettleFails(a),
         jobDead' \in {jobDead, jobDead \cup ({a[1]} \cap WithJob)},
         refused' \in {refused, refused \cup {a[1]}},
         jobDead' # jobDead => a[1] \in refused' \/ delivered[a[1]] = MaxDeliver,
         UNCHANGED <<queueVars, dlq, handled>>
  PROVE  Inv'
  <1>1. PICK p \in {"fallback", "done"}, v \in Classes :
            /\ point' = [point EXCEPT ![a] = p] /\ verdict' = [verdict EXCEPT ![a] = v]
            /\ p = "fallback" => v # "ok"
    BY SettleFailsPoint
  <1>2. p \in Points /\ p \notin PoisonPoints
    BY DEF Points, PoisonPoints
  <1>3. Fails
    BY DEF SettleFails
  <1>. QED  BY <1>1, <1>2, <1>3, AttemptStepInv DEF queueVars

LEMMA SettlePoint ==
  ASSUME Inv, NEW a \in Attempts, point[a] \in SettlePoints \cup {"term", "fallbackTerm"}
  PROVE  a[1] \notin Poison /\ point[a] # "none"
  BY DEF Inv, AttemptInv, HandledPoints, SettlePoints

(* A goroutine that settled its message ends. *)
LEMMA DoneInv ==
  ASSUME Inv, NEW a \in Attempts, point[a] # "none", Done(a),
         stored' \in {stored, stored \ {a[1]}},
         stored' # stored => a[1] \in Poison \cup handled \cup dlq \cup jobDead,
         leased' \in {leased, leased \ {a[1]}},
         UNCHANGED <<accepted, delivered, recordVars, boundVars>>
  PROVE  Inv'
  BY AttemptStepInv DEF Done, GoTo, Points, Classes, PoisonPoints, HandledPoints, recordVars

LEMMA AckInv ==
  ASSUME Inv, NEW a \in Attempts, Ack(a)
  PROVE  Inv'
  <1>1. a[1] \notin Poison /\ point[a] # "none"
    BY SettlePoint DEF Ack
  <1>2. CASE stored' = stored \ {a[1]} /\ Done(a) /\ UNCHANGED boundVars
    <2>1. verdict[a] = "ok" /\ point[a] \in {"settle", "fallback"}
      BY DEF Ack, Settlement, SettlePoints
    <2>2. a[1] \in handled \cup jobDead
      BY <2>1 DEF Inv, AttemptInv
    <2>. QED  BY <1>1, <1>2, <2>2, DoneInv DEF Ack
  <1>3. CASE SettleFails(a) /\ UNCHANGED stored
    BY <1>1, <1>3, SettleFailsInv DEF Ack, queueVars, recordVars
  <1>. QED  BY <1>2, <1>3 DEF Ack

LEMMA RetryInv ==
  ASSUME Inv, NEW a \in Attempts, Retry(a)
  PROVE  Inv'
  <1>1. a[1] \notin Poison /\ point[a] # "none"
    BY SettlePoint DEF Retry
  <1>2. CASE leased' = leased \ {a[1]} /\ Done(a) /\ UNCHANGED boundVars
    BY <1>1, <1>2, DoneInv DEF Retry
  <1>3. CASE SettleFails(a) /\ UNCHANGED leased
    BY <1>1, <1>3, SettleFailsInv DEF Retry, queueVars, recordVars
  <1>. QED  BY <1>2, <1>3 DEF Retry

(* Without a terminal error the attempt was the last one. *)
LEMMA DeadLetterBudget ==
  ASSUME Inv, NEW a \in Attempts, DeadLetter(a)
  PROVE  a[1] \in refused' \/ delivered[a[1]] = MaxDeliver
  <1>1. CASE verdict[a] = "terminal"
    BY <1>1 DEF DeadLetter
  <1>2. CASE verdict[a] # "terminal"
    <2>1. verdict[a] = "retryable" /\ RetryExhausted(a)
      BY <1>2 DEF DeadLetter, Settlement, Inv, TypeOK, Classes
    <2>2. a[2] <= delivered[a[1]]
      BY SettlePoint DEF DeadLetter, Inv, NumberInv
    <2>3. delivered[a[1]] \in 0..MaxDeliver /\ a[2] \in Nat
      BY AttemptTypes DEF Inv, TypeOK
    <2>. QED  BY <2>1, <2>2, <2>3, CommandAssumption DEF RetryExhausted
  <1>. QED  BY <1>1, <1>2

LEMMA DeadLetterInv ==
  ASSUME Inv, NEW a \in Attempts, DeadLetter(a)
  PROVE  Inv'
  <1>1. a[1] \notin Poison /\ point[a] # "none"
    BY SettlePoint DEF DeadLetter
  <1>2. a[1] \in refused' \/ delivered[a[1]] = MaxDeliver
    BY DeadLetterBudget
  <1>3. /\ jobDead' \in {jobDead, jobDead \cup ({a[1]} \cap WithJob)}
        /\ refused' \in {refused, refused \cup {a[1]}}
        /\ UNCHANGED <<queueVars, handled>>
    BY DEF DeadLetter
  <1>4. CASE /\ dlq' = dlq \cup {a[1]}
             /\ GoTo(a, IF point[a] = "settle" THEN "term" ELSE "fallbackTerm")
             /\ UNCHANGED <<verdict, boundVars>>
    <2>1. PICK p \in {"term", "fallbackTerm"} : point' = [point EXCEPT ![a] = p]
      BY <1>4 DEF GoTo
    <2>2. p \in Points /\ p \notin PoisonPoints
      BY DEF Points, PoisonPoints
    <2>3. verdict[a] \in Classes /\ verdict' = [verdict EXCEPT ![a] = verdict[a]]
      BY <1>4, VerdictKept DEF Inv
    <2>. QED  BY <1>1, <1>2, <1>3, <1>4, <2>1, <2>2, <2>3, AttemptStepInv DEF queueVars
  <1>5. CASE SettleFails(a) /\ UNCHANGED dlq
    BY <1>1, <1>2, <1>3, <1>5, SettleFailsInv
  <1>. QED  BY <1>4, <1>5 DEF DeadLetter

LEMMA TermInv ==
  ASSUME Inv, NEW a \in Attempts, Term(a)
  PROVE  Inv'
  <1>1. a[1] \notin Poison /\ point[a] # "none"
    BY SettlePoint DEF Term
  <1>2. CASE stored' = stored \ {a[1]} /\ Done(a) /\ UNCHANGED boundVars
    <2>1. a[1] \in dlq
      BY DEF Term, Inv, AttemptInv
    <2>. QED  BY <1>1, <1>2, <2>1, DoneInv DEF Term
  <1>3. CASE SettleFails(a) /\ UNCHANGED stored
    BY <1>1, <1>3, SettleFailsInv DEF Term, queueVars, recordVars
  <1>. QED  BY <1>2, <1>3 DEF Term

LEMMA CrashInv ==
  ASSUME Inv, Crash
  PROVE  Inv'
  <1>. USE DEF Inv
  <1>1. /\ \A a \in Attempts : point'[a] \in {point[a], "done"} /\ (point[a] = "none" <=> point'[a] = "none")
        /\ \A a \in Attempts : point'[a] \in {"none", "done"}
        /\ point' \in [Attempts -> Points] /\ verdict' \in [Attempts -> Classes]
    BY DEF Crash, TypeOK, Points, Classes
  <1>2. TypeOK'
    BY <1>1, CommandAssumption DEF TypeOK, Crash, queueVars, recordVars
  <1>3. AttemptInv'
    BY <1>1 DEF AttemptInv, PoisonPoints, HandledPoints
  <1>4. NumberInv' /\ RemovedAccounted' /\ BudgetRespected'
    BY <1>1 DEF Crash, NumberInv, RemovedAccounted, Removed, BudgetRespected, queueVars, recordVars
  <1>. QED  BY <1>2, <1>3, <1>4

LEMMA NextInv == Inv /\ [Next]_vars => Inv'
  <1>. SUFFICES ASSUME Inv, [Next]_vars PROVE Inv'
    OBVIOUS
  <1>1. CASE \E e \in Envelopes : Dispatch(e) \/ Fetch(e) \/ AckWait(e)
    BY <1>1, DispatchInv, FetchInv, AckWaitInv
  <1>2. CASE \E a \in Attempts : AttemptStep(a)
    BY <1>2, PoisonInv, StartInv, HandlerReturnsInv, AckInv, RetryInv, DeadLetterInv, TermInv
       DEF AttemptStep
  <1>3. CASE Crash
    BY <1>3, CrashInv
  <1>4. CASE UNCHANGED vars
    BY <1>4 DEF Inv, TypeOK, AttemptInv, NumberInv, RemovedAccounted, Removed, BudgetRespected,
                vars, queueVars, attemptVars, recordVars, boundVars
  <1>. QED  BY <1>1, <1>2, <1>3, <1>4 DEF Next

-----------------------------------------------------------------------------
(* Whatever the handlers return, whatever settlement calls fail and        *)
(* wherever the process dies, the inductive invariant holds.               *)
THEOREM Invariance == Spec => []Inv
  BY InitInv, NextInv, PTL DEF Spec

(* The queue, the attempts and the records have their types; the queue     *)
(* holds only what it accepted.                                            *)
THEOREM TypeCorrect == Spec => []TypeOK
  <1>1. Inv => TypeOK
    BY DEF Inv
  <1>. QED  BY <1>1, Invariance, PTL

(* A decodable command that left the work queue was handled, dead-lettered *)
(* or has its job marked so, for every number of overlapping attempts.     *)
THEOREM Accounted == Spec => []RemovedAccounted
  <1>1. Inv => RemovedAccounted
    BY DEF Inv
  <1>. QED  BY <1>1, Invariance, PTL

(* A command without a terminal error is dead-lettered on its last         *)
(* delivery only, for every max_deliver.                                   *)
THEOREM Budget == Spec => []BudgetRespected
  <1>1. Inv => BudgetRespected
    BY DEF Inv
  <1>. QED  BY <1>1, Invariance, PTL
=============================================================================
