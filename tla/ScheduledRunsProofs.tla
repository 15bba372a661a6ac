------------------------ MODULE ScheduledRunsProofs ------------------------
(***************************************************************************)
(* Proofs about ScheduledRuns for any retry limit, any set of manual keys  *)
(* and any number of ticks, edits and failures: the types, that a key is   *)
(* published with one selection of the definition, that a run retired      *)
(* before its claim is never published, and that the cursor only goes      *)
(* forward.                                                                *)
(***************************************************************************)
EXTENDS ScheduledRuns, TLAPS

Live == {"pending", "retrying", "publishing"}

(* Each version of the definition was bought by a request, and a request   *)
(* under way has not used its own yet.                                     *)
CountInv ==
    job.version + (IF request = NoJob THEN 0 ELSE 1) <= edits + 1

(* A row is of a version the definition has had and of a slot that came    *)
(* due, and has an attempt left while it is live.                          *)
LedgerInv ==
    \A k \in Keys : runs[k] # NoRun =>
        /\ runs[k].def <= job.version
        /\ k \in Slots => k <= now
        /\ runs[k].state \in Live => runs[k].attempts <= MaxRetries

(* A one-shot job is never edited and has no runs. *)
OnceInv ==
    job.once =>
        /\ job.version = 1
        /\ request = NoJob
        /\ \A k \in Keys : runs[k] = NoRun

(* What the loop holds between two of its steps: the definition of a slot  *)
(* that is due and still has no run, or the run of its key, which nobody   *)
(* else moves; a slot is published only under a claim.                     *)
LoopInv ==
    /\ \A k \in todo : k = NoJob \/ runs[k] # NoRun
    /\ pc \in {"admit", "markfail", "oneshot", "mark"} =>
         /\ sel \in Jobs
         /\ key = sel.slot /\ key <= now
         /\ runs[key] = NoRun
    /\ pc = "admit" => ~job.once
    /\ pc \in {"oneshot", "mark"} => job.once /\ sel.version = 1
    /\ pc \in {"process", "check", "publish", "record", "fail", "reject"} =>
         /\ key \in Keys /\ cur \in Runs
         /\ runs[key] # NoRun
         /\ runs[key].def = cur.def
         /\ runs[key].state = cur.state
         /\ runs[key].attempts = cur.attempts
    /\ pc \in {"check", "publish", "record", "fail", "reject"} => cur.state \in Live
    /\ pc \in {"publish", "record", "fail", "reject"} /\ key \in Slots =>
         cur.state = "publishing"

(* A command carries the version of its row, or the only version of a      *)
(* one-shot job.                                                           *)
PubInv ==
    \A p \in published :
        \/ job.once /\ p[2] = 1
        \/ runs[p[1]] # NoRun /\ runs[p[1]].def = p[2]

(* A row that was retired unclaimed stays unclaimed: no later version of   *)
(* the definition selects it.                                              *)
RetiredInv ==
    /\ late = {}
    /\ \A s \in retired :
         /\ runs[s] # NoRun
         /\ runs[s].state \in {"pending", "canceled"}
         /\ runs[s].def < job.version

Inv ==
    /\ TypeOK /\ CountInv /\ LedgerInv /\ OnceInv
    /\ LoopInv /\ PubInv /\ RetiredInv

-----------------------------------------------------------------------------
(* Facts about the operators of the model. *)

LEMMA SlotsAndKeys ==
  /\ Slots \subseteq Nat /\ Slots \subseteq Keys /\ ManualKeys \subseteq Keys
  /\ Slots \cap ManualKeys = {}
  BY ScheduleAssumption DEF Slots, Keys

LEMMA NextSlotType ==
  ASSUME now \in 0 .. MaxTime
  PROVE  NextSlot \in Slots /\ NextSlot = now + 1 /\ NextSlot \in Nat
  BY ScheduleAssumption DEF NextSlot, Slots

LEMMA NewRunType ==
  ASSUME NEW def \in 1 .. MaxEdits + 1, NEW last \in 0 .. MaxTime + 1,
         NEW missing \in BOOLEAN
  PROVE  /\ NewRun(def, last, missing) \in Runs
         /\ NewRun(def, last, missing).def = def
         /\ NewRun(def, last, missing).state \in Live =>
              NewRun(def, last, missing).attempts <= MaxRetries
  BY ScheduleAssumption DEF NewRun, Runs, Live

(* Going back to the loop needs only that no row disappears. *)
LEMMA ReturnLoop ==
  ASSUME Inv, Return, \A k \in Keys : runs[k] # NoRun => runs'[k] # NoRun
  PROVE  /\ LoopInv'
         /\ pc' = "idle" /\ key' = NoRun /\ cur' = NoRun /\ sel' = NoJob
         /\ todo' = todo
  BY DEF Inv, TypeOK, LoopInv, Return

-----------------------------------------------------------------------------
(* Four kinds of step.  What each may change is said once, and an action   *)
(* only has to be shown to be of its kind.                                 *)

(* A step of the loop that writes nothing. *)
LEMMA LoopStepInv ==
  ASSUME Inv, UNCHANGED <<now, job, runs, request, execVars, histVars, edits>>,
         failures' \in 0 .. MaxFailures,
         pc' \in {"idle", "admit", "process", "check", "publish", "record",
                  "fail", "reject", "markfail", "oneshot", "mark"},
         key' \in Keys \cup {NoRun}, todo' \subseteq Keys \cup {NoJob},
         sel' \in Jobs \cup {NoJob}, cur' \in Runs \cup {NoRun},
         LoopInv'
  PROVE  Inv'
  <1>1. TypeOK'
    BY DEF Inv, TypeOK, execVars, histVars
  <1>2. CountInv' /\ LedgerInv' /\ OnceInv' /\ PubInv' /\ RetiredInv'
    BY DEF Inv, CountInv, LedgerInv, OnceInv, PubInv, RetiredInv, execVars, histVars
  <1>. QED  BY <1>1, <1>2 DEF Inv

(* A step that moves the cursor or the state of the definition, and never  *)
(* its version.                                                            *)
LEMMA CursorStepInv ==
  ASSUME Inv, job' \in Jobs, job'.once = job.once, job'.version = job.version,
         UNCHANGED <<now, runs, request, executed, histVars, boundVars>>,
         rec' \in [Slots -> Jobs \cup {NoJob}],
         Return \/ UNCHANGED schedVars
  PROVE  Inv'
  <1>1. LoopInv'
    BY ReturnLoop DEF Inv, LoopInv, schedVars
  <1>2. TypeOK'
    BY ReturnLoop DEF Inv, TypeOK, execVars, histVars, boundVars, schedVars
  <1>3. CountInv' /\ LedgerInv' /\ OnceInv' /\ PubInv' /\ RetiredInv'
    BY DEF Inv, CountInv, LedgerInv, OnceInv, PubInv, RetiredInv, histVars, boundVars
  <1>. QED  BY <1>1, <1>2, <1>3 DEF Inv

(* A step that writes one row of the ledger. *)
LEMMA RowStepInv ==
  ASSUME Inv, NEW k \in Keys, NEW r \in Runs,
         runs' = [runs EXCEPT ![k] = r], ~job.once,
         r.def <= job.version, k \in Slots => k <= now,
         r.state \in Live => r.attempts <= MaxRetries,
         runs[k] # NoRun => r.def = runs[k].def,
         k \in retired => r.state \in {"pending", "canceled"},
         UNCHANGED <<now, job, execVars, histVars, boundVars>>,
         request' = request \/ request' = NoJob,
         pc' \in {"idle", "admit", "process", "check", "publish", "record",
                  "fail", "reject", "markfail", "oneshot", "mark"},
         key' \in Keys \cup {NoRun}, todo' \subseteq Keys \cup {NoJob},
         sel' \in Jobs \cup {NoJob}, cur' \in Runs \cup {NoRun},
         LoopInv'
  PROVE  Inv'
  <1>1. TypeOK'
    BY DEF Inv, TypeOK, execVars, histVars, boundVars
  <1>2. CountInv'
    BY DEF Inv, CountInv, TypeOK, Jobs, boundVars
  <1>3. LedgerInv' /\ OnceInv'
    BY SentinelAssumption DEF Inv, TypeOK, LedgerInv, OnceInv
  <1>4. PubInv'
    BY SentinelAssumption DEF Inv, TypeOK, PubInv, histVars
  <1>5. RetiredInv'
    BY SentinelAssumption, SlotsAndKeys DEF Inv, TypeOK, RetiredInv, histVars
  <1>. QED  BY <1>1, <1>2, <1>3, <1>4, <1>5 DEF Inv

(* A publication under a key that was not retired, with the version of its *)
(* row or the one of a one-shot job.                                       *)
LEMMA PublishStepInv ==
  ASSUME Inv, NEW def \in 1 .. MaxEdits + 1, key \in Keys,
         Sends(key, def) \/ UNCHANGED histVars,
         key \notin retired,
         \/ job.once /\ def = 1
         \/ runs[key] # NoRun /\ runs[key].def = def,
         UNCHANGED <<now, job, runs, cur, todo, sel, key, request, execVars, boundVars>>,
         pc' \in {"idle", "admit", "process", "check", "publish", "record",
                  "fail", "reject", "markfail", "oneshot", "mark"},
         LoopInv'
  PROVE  Inv'
  <1>1. /\ published' \subseteq published \cup {<<key, def>>}
        /\ retired' = retired /\ late' = late
    BY DEF Sends, histVars
  <1>2. TypeOK'
    BY <1>1 DEF Inv, TypeOK, execVars, boundVars
  <1>3. CountInv' /\ LedgerInv' /\ OnceInv' /\ RetiredInv'
    BY <1>1 DEF Inv, CountInv, LedgerInv, OnceInv, RetiredInv, boundVars
  <1>4. PubInv'
    BY <1>1 DEF Inv, PubInv
  <1>. QED  BY <1>2, <1>3, <1>4 DEF Inv

-----------------------------------------------------------------------------
(* The loop. *)

LEMMA InitInv == Init => Inv
  <1>. SUFFICES ASSUME Init PROVE Inv
    OBVIOUS
  <1>1. TypeOK
    BY ScheduleAssumption, SlotsAndKeys DEF Init, TypeOK, Jobs, Slots, Keys
  <1>2. CountInv /\ LedgerInv /\ OnceInv
    BY DEF Init, CountInv, LedgerInv, OnceInv
  <1>3. LoopInv /\ PubInv /\ RetiredInv
    BY DEF Init, LoopInv, PubInv, RetiredInv
  <1>. QED  BY <1>1, <1>2, <1>3 DEF Inv

LEMMA StartRoundInv == Inv /\ StartRound => Inv'
  <1>. SUFFICES ASSUME Inv, StartRound PROVE Inv'
    OBVIOUS
  <1>1. todo' \subseteq Keys \cup {NoJob}
        /\ \A k \in todo' : k = NoJob \/ runs[k] # NoRun
    BY DEF StartRound, Ready
  <1>2. LoopInv'
    BY <1>1 DEF Inv, LoopInv, StartRound
  <1>. QED
    BY <1>1, <1>2, LoopStepInv DEF Inv, TypeOK, StartRound, boundVars

LEMMA DispatchJobInv == Inv /\ DispatchJob => Inv'
  <1>. SUFFICES ASSUME Inv, DispatchJob PROVE Inv'
    OBVIOUS
  <1>1. job \in Jobs /\ job.slot \in Slots /\ job.slot \in Keys
    BY SlotsAndKeys DEF Inv, TypeOK, Jobs
  <1>2. /\ key' \in Keys \cup {NoRun} /\ sel' \in Jobs \cup {NoJob}
        /\ cur' \in Runs \cup {NoRun} /\ pc' \in {"idle", "admit", "process"}
        /\ todo' \subseteq todo
    BY <1>1 DEF Inv, TypeOK, DispatchJob
  <1>3. LoopInv'
    BY <1>1 DEF Inv, TypeOK, LoopInv, DispatchJob, Due
  <1>. QED
    BY <1>2, <1>3, LoopStepInv DEF Inv, TypeOK, DispatchJob, boundVars

LEMMA DispatchOneShotInv == Inv /\ DispatchOneShot => Inv'
  <1>. SUFFICES ASSUME Inv, DispatchOneShot PROVE Inv'
    OBVIOUS
  <1>1. job \in Jobs /\ job.slot \in Slots /\ job.slot \in Keys
    BY SlotsAndKeys DEF Inv, TypeOK, Jobs
  <1>2. /\ key' \in Keys \cup {NoRun} /\ sel' \in Jobs \cup {NoJob}
        /\ pc' \in {"idle", "oneshot"} /\ todo' \subseteq todo
    BY <1>1 DEF Inv, TypeOK, DispatchOneShot
  <1>3. LoopInv'
    BY <1>1 DEF Inv, LoopInv, OnceInv, DispatchOneShot, Due
  <1>. QED
    BY <1>2, <1>3, LoopStepInv DEF Inv, TypeOK, DispatchOneShot, boundVars

LEMMA NextPendingInv ==
  ASSUME Inv, NEW k \in Keys, NextPending(k)
  PROVE  Inv'
  <1>1. runs[k] # NoRun /\ runs[k] \in Runs
    BY DEF Inv, TypeOK, LoopInv, NextPending
  <1>2. LoopInv'
    BY <1>1 DEF Inv, LoopInv, NextPending
  <1>. QED
    BY <1>1, <1>2, LoopStepInv DEF Inv, TypeOK, NextPending, boundVars

LEMMA AdmitRunInv == Inv /\ AdmitRun => Inv'
  <1>. SUFFICES ASSUME Inv, AdmitRun PROVE Inv'
    OBVIOUS
  <1>1. /\ sel \in Jobs /\ key = sel.slot /\ key \in Slots /\ key \in Keys
        /\ key <= now /\ runs[key] = NoRun /\ ~job.once
    BY SlotsAndKeys DEF Inv, LoopInv, AdmitRun, Jobs
  <1>2. CASE GoTo("markfail") /\ UNCHANGED <<runs, cur>>
    <2>1. LoopInv'
      BY <1>2, <1>1 DEF Inv, LoopInv, AdmitRun, GoTo
    <2>. QED
      BY <1>2, <2>1, LoopStepInv DEF Inv, TypeOK, AdmitRun, GoTo, boundVars
  <1>3. ASSUME NEW missing \in BOOLEAN, runs' = CreateCron(missing),
               IF runs'[key] = NoRun
               THEN Return
               ELSE cur' = runs'[key] /\ GoTo("process")
        PROVE  Inv'
    <2> DEFINE r == NewRun(sel.version, sel.last, missing)
    <2>1. /\ r \in Runs /\ r # NoRun /\ r.def = sel.version
          /\ r.state \in Live => r.attempts <= MaxRetries
      BY <1>1, NewRunType, SentinelAssumption DEF Jobs
    <2>2. CASE runs' = runs
      <3>1. Return
        BY <2>2, <1>1, <1>3
      <3>. QED
        BY <2>2, <3>1, <1>1, ReturnLoop, LoopStepInv DEF Inv, TypeOK, AdmitRun, boundVars
    <2>3. CASE runs' # runs
      <3>1. job.version = sel.version /\ runs' = [runs EXCEPT ![key] = r]
        BY <2>3, <1>1, <1>3 DEF CreateCron
      <3>2. runs'[key] = r
        BY <3>1, <1>1 DEF Inv, TypeOK
      <3>3. cur' = r /\ pc' = "process" /\ UNCHANGED <<todo, sel, key>>
        BY <3>2, <2>1, <1>3 DEF GoTo
      <3>4. LoopInv'
        BY <3>1, <3>2, <3>3, <2>1, <1>1, SlotsAndKeys DEF Inv, TypeOK, LoopInv
      <3>5. r.def <= job.version
        BY <3>1, <2>1 DEF Inv, TypeOK, Jobs
      <3>6. key \notin retired
        BY <1>1 DEF Inv, RetiredInv
      <3>. HIDE DEF r
      <3>. QED
        BY <3>1, <3>3, <3>4, <3>5, <3>6, <2>1, <1>1, RowStepInv
           DEF Inv, TypeOK, AdmitRun
    <2>. QED  BY <2>2, <2>3
  <1>. QED  BY <1>2, <1>3 DEF AdmitRun

LEMMA ProcessSettledInv == Inv /\ ProcessSettled => Inv'
  <1>. SUFFICES ASSUME Inv, ProcessSettled PROVE Inv'
    OBVIOUS
  <1>1. key \in Keys /\ cur \in Runs /\ job \in Jobs
    BY DEF Inv, TypeOK, LoopInv, ProcessSettled
  <1>2. NextSlot \in Slots
    BY NextSlotType DEF Inv, TypeOK
  <1>3. ~IsManual(key) => key \in 0 .. MaxTime + 1
    BY <1>1, ScheduleAssumption DEF IsManual, Keys, Slots
  <1>4. job' \in Jobs /\ job'.once = job.once /\ job'.version = job.version
    <2>1. CASE SettleCronRun
      BY <2>1, <1>1, <1>2, <1>3 DEF SettleCronRun, Jobs
    <2>2. CASE PauseFailedCronRun
      <3>1. cur.attempts \in Nat
        BY <1>1, ScheduleAssumption DEF Runs
      <3>. QED  BY <2>2, <3>1, <1>1 DEF PauseFailedCronRun, Jobs
    <2>3. CASE UNCHANGED job
      BY <2>3, <1>1
    <2>. QED  BY <2>1, <2>2, <2>3 DEF ProcessSettled
  <1>. QED
    BY <1>4, CursorStepInv DEF Inv, TypeOK, ProcessSettled, execVars

LEMMA ClaimCronInv == Inv /\ ClaimCron => Inv'
  <1>. SUFFICES ASSUME Inv, ClaimCron PROVE Inv'
    OBVIOUS
  <1>1. /\ key \in Keys /\ cur \in Runs /\ runs[key] # NoRun /\ runs[key] \in Runs
        /\ runs[key].def = cur.def /\ runs[key].state = cur.state
        /\ runs[key].attempts = cur.attempts /\ cur.state \in Live
    BY DEF Inv, TypeOK, LoopInv, ClaimCron, Open, Live
  <1>2. CASE ~Claimable
    <2>1. pc' = "check" /\ UNCHANGED <<runs, cur, todo, sel, key>>
      BY <1>2 DEF ClaimCron, GoTo
    <2>2. LoopInv'
      BY <2>1, <1>1 DEF Inv, LoopInv, ClaimCron
    <2>. QED
      BY <2>1, <2>2, LoopStepInv DEF Inv, TypeOK, ClaimCron, boundVars
  <1>3. CASE Claimable
    <2> DEFINE r == [cur EXCEPT !.state = "publishing", !.waiting = TRUE,
                                !.version = @ + 1]
    <2>1. /\ runs' = [runs EXCEPT ![key] = r] /\ cur' = r /\ pc' = "publish"
          /\ UNCHANGED <<todo, sel, key>>
      BY <1>3 DEF ClaimCron, GoTo
    <2>2. /\ r \in Runs /\ r.def = cur.def /\ r.state = "publishing"
          /\ r.attempts = cur.attempts
      <3>1. cur.version + 1 \in Nat
        BY <1>1 DEF Runs
      <3>. QED  BY <3>1, <1>1 DEF Runs
    <2>3. r # NoRun /\ r.attempts <= MaxRetries
      BY <1>1, <2>2, SentinelAssumption DEF Inv, LedgerInv
    <2>4. key \notin retired
      \* A retired row is not claimed, and its version is gone for good.
      BY <1>1, <1>3 DEF Inv, TypeOK, RetiredInv, Claimable, Jobs, Runs
    <2>5. ~job.once /\ r.def <= job.version /\ (key \in Slots => key <= now)
      BY <1>1, <2>2 DEF Inv, OnceInv, LedgerInv
    <2>. HIDE DEF r
    <2>6. LoopInv'
      BY <2>1, <2>2, <2>3, <1>1 DEF Inv, TypeOK, LoopInv, Live
    <2>. QED
      BY <2>1, <2>2, <2>3, <2>4, <2>5, <2>6, <1>1, RowStepInv
         DEF Inv, TypeOK, ClaimCron
  <1>. QED  BY <1>2, <1>3

LEMMA ProcessManualInv == Inv /\ ProcessManual => Inv'
  <1>. SUFFICES ASSUME Inv, ProcessManual PROVE Inv'
    OBVIOUS
  <1>1. key \notin Slots
    BY SlotsAndKeys DEF ProcessManual, IsManual
  <1>2. LoopInv'
    BY <1>1 DEF Inv, LoopInv, ProcessManual, Open, GoTo, Live
  <1>. QED
    BY <1>2, LoopStepInv DEF Inv, TypeOK, ProcessManual, GoTo, boundVars

(* An update of the row the loop holds, after which it goes on with the    *)
(* row it wrote or goes back.                                              *)
LEMMA UpdateInv ==
  ASSUME Inv, pc \in {"check", "record", "fail", "reject"}, NEW r \in Runs,
         Update(r) \/ UNCHANGED runs, r.def = cur.def,
         r.state \in Live => r.attempts <= MaxRetries,
         key \in retired => r.state \in {"pending", "canceled"},
         UNCHANGED <<now, job, request, execVars, histVars, boundVars>>,
         \/ Return
         \/ Update(r) /\ runs[key].version = cur.version /\ cur' = r /\ GoTo("process")
  PROVE  Inv'
  <1>1. /\ key \in Keys /\ cur \in Runs /\ runs[key] # NoRun /\ runs[key] \in Runs
        /\ runs[key].def = cur.def /\ runs[key].state = cur.state
    BY DEF Inv, TypeOK, LoopInv
  <1> DEFINE q == [r EXCEPT !.version = @ + 1]
  <1>2. /\ q \in Runs /\ q.def = r.def /\ q.state = r.state
        /\ q.attempts = r.attempts
    <2>1. r.version + 1 \in Nat
      BY DEF Runs
    <2>. QED  BY <2>1 DEF Runs
  <1>3. q # NoRun
    BY <1>2, SentinelAssumption
  <1>4. runs' = runs \/ runs' = [runs EXCEPT ![key] = q]
    BY DEF Update
  <1>. HIDE DEF q
  <1>5. \A k \in Keys : runs[k] # NoRun => runs'[k] # NoRun
    BY <1>1, <1>3, <1>4 DEF Inv, TypeOK
  <1>6. CASE runs' = runs /\ Return
    BY <1>6, <1>5, ReturnLoop, LoopStepInv DEF Inv, TypeOK, boundVars
  <1>7. CASE runs' = [runs EXCEPT ![key] = q] /\ (Return \/ (cur' = r /\ GoTo("process")))
    <2>1. LoopInv'
      <3>1. CASE Return
        BY <3>1, <1>5, ReturnLoop
      <3>2. CASE cur' = r /\ GoTo("process")
        BY <3>2, <1>7, <1>1, <1>2, <1>3, <1>5 DEF Inv, TypeOK, LoopInv, GoTo
      <3>. QED  BY <1>7, <3>1, <3>2
    <2>2. /\ pc' \in {"idle", "process"} /\ key' \in Keys \cup {NoRun}
          /\ todo' = todo /\ sel' \in Jobs \cup {NoJob} /\ cur' \in Runs \cup {NoRun}
      BY <1>7 DEF Inv, TypeOK, Return, GoTo
    <2>3. ~job.once /\ q.def <= job.version /\ (key \in Slots => key <= now)
      BY <1>1, <1>2 DEF Inv, OnceInv, LedgerInv
    <2>. QED
      BY <1>7, <1>1, <1>2, <2>1, <2>2, <2>3, RowStepInv DEF Inv, TypeOK
  <1>8. Update(r) /\ runs[key].version = cur.version => runs' = [runs EXCEPT ![key] = q]
    BY DEF Update, q
  <1>. QED  BY <1>4, <1>6, <1>7, <1>8

LEMMA CancelRunInv == Inv /\ CancelRun => Inv'
  <1>. SUFFICES ASSUME Inv, CancelRun PROVE Inv'
    OBVIOUS
  <1> DEFINE r == [cur EXCEPT !.state = "canceled", !.waiting = FALSE]
  <1>1. cur \in Runs
    BY DEF Inv, LoopInv, CancelRun
  <1>2. r \in Runs /\ r.def = cur.def /\ r.state = "canceled"
    BY <1>1 DEF Runs
  <1>3. Update(r) \/ UNCHANGED runs
    BY DEF CancelRun
  <1>. HIDE DEF r
  <1>. QED
    BY <1>2, <1>3, UpdateInv DEF CancelRun, Live

LEMMA RecordDispatchedInv == Inv /\ RecordDispatched => Inv'
  <1>. SUFFICES ASSUME Inv, RecordDispatched PROVE Inv'
    OBVIOUS
  <1> DEFINE r == [cur EXCEPT !.state = "dispatched", !.waiting = FALSE,
                              !.attempts = @ + 1]
  <1>1. /\ key \in Keys /\ cur \in Runs /\ cur.attempts \in Nat
        /\ cur.attempts + 1 \in 0 .. MaxRetries + 1
    BY ScheduleAssumption DEF Inv, LoopInv, LedgerInv, RecordDispatched, Runs
  <1>2. r \in Runs /\ r.def = cur.def /\ r.state = "dispatched"
    BY <1>1 DEF Runs
  <1>3. key \notin retired
    BY <1>1, SlotsAndKeys DEF Inv, TypeOK, LoopInv, RetiredInv, RecordDispatched
  <1>4. /\ Update(r)
        /\ Return \/ (runs[key].version = cur.version /\ cur' = r /\ GoTo("process"))
    BY DEF RecordDispatched
  <1>. HIDE DEF r
  <1>. QED
    BY <1>2, <1>3, <1>4, UpdateInv DEF RecordDispatched, Live

LEMMA FailRunInv == Inv /\ FailRun => Inv'
  <1>. SUFFICES ASSUME Inv, FailRun PROVE Inv'
    OBVIOUS
  <1> DEFINE n == cur.attempts + 1
             again == pc = "fail" /\ RetryLeft(n)
             r == [cur EXCEPT !.attempts = n, !.waiting = again,
                              !.state = IF again THEN "retrying" ELSE "failed"]
  <1>1. /\ key \in Keys /\ cur \in Runs /\ cur.attempts \in Nat
        /\ n \in 0 .. MaxRetries + 1 /\ again \in BOOLEAN /\ (again => RetryLeft(n))
    BY ScheduleAssumption DEF Inv, LoopInv, LedgerInv, FailRun, Runs, RetryLeft
  <1>. HIDE DEF n, again
  <1>2. /\ r \in Runs /\ r.def = cur.def
        /\ r.state = "failed" \/ (r.state = "retrying" /\ RetryLeft(n))
        /\ r.attempts = n
    <2>1. CASE again
      BY <1>1, <2>1 DEF Runs
    <2>2. CASE ~again
      BY <1>1, <2>2 DEF Runs
    <2>. QED  BY <2>1, <2>2
  <1>3. key \notin retired
    BY <1>1, SlotsAndKeys DEF Inv, TypeOK, LoopInv, RetiredInv, FailRun
  <1>4. /\ Update(r)
        /\ Return \/ (runs[key].version = cur.version /\ cur' = r /\ GoTo("process"))
    BY DEF FailRun, n, again
  <1>. HIDE DEF r
  <1>. QED
    BY <1>2, <1>3, <1>4, UpdateInv DEF FailRun, RetryLeft, Live

LEMMA PublishInv == Inv /\ Publish => Inv'
  <1>. SUFFICES ASSUME Inv, Publish PROVE Inv'
    OBVIOUS
  <1>1. /\ key \in Keys /\ cur \in Runs /\ runs[key] # NoRun
        /\ runs[key].def = cur.def /\ cur.def \in 1 .. MaxEdits + 1
    BY DEF Inv, LoopInv, Publish, Runs
  <1>2. key \notin retired
    \* A slot is published under a claim, and a retired row has none.
    BY <1>1, SlotsAndKeys DEF Inv, TypeOK, LoopInv, RetiredInv, Publish
  <1>3. /\ Sends(key, cur.def) \/ UNCHANGED histVars
        /\ pc' \in {"record", "fail", "reject"} /\ UNCHANGED <<todo, sel, key>>
    BY DEF Publish, Command, GoTo
  <1>4. LoopInv'
    BY <1>3 DEF Inv, LoopInv, Publish
  <1>. QED
    BY <1>1, <1>2, <1>3, <1>4, PublishStepInv DEF Publish

LEMMA PublishOneShotInv == Inv /\ PublishOneShot => Inv'
  <1>. SUFFICES ASSUME Inv, PublishOneShot PROVE Inv'
    OBVIOUS
  <1>1. /\ key \in Keys /\ job.once /\ sel.version = 1 /\ 1 \in 1 .. MaxEdits + 1
    BY SlotsAndKeys, ScheduleAssumption DEF Inv, LoopInv, PublishOneShot, Jobs
  <1>2. key \notin retired
    BY <1>1 DEF Inv, OnceInv, RetiredInv
  <1>3. /\ Sends(key, 1) \/ UNCHANGED histVars
        /\ pc' \in {"mark", "markfail"} /\ UNCHANGED <<todo, sel, key>>
    BY <1>1 DEF PublishOneShot, GoTo
  <1>4. LoopInv'
    BY <1>3 DEF Inv, LoopInv, PublishOneShot
  <1>. QED
    BY <1>1, <1>2, <1>3, <1>4, PublishStepInv DEF PublishOneShot

LEMMA MarkFailureForJobInv == Inv /\ MarkFailureForJob => Inv'
  <1>. SUFFICES ASSUME Inv, MarkFailureForJob PROVE Inv'
    OBVIOUS
  <1>1. sel \in Jobs /\ job \in Jobs /\ sel.retries + 1 \in Nat
    BY DEF Inv, TypeOK, LoopInv, MarkFailureForJob, Jobs
  <1>2. NextSlot \in Slots
    BY NextSlotType DEF Inv, TypeOK
  <1>3. job' \in Jobs /\ job'.once = job.once /\ job'.version = job.version
    BY <1>1, <1>2 DEF MarkFailureForJob, Jobs
  <1>. QED
    BY <1>3, CursorStepInv DEF Inv, TypeOK, MarkFailureForJob, execVars

LEMMA MarkOneShotInv == Inv /\ MarkOneShot => Inv'
  <1>. SUFFICES ASSUME Inv, MarkOneShot PROVE Inv'
    OBVIOUS
  <1>1. sel \in Jobs /\ job \in Jobs /\ sel.slot \in 0 .. MaxTime + 1
    <2>1. sel \in Jobs /\ job \in Jobs
      BY DEF Inv, TypeOK, LoopInv, MarkOneShot
    <2>. QED  BY <2>1, ScheduleAssumption DEF Jobs, Slots
  <1>2. job' \in Jobs /\ job'.once = job.once /\ job'.version = job.version
    BY <1>1 DEF MarkOneShot, Jobs
  <1>. QED
    BY <1>2, CursorStepInv DEF Inv, TypeOK, MarkOneShot, execVars

LEMMA AbandonInv == Inv /\ Abandon => Inv'
  <1>. SUFFICES ASSUME Inv, Abandon PROVE Inv'
    OBVIOUS
  <1>1. failures' \in 0 .. MaxFailures
    BY ScheduleAssumption DEF Inv, TypeOK, Abandon
  <1>. QED
    BY <1>1, ReturnLoop, LoopStepInv DEF Inv, TypeOK, Abandon

-----------------------------------------------------------------------------
(* Backoffice, executions and time. *)

LEMMA RequestInv ==
  ASSUME Inv, NEW kind \in {"edit", "enable", "disable", "delete", "run"},
         Request(kind)
  PROVE  Inv'
  <1>1. job \in Jobs /\ edits \in 0 .. MaxEdits /\ edits' \in 0 .. MaxEdits
    BY ScheduleAssumption DEF Inv, TypeOK, Request
  <1>2. NextSlot \in Slots
    BY NextSlotType DEF Inv, TypeOK
  <1>3. request' \in Requests /\ request' # NoJob
    BY <1>1, <1>2, SentinelAssumption DEF Request, Requests, Jobs
  <1>4. TypeOK'
    BY <1>1, <1>3 DEF Inv, TypeOK, Request, schedVars, execVars, histVars
  <1>5. CountInv'
    BY <1>1, <1>3, ScheduleAssumption DEF Inv, CountInv, Request, Jobs
  <1>6. LedgerInv' /\ OnceInv' /\ LoopInv'
    BY DEF Inv, LedgerInv, OnceInv, LoopInv, Request, schedVars
  <1>7. PubInv' /\ RetiredInv'
    BY DEF Inv, PubInv, RetiredInv, Request, histVars
  <1>. QED  BY <1>4, <1>5, <1>6, <1>7 DEF Inv

(* The request is answered without a change. *)
LEMMA RefusedInv ==
  ASSUME Inv, request' = NoJob,
         UNCHANGED <<now, job, runs, schedVars, execVars, histVars, boundVars>>
  PROVE  Inv'
  <1>1. TypeOK'
    BY DEF Inv, TypeOK, schedVars, execVars, histVars, boundVars
  <1>2. CountInv'
    BY DEF Inv, TypeOK, CountInv, Jobs, boundVars
  <1>3. LedgerInv' /\ OnceInv' /\ LoopInv'
    BY DEF Inv, LedgerInv, OnceInv, LoopInv, schedVars
  <1>4. PubInv' /\ RetiredInv'
    BY DEF Inv, PubInv, RetiredInv, histVars
  <1>. QED  BY <1>1, <1>2, <1>3, <1>4 DEF Inv

LEMMA SaveInv == Inv /\ Save => Inv'
  <1>. SUFFICES ASSUME Inv, Save PROVE Inv'
    OBVIOUS
  <1> DEFINE unclaimed == {s \in Slots : runs[s] # NoRun /\ runs[s].state = "pending"}
  <1>1. /\ request \in Requests /\ request # NoJob /\ job \in Jobs
        /\ request' = NoJob /\ ~job.once
    BY DEF Inv, TypeOK, OnceInv, Save
  <1>2. CASE UNCHANGED <<job, retired>>
    BY <1>1, <1>2, RefusedInv DEF Save, histVars
  <1>3. CASE job' = Saved(request) /\ retired' = retired \cup unclaimed
    <2>1. job.version + 1 \in 1 .. MaxEdits + 1
      BY <1>1, ScheduleAssumption DEF Inv, TypeOK, CountInv, Jobs
    <2>2. request.slot \in Slots /\ request.kind \in {"edit", "enable", "disable", "delete"}
      BY <1>1 DEF Requests, Save
    <2>3. job' \in Jobs /\ job'.once = job.once /\ job'.version = job.version + 1
      <3>1. CASE request.kind \in {"edit", "enable"}
        <4>1. /\ job' = [job EXCEPT !.version = @ + 1, !.status = "active", !.retries = 0,
                                    !.last = 0, !.slot = request.slot,
                                    !.enabled = @ \/ request.kind = "enable"]
              /\ 0 \in 0 .. MaxTime + 1
          BY <1>3, <3>1, ScheduleAssumption DEF Saved
        <4>2. (job.enabled \/ request.kind = "enable") \in BOOLEAN
          OBVIOUS
        <4>. QED  BY <4>1, <4>2, <1>1, <2>1, <2>2 DEF Jobs
      <3>2. CASE request.kind = "disable"
        BY <1>1, <1>3, <2>1, <3>2 DEF Saved, Jobs
      <3>3. CASE request.kind = "delete"
        BY <1>1, <1>3, <2>1, <3>3 DEF Saved, Jobs
      <3>. QED  BY <2>2, <3>1, <3>2, <3>3
    <2>4. job.version \in Nat
      BY <1>1 DEF Jobs
    <2>5. TypeOK'
      BY <1>1, <1>3, <2>3 DEF Inv, TypeOK, Save, schedVars, execVars, boundVars
    <2>6. CountInv'
      BY <1>1, <2>3, <2>4 DEF Inv, TypeOK, CountInv, Save, boundVars
    <2>7. LedgerInv'
      BY <2>3, <2>4 DEF Inv, TypeOK, LedgerInv, Save, Runs
    <2>8. OnceInv' /\ LoopInv'
      BY <1>1, <2>3 DEF Inv, OnceInv, LoopInv, Save, schedVars
    <2>9. PubInv'
      BY <1>1 DEF Inv, PubInv, Save
    <2>10. RetiredInv'
      <3>1. \A s \in Slots : runs[s] # NoRun => runs[s].def < job'.version
        BY <2>3, <2>4, SlotsAndKeys DEF Inv, TypeOK, LedgerInv, Runs
      <3>2. retired \subseteq Slots
        BY DEF Inv, TypeOK
      <3>. QED  BY <1>3, <3>1, <3>2 DEF Inv, RetiredInv, Save
    <2>. QED  BY <2>5, <2>6, <2>7, <2>8, <2>9, <2>10 DEF Inv
  <1>. QED  BY <1>2, <1>3 DEF Save

LEMMA AdmitManualRunInv == Inv /\ AdmitManualRun => Inv'
  <1>. SUFFICES ASSUME Inv, AdmitManualRun PROVE Inv'
    OBVIOUS
  <1>1. request \in Requests /\ request' = NoJob /\ job \in Jobs /\ ~job.once
    BY DEF Inv, TypeOK, OnceInv, AdmitManualRun
  <1>2. CASE UNCHANGED runs
    BY <1>1, <1>2, RefusedInv DEF AdmitManualRun
  <1>3. ASSUME NEW k \in ManualKeys, NEW missing \in BOOLEAN,
               job.version = request.version, runs[k] = NoRun,
               runs' = [runs EXCEPT ![k] = NewRun(request.version, 0, missing)]
        PROVE  Inv'
    <2> DEFINE r == NewRun(request.version, 0, missing)
    <2>1. /\ r \in Runs /\ r # NoRun /\ r.def = job.version
          /\ r.state \in Live => r.attempts <= MaxRetries
      <3>1. request.version \in 1 .. MaxEdits + 1 /\ 0 \in 0 .. MaxTime + 1
        BY <1>1, ScheduleAssumption DEF Requests
      <3>. QED  BY <3>1, <1>3, NewRunType, SentinelAssumption
    <2>2. k \in Keys /\ k \notin Slots /\ k \notin retired
      BY SlotsAndKeys DEF Inv, TypeOK
    <2>. HIDE DEF r
    <2>3. runs' = [runs EXCEPT ![k] = r]
      BY <1>3 DEF r
    <2>4. LoopInv'
      <3>1. pc \in {"admit", "markfail", "oneshot", "mark"} => key \in Slots
        BY DEF Inv, LoopInv, Jobs
      <3>. QED
        BY <1>3, <2>1, <2>2, <2>3, <3>1, SlotsAndKeys
           DEF Inv, TypeOK, LoopInv, AdmitManualRun, schedVars
    <2>5. r.def <= job.version
      BY <2>1, <1>1 DEF Jobs
    <2>. QED
      BY <1>1, <1>3, <2>1, <2>2, <2>3, <2>4, <2>5, RowStepInv
         DEF Inv, TypeOK, AdmitManualRun, schedVars
  <1>. QED  BY <1>2, <1>3 DEF AdmitManualRun

LEMMA LoadExecutionInv ==
  ASSUME Inv, NEW s \in Slots, LoadExecution(s)
  PROVE  Inv'
  <1>1. rec' \in [Slots -> Jobs \cup {NoJob}] /\ executed' \subseteq Slots
    BY DEF Inv, TypeOK, LoadExecution
  <1>2. TypeOK'
    BY <1>1 DEF Inv, TypeOK, LoadExecution, schedVars, histVars, boundVars
  <1>3. CountInv' /\ LedgerInv' /\ OnceInv' /\ LoopInv'
    BY DEF Inv, CountInv, LedgerInv, OnceInv, LoopInv, LoadExecution, schedVars, boundVars
  <1>4. PubInv' /\ RetiredInv'
    BY DEF Inv, PubInv, RetiredInv, LoadExecution, histVars
  <1>. QED  BY <1>2, <1>3, <1>4 DEF Inv

LEMMA RecordExecutionInv ==
  ASSUME Inv, NEW s \in Slots, RecordExecution(s)
  PROVE  Inv'
  <1>1. rec[s] \in Jobs /\ job \in Jobs /\ rec' \in [Slots -> Jobs \cup {NoJob}]
    BY DEF Inv, TypeOK, RecordExecution
  <1>2. PICK n \in {0, rec[s].retries} :
          job' = IF Selected(rec[s].version, rec[s].slot, rec[s].last)
                 THEN [job EXCEPT !.retries = n,
                         !.status = IF job.once THEN "paused" ELSE "active"]
                 ELSE job
    BY DEF RecordExecution
  <1>3. n \in Nat
    BY <1>1 DEF Jobs
  <1>4. job' \in Jobs /\ job'.once = job.once /\ job'.version = job.version
    BY <1>1, <1>2, <1>3 DEF Jobs
  <1>. QED
    BY <1>1, <1>4, CursorStepInv DEF RecordExecution

LEMMA TickInv == Inv /\ Tick => Inv'
  <1>. SUFFICES ASSUME Inv, Tick PROVE Inv'
    OBVIOUS
  <1>1. now \in Nat /\ now' = now + 1 /\ now' \in 0 .. MaxTime
    BY ScheduleAssumption DEF Inv, TypeOK, Tick
  <1>2. TypeOK'
    BY <1>1 DEF Inv, TypeOK, Tick, schedVars, execVars, histVars, boundVars
  <1>3. CountInv' /\ OnceInv' /\ PubInv' /\ RetiredInv'
    BY DEF Inv, CountInv, OnceInv, PubInv, RetiredInv, Tick, histVars, boundVars
  <1>4. LedgerInv'
    <2>1. \A k \in Slots : k <= now => k <= now'
      BY <1>1, SlotsAndKeys
    <2>. QED  BY <2>1 DEF Inv, LedgerInv, Tick
  <1>5. LoopInv'
    <2>1. \A k \in Slots : k <= now => k <= now'
      BY <1>1, SlotsAndKeys
    <2>2. sel \in Jobs => sel.slot \in Slots
      BY DEF Jobs
    <2>. QED  BY <2>1, <2>2 DEF Inv, LoopInv, Tick, schedVars
  <1>. QED  BY <1>2, <1>3, <1>4, <1>5 DEF Inv

LEMMA ElapseInv ==
  ASSUME Inv, NEW k \in Keys, Elapse(k)
  PROVE  Inv'
  <1> DEFINE r == [runs[k] EXCEPT !.waiting = FALSE]
  <1>1. runs[k] \in Runs /\ runs[k] # NoRun
    BY DEF Inv, TypeOK, Elapse
  <1>2. /\ r \in Runs /\ r.def = runs[k].def /\ r.state = runs[k].state
        /\ r.attempts = runs[k].attempts
    BY <1>1 DEF Runs
  <1>3. runs' = [runs EXCEPT ![k] = r] /\ r # NoRun
    BY <1>2, SentinelAssumption DEF Elapse
  <1>. HIDE DEF r
  <1>4. LoopInv'
    <2>1. /\ runs'[k] = r
          /\ \A l \in Keys : /\ runs'[l] = NoRun <=> runs[l] = NoRun
                             /\ l # k => runs'[l] = runs[l]
      BY <1>1, <1>3 DEF Inv, TypeOK
    <2>2. pc \in {"admit", "markfail", "oneshot", "mark"} => key \in Keys
      BY SlotsAndKeys DEF Inv, LoopInv, Jobs
    <2>3. todo \subseteq Keys \cup {NoJob}
      BY DEF Inv, TypeOK
    <2>. QED  BY <1>2, <2>1, <2>2, <2>3 DEF Inv, LoopInv, Elapse, schedVars
  <1>5. /\ ~job.once /\ r.def <= job.version /\ (k \in Slots => k <= now)
        /\ (r.state \in Live => r.attempts <= MaxRetries)
        /\ (k \in retired => r.state \in {"pending", "canceled"})
    BY <1>1, <1>2 DEF Inv, OnceInv, LedgerInv, RetiredInv
  <1>6. /\ UNCHANGED <<now, job, execVars, histVars, boundVars>> /\ request' = request
        /\ pc' = pc /\ key' = key /\ todo' = todo /\ sel' = sel /\ cur' = cur
    BY DEF Elapse, schedVars
  <1>7. /\ pc' \in {"idle", "admit", "process", "check", "publish", "record",
                     "fail", "reject", "markfail", "oneshot", "mark"}
        /\ key' \in Keys \cup {NoRun} /\ todo' \subseteq Keys \cup {NoJob}
        /\ sel' \in Jobs \cup {NoJob} /\ cur' \in Runs \cup {NoRun}
    BY <1>6 DEF Inv, TypeOK
  <1>. QED  BY <1>2, <1>3, <1>4, <1>5, <1>6, <1>7, RowStepInv

LEMMA StutterInv == Inv /\ UNCHANGED vars => Inv'
  <1>. SUFFICES ASSUME Inv, UNCHANGED vars PROVE Inv'
    OBVIOUS
  <1>. QED
    BY LoopStepInv DEF Inv, TypeOK, LoopInv, vars, schedVars, boundVars

LEMMA NextInv == Inv /\ [Next]_vars => Inv'
  <1>. SUFFICES ASSUME Inv, [Next]_vars PROVE Inv'
    OBVIOUS
  <1>1. CASE Loop
    BY <1>1, StartRoundInv, DispatchJobInv, DispatchOneShotInv, NextPendingInv,
       AdmitRunInv, ProcessSettledInv, ClaimCronInv, ProcessManualInv, CancelRunInv,
       PublishInv, RecordDispatchedInv, FailRunInv, MarkFailureForJobInv,
       PublishOneShotInv, MarkOneShotInv DEF Loop
  <1>2. CASE Abandon \/ Tick \/ \E k \in Keys : Elapse(k)
    BY <1>2, AbandonInv, TickInv, ElapseInv
  <1>3. CASE \E kind \in {"edit", "enable", "disable", "delete", "run"} : Request(kind)
    BY <1>3, RequestInv
  <1>4. CASE Save \/ AdmitManualRun
    BY <1>4, SaveInv, AdmitManualRunInv
  <1>5. CASE \E s \in Slots : LoadExecution(s) \/ RecordExecution(s)
    BY <1>5, LoadExecutionInv, RecordExecutionInv
  <1>6. CASE UNCHANGED vars
    BY <1>6, StutterInv
  <1>. QED  BY <1>1, <1>2, <1>3, <1>4, <1>5, <1>6 DEF Next

-----------------------------------------------------------------------------
(* The inductive invariant holds in every behaviour of the scheduler. *)
THEOREM Invariance == Spec => []Inv
  BY InitInv, NextInv, PTL DEF Spec

(* Every variable stays in its domain; a run makes at most MaxRetries + 1  *)
(* attempts (failRun).                                                     *)
THEOREM TypeCorrect == Spec => []TypeOK
  <1>1. Inv => TypeOK
    BY DEF Inv
  <1>. QED  BY <1>1, Invariance, PTL

(* However often processRun publishes a key, after crashes, retries and    *)
(* edits, every command under it carries the same selection.               *)
THEOREM OneSelection == Spec => []OneSelectionPerKey
  <1>1. Inv => OneSelectionPerKey
    <2>. SUFFICES ASSUME Inv, NEW p \in published, NEW q \in published, p[1] = q[1]
                  PROVE  p[2] = q[2]
      BY DEF OneSelectionPerKey
    <2>1. p[1] \in Keys
      BY DEF Inv, TypeOK
    <2>. QED  BY <2>1 DEF Inv, PubInv, OnceInv
  <1>. QED  BY <1>1, Invariance, PTL

(* ClaimCron never claims a run whose definition was edited, disabled or   *)
(* deleted while it was pending, so such a run is never published.         *)
THEOREM Retirement == Spec => []RetiredNeverPublished
  <1>1. Inv => RetiredNeverPublished
    BY DEF Inv, RetiredInv, RetiredNeverPublished
  <1>. QED  BY <1>1, Invariance, PTL

(* Between two edits the cursor only goes forward, and it leaves a slot    *)
(* that has a run when settleCronRun finds that run dispatched or failed.  *)
THEOREM Cursor == Spec => CursorForward
  <1> DEFINE moved == job'.version = job.version /\ job'.slot # job.slot
             forward == /\ job'.slot > job.slot
                        /\ \/ runs[job.slot] = NoRun
                           \/ runs[job.slot].state \in {"dispatched", "failed"}
  <1>1. ASSUME Inv, [Next]_vars, moved
        PROVE  forward
    <2>1. /\ job \in Jobs /\ now \in Nat /\ NextSlot = now + 1
          /\ \A s \in Slots : s \in Nat
      BY <1>1, NextSlotType, SlotsAndKeys, ScheduleAssumption DEF Inv, TypeOK
    <2>2. CASE ProcessSettled
      <3>1. /\ key \in Keys /\ cur \in Runs /\ runs[key] # NoRun
            /\ runs[key].state = cur.state
        BY <2>2, <1>1 DEF Inv, LoopInv, ProcessSettled
      <3>2. SettleCronRun /\ cur.state \in {"dispatched", "failed"}
        BY <2>2, <2>1, <1>1 DEF ProcessSettled, PauseFailedCronRun, Jobs
      <3>3. /\ ~IsManual(key) /\ Selected(cur.def, key, cur.last)
            /\ job'.slot = NextSlot
        BY <3>2, <2>1, <1>1 DEF SettleCronRun, Jobs
      <3>4. key \in Slots /\ job.slot = key /\ key <= now
        BY <3>1, <3>3, <1>1 DEF IsManual, Keys, Selected, Inv, LedgerInv
      <3>. QED  BY <3>1, <3>2, <3>3, <3>4, <2>1
    <2>3. CASE MarkFailureForJob
      <3>1. sel \in Jobs /\ key = sel.slot /\ key <= now /\ runs[key] = NoRun
        BY <2>3, <1>1 DEF Inv, LoopInv, MarkFailureForJob
      <3>2. job.slot = sel.slot /\ job'.slot = NextSlot
        BY <2>3, <2>1, <1>1 DEF MarkFailureForJob, Selected, Jobs
      <3>3. key \in Nat
        BY <3>1, <2>1 DEF Jobs
      <3>. QED  BY <3>1, <3>2, <3>3, <2>1
    <2>4. CASE MarkOneShot
      BY <2>4, <2>1, <1>1 DEF MarkOneShot, Jobs
    <2>5. CASE Save
      <3>1. job' = Saved(request)
        BY <2>5, <1>1 DEF Save
      <3>2. request.kind \in {"edit", "enable", "disable", "delete"}
        BY <2>5, <1>1 DEF Save, Inv, TypeOK, Requests
      <3>3. job'.version = job.version + 1
        BY <3>1, <3>2, <2>1 DEF Saved, Jobs
      <3>. QED  BY <3>3, <2>1, <1>1 DEF Jobs
    <2>6. CASE \E s \in Slots : RecordExecution(s)
      BY <2>6, <2>1, <1>1 DEF RecordExecution, Jobs
    <2>7. CASE UNCHANGED job
      BY <2>7, <1>1
    <2>8. \/ ProcessSettled \/ MarkFailureForJob \/ MarkOneShot \/ Save
          \/ \E s \in Slots : RecordExecution(s)
          \/ UNCHANGED job
      BY <1>1 DEF Next, Loop, vars, StartRound, DispatchJob, DispatchOneShot, NextPending,
         AdmitRun, ClaimCron, ProcessManual, CancelRun, Publish, RecordDispatched, FailRun,
         PublishOneShot, Abandon, Request, AdmitManualRun, LoadExecution, Elapse, Tick
    <2>. QED  BY <2>2, <2>3, <2>4, <2>5, <2>6, <2>7, <2>8
  <1>2. Inv /\ [Next]_vars => [moved => forward]_vars
    BY <1>1
  <1>. QED  BY <1>2, Invariance, PTL DEF Spec, CursorForward
=============================================================================
